------------------------------ MODULE Jobs_proofs ------------------------------
(***************************************************************************)
(* Theorems about the jobs that do not write the tables: AutoTask, for any *)
(* number of processes, steps and tasks; MemberPool, for any number of     *)
(* proxies and workers, any prune streak and any number of crashes of the  *)
(* instance; ControlCall, for any outbounds and any number of calls and    *)
(* faults; OutboundEncoding, for any profiles; ShareLinks, for any proxies *)
(* of a plain form and any number of lines.                                *)
(***************************************************************************)
EXTENDS AutoTask, MemberPool, ControlCall, OutboundEncoding, ShareLinks, FiniteSets,
        SequenceTheorems, TLAPS

(*************************** AutoTask ***************************)

-----------------------------------------------------------------------------
(* The inductive invariant.                                                 *)

\* What the record s claims was done, by d.
BackedBy(s, d) ==
    s # NoTask =>
        /\ Recorded(s) \subseteq d[s.id]
        /\ 1 .. (s.index - 1) \subseteq d[s.id]
        /\ s.completed => d[s.id] = Step

\* Every completion that was saved is in the record s, unless it is contested.
Complete(s) ==
    s # NoTask /\ s.id \notin contested => kept[s.id] \subseteq Recorded(s)

Known(s) == s # NoTask => s.id <= tasks

\* A process at work has a task; while a step is executed its status says so, and it
\* is only recorded as completed after it was.
AtWork ==
    \A p \in Proc :
        /\ tpc[p] = "off" <=> task[p] = NoTask
        /\ tpc[p] \in {"execute", "good"} =>
               task[p].index \in Step /\ Current(p) # "completed"
        /\ tpc[p] = "good" => task[p].index \in did[task[p].id]

AllBacked ==
    /\ \A p \in Proc : BackedBy(task[p], did)
    /\ BackedBy(taskFile, did) /\ BackedBy(marking, did)

AllKnown ==
    /\ \A p \in Proc : Known(task[p])
    /\ Known(taskFile) /\ Known(marking)
    /\ \A i \in TaskId : i > tasks => kept[i] = {}

\* Two processes hold the same task only when it is contested.
OneHolder ==
    \A p, q \in Proc :
        p # q /\ task[p] # NoTask /\ task[p].id = task[q].id => task[p].id \in contested

AllComplete == (\A p \in Proc : Complete(task[p])) /\ Complete(taskFile)

TaskInv == TaskTypeOK /\ AtWork /\ AllBacked /\ AllKnown /\ OneHolder /\ AllComplete

-----------------------------------------------------------------------------
(* Records of tasks.                                                        *)

LEMMA NoTaskIsNone == NoTask \notin TaskState /\ NoTask.id \notin TaskId
BY TaskAssumption DEF NoTask, TaskState, TaskId

\* Mark() changes the status of the current step only.
LEMMA Marking ==
    ASSUME NEW s \in TaskState, s.index \in Step, NEW status \in StepStatus
    PROVE  /\ Mark(s, status) \in TaskState
           /\ Mark(s, status).id = s.id
           /\ Mark(s, status).index = s.index
           /\ Mark(s, status).completed = s.completed
           /\ Mark(s, status).steps[s.index] = status
           /\ Recorded(Mark(s, status)) =
                 IF status = "completed" THEN Recorded(s) \cup {s.index}
                                         ELSE Recorded(s) \ {s.index}
<1> DEFINE m == Mark(s, status)
<1>1. m = [s EXCEPT !.steps = [s.steps EXCEPT ![s.index] = status]]
  BY DEF Mark, TaskState
<1>2. s.steps \in [Step -> StepStatus]
  BY DEF TaskState
<1>3. /\ m \in TaskState
      /\ m.id = s.id /\ m.index = s.index /\ m.completed = s.completed
      /\ m.steps = [s.steps EXCEPT ![s.index] = status]
  BY <1>1, <1>2 DEF TaskState
<1>4. \A i \in Step : m.steps[i] = IF i = s.index THEN status ELSE s.steps[i]
  BY <1>2, <1>3
<1> HIDE DEF m
<1>5. Recorded(m) = IF status = "completed" THEN Recorded(s) \cup {s.index}
                                            ELSE Recorded(s) \ {s.index}
  BY <1>4 DEF Recorded
<1> QED
  BY <1>3, <1>4, <1>5 DEF m

\* What run() and a fresh resume() start with.
LEMMA FreshTask ==
    ASSUME TaskTypeOK, tasks < MaxTasks
    PROVE  /\ NewTask \in TaskState
           /\ NewTask.id = tasks + 1 /\ tasks + 1 \in TaskId
           /\ NewTask.index = 1 /\ ~NewTask.completed
           /\ Recorded(NewTask) = {}
BY TaskAssumption
   DEF TaskTypeOK, NewTask, TaskState, TaskId, Step, StepStatus, Recorded

-----------------------------------------------------------------------------
(* The steps.                                                               *)

LEMMA TaskInitially == TaskInit => TaskInv
<1> SUFFICES ASSUME TaskInit PROVE TaskInv
  OBVIOUS
<1> USE DEF TaskInit
<1>1. TaskTypeOK
  BY TaskAssumption DEF TaskTypeOK
<1>2. AtWork /\ OneHolder
  BY DEF AtWork, OneHolder
<1>3. AllBacked /\ AllKnown /\ AllComplete
  BY DEF AllBacked, AllKnown, AllComplete, BackedBy, Known, Complete
<1> QED
  BY <1>1, <1>2, <1>3 DEF TaskInv

\* A process saves the record s of its task, and goes on with t - or stops, and t is
\* NoTask.  The other processes have no uncontested task of that number.
LEMMA Saving ==
    ASSUME TaskInv, NEW p \in Proc,
           NEW s \in TaskState, NEW t \in TaskState \cup {NoTask},
           NEW l \in {"off", "loop", "execute"},
           SetTask(p, t, l), SaveTask(s),
           UNCHANGED <<marking, did, contested>>,
           tasks' \in Nat, tasks <= tasks', tasks' <= MaxTasks, s.id <= tasks',
           BackedBy(s, did), BackedBy(t, did),
           s.id \notin contested => kept[s.id] \subseteq Recorded(s),
           t # NoTask => t.id = s.id /\ Recorded(s) \subseteq Recorded(t),
           l = "off" <=> t = NoTask,
           l = "execute" => t.index \in Step /\ t.steps[t.index] # "completed",
           \A q \in Proc \ {p} : task[q].id = s.id => s.id \in contested
    PROVE  TaskInv'
<1> USE DEF TaskInv
<1>1. s.id \in TaskId /\ Recorded(s) \subseteq Step
  BY DEF TaskState, Recorded
<1>2. \A q \in Proc : task'[q] = (IF q = p THEN t ELSE task[q])
                      /\ tpc'[q] = (IF q = p THEN l ELSE tpc[q])
  BY DEF SetTask, TaskTypeOK
<1>3. taskFile' \in {s, taskFile}
  BY DEF SaveTask
<1>4. /\ kept' \in [TaskId -> SUBSET Step]
      /\ \A i \in TaskId : i # s.id \/ i \in contested => kept'[i] = kept[i]
      /\ kept[s.id] \subseteq kept'[s.id]
      /\ kept'[s.id] \subseteq kept[s.id] \cup Recorded(s)
      /\ taskFile' = s \/ kept' = kept
  BY <1>1 DEF SaveTask, TaskTypeOK
<1>5. TaskTypeOK'
  <2>1. tasks' \in 0 .. MaxTasks
    BY TaskAssumption DEF TaskTypeOK
  <2>2. task' \in [Proc -> TaskState \cup {NoTask}]
        /\ tpc' \in [Proc -> {"off", "loop", "execute", "good"}]
    BY DEF SetTask, TaskTypeOK
  <2> QED
    BY <2>1, <2>2, <1>3, <1>4 DEF TaskTypeOK
<1>6. AtWork'
  BY <1>2 DEF AtWork, Current
<1>7. AllBacked'
  BY <1>2, <1>3 DEF AllBacked, BackedBy, Recorded
<1>8. AllKnown'
  <2>1. tasks \in Nat
    BY DEF TaskTypeOK
  <2>2. \A u \in TaskState : u.id \in Nat
    BY TaskAssumption DEF TaskState, TaskId
  <2>3. \A u \in TaskState \cup {NoTask} : Known(u) => Known(u)'
    BY <2>1, <2>2 DEF Known
  <2>4. Known(s)' /\ Known(t)'
    BY DEF Known
  <2>5. \A i \in TaskId : i > tasks' => kept'[i] = {}
    BY <2>1, <1>1, <1>4, TaskAssumption DEF AllKnown, TaskId
  <2>6. \A q \in Proc : Known(task[q])'
    BY <2>3, <2>4, <1>2 DEF AllKnown, TaskTypeOK
  <2>7. Known(taskFile)' /\ Known(marking)'
    BY <2>3, <2>4, <1>3 DEF AllKnown, TaskTypeOK, Known
  <2> QED
    BY <2>5, <2>6, <2>7 DEF AllKnown, Known
<1>9. OneHolder'
  <2> SUFFICES ASSUME NEW q \in Proc, NEW r \in Proc, q # r, task'[q] # NoTask,
                      task'[q].id = task'[r].id
               PROVE  task'[q].id \in contested
    BY DEF OneHolder
  <2>1. CASE q # p /\ r # p
    BY <2>1, <1>2 DEF OneHolder
  <2>2. CASE q = p
    BY <2>2, <1>2
  <2>3. CASE r = p
    <3>1. CASE t = NoTask
      BY <3>1, <2>3, <1>2, NoTaskIsNone DEF TaskTypeOK, TaskState
    <3>2. CASE t # NoTask
      BY <3>2, <2>3, <1>2
    <3> QED
      BY <3>1, <3>2
  <2> QED
    BY <2>1, <2>2, <2>3
<1>10. AllComplete'
  <2>1. ASSUME NEW q \in Proc, task'[q] # NoTask, task'[q].id \notin contested
        PROVE  kept'[task'[q].id] \subseteq Recorded(task'[q])
    <3>1. CASE q = p
      BY <2>1, <3>1, <1>1, <1>2, <1>4
    <3>2. CASE q # p
      <4>1. task[q] \in TaskState /\ task'[q] = task[q] /\ task[q].id # s.id
        BY <2>1, <3>2, <1>2 DEF TaskTypeOK
      <4>2. task[q].id \in TaskId
        BY <4>1 DEF TaskState
      <4> QED
        BY <2>1, <4>1, <4>2, <1>4 DEF AllComplete, Complete
    <3> QED
      BY <3>1, <3>2
  <2>2. ASSUME taskFile' # NoTask, taskFile'.id \notin contested
        PROVE  kept'[taskFile'.id] \subseteq Recorded(taskFile')
    BY <2>2, <1>3, <1>4 DEF AllComplete, Complete
  <2> QED
    BY <2>1, <2>2 DEF AllComplete, Complete, Recorded
<1> QED
  BY <1>5, <1>6, <1>7, <1>8, <1>9, <1>10

\* Every process keeps its task, drops it, or takes over task i.
Hands(i) ==
    \A q \in Proc :
        \/ task'[q] = task[q] /\ tpc'[q] = tpc[q]
        \/ task'[q] = NoTask /\ tpc'[q] = "off"
        \/ /\ task'[q] # NoTask /\ task'[q].id = i /\ tpc'[q] = "loop"
           /\ BackedBy(task'[q], did)

\* Somebody contests the task i; the file holds what it held, or a record of task i.
LEMMA Contesting ==
    ASSUME TaskInv, NEW i \in TaskId, Contest(i), i <= tasks,
           UNCHANGED <<tasks, did>>,
           taskFile' = taskFile \/ (taskFile' \in TaskState /\ taskFile'.id = i),
           BackedBy(taskFile', did),
           marking' \in {marking, NoTask},
           task' \in [Proc -> TaskState \cup {NoTask}],
           tpc' \in [Proc -> {"off", "loop", "execute", "good"}],
           Hands(i)
    PROVE  TaskInv'
<1> USE DEF TaskInv, Hands
<1>1. /\ kept' = [kept EXCEPT ![i] = {}] /\ kept \in [TaskId -> SUBSET Step]
      /\ \A j \in TaskId : kept'[j] = IF j = i THEN {} ELSE kept[j]
      /\ contested' = contested \cup {i}
  BY DEF Contest, TaskTypeOK
<1>2. TaskTypeOK'
  BY <1>1 DEF TaskTypeOK
<1>3. AtWork'
  BY DEF AtWork, Current
<1>4. AllBacked'
  BY DEF AllBacked, BackedBy, Recorded
<1>5. AllKnown'
  <2>1. Known(taskFile')
    BY DEF AllKnown, Known
  <2>2. \A q \in Proc : Known(task'[q])
    BY DEF AllKnown, Known
  <2>3. \A j \in TaskId : j > tasks => kept'[j] = {}
    BY <1>1 DEF AllKnown
  <2> QED
    BY <2>1, <2>2, <2>3 DEF AllKnown, Known
<1>6. OneHolder'
  <2> SUFFICES ASSUME NEW q \in Proc, NEW r \in Proc, q # r, task'[q] # NoTask,
                      task'[q].id = task'[r].id, task'[q].id # i
               PROVE  task'[q].id \in contested
    BY <1>1 DEF OneHolder
  <2>1. task'[r] # NoTask
    BY NoTaskIsNone DEF TaskTypeOK, TaskState
  <2>2. task'[q] = task[q] /\ task'[r] = task[r]
    BY <2>1
  <2> QED
    BY <2>2 DEF OneHolder
<1>7. AllComplete'
  <2>1. ASSUME NEW q \in Proc PROVE Complete(task'[q]) \/ task'[q].id = i
    BY DEF AllComplete, Complete
  <2>2. Complete(taskFile') \/ taskFile'.id = i
    BY DEF AllComplete
  <2>3. (\A q \in Proc : task'[q] \in TaskState \cup {NoTask})
        /\ taskFile' \in TaskState \cup {NoTask}
    BY <1>2 DEF TaskTypeOK
  <2>4. \A q \in Proc : Complete(task[q])'
    <3> TAKE q \in Proc
    <3> DEFINE u == task'[q]
    <3>1. u \in TaskState \cup {NoTask}
      BY <2>3
    <3>2. u # NoTask /\ u.id \notin contested' => kept'[u.id] \subseteq Recorded(u)
      <4>1. CASE u.id = i
        BY <4>1, <1>1
      <4>2. CASE u.id # i
        <5>1. u # NoTask => u.id \in TaskId
          BY <3>1 DEF TaskState
        <5> QED
          BY <4>2, <5>1, <2>1, <1>1 DEF Complete
      <4> QED
        BY <4>1, <4>2
    <3> QED
      BY <3>2 DEF Complete, Recorded
  <2>5. Complete(taskFile)'
    <3> DEFINE u == taskFile'
    <3>1. u # NoTask /\ u.id \notin contested' => kept'[u.id] \subseteq Recorded(u)
      <4>1. CASE u.id = i
        BY <4>1, <1>1
      <4>2. CASE u.id # i
        <5>1. u # NoTask => u.id \in TaskId
          BY <2>3 DEF TaskState
        <5> QED
          BY <4>2, <5>1, <2>2, <1>1 DEF Complete
      <4> QED
        BY <4>1, <4>2
    <3> QED
      BY <3>1 DEF Complete, Recorded
  <2> QED
    BY <2>4, <2>5 DEF AllComplete
<1> QED
  BY <1>2, <1>3, <1>4, <1>5, <1>6, <1>7

\* A new task: nobody holds its number, and nothing was saved for it.
LEMMA Starting ==
    ASSUME TaskInv, NEW p \in Proc, tpc[p] = "off", tasks < MaxTasks,
           tasks' = tasks + 1, SetTask(p, NewTask, "loop"), SaveTask(NewTask),
           UNCHANGED <<marking, did, contested>>
    PROVE  TaskInv'
<1>1. NewTask \in TaskState /\ NewTask.id = tasks + 1 /\ tasks + 1 \in TaskId
      /\ NewTask.index = 1 /\ ~NewTask.completed /\ Recorded(NewTask) = {}
  BY FreshTask DEF TaskInv
<1>2. tasks \in Nat /\ tasks' \in Nat /\ tasks <= tasks' /\ tasks' <= MaxTasks
  BY TaskAssumption DEF TaskInv, TaskTypeOK
<1>3. BackedBy(NewTask, did) /\ NewTask # NoTask
  BY <1>1, NoTaskIsNone DEF BackedBy
<1>4. kept[NewTask.id] \subseteq Recorded(NewTask)
  BY <1>1, <1>2 DEF TaskInv, AllKnown
<1>5. \A q \in Proc : task[q].id # NewTask.id
  <2> TAKE q \in Proc
  <2>1. CASE task[q] = NoTask
    BY <2>1, <1>1, NoTaskIsNone
  <2>2. CASE task[q] # NoTask
    <3>1. task[q] \in TaskState /\ task[q].id <= tasks
      BY <2>2 DEF TaskInv, TaskTypeOK, AllKnown, Known
    <3>2. task[q].id \in Nat
      BY <3>1, TaskAssumption DEF TaskState, TaskId
    <3> QED
      BY <1>1, <1>2, <3>1, <3>2
  <2> QED
    BY <2>1, <2>2
<1> HIDE DEF NewTask
<1> QED
  BY <1>1, <1>2, <1>3, <1>4, <1>5, Saving

\* What is known of the task of a process at work.
LEMMA Holding ==
    ASSUME TaskInv, NEW p \in Proc, tpc[p] # "off"
    PROVE  /\ task[p] \in TaskState /\ task[p] # NoTask
           /\ task[p].id \in TaskId /\ task[p].id <= tasks
           /\ Recorded(task[p]) \subseteq did[task[p].id]
           /\ 1 .. (task[p].index - 1) \subseteq did[task[p].id]
           /\ task[p].completed => did[task[p].id] = Step
           /\ task[p].id \notin contested => kept[task[p].id] \subseteq Recorded(task[p])
           /\ \A q \in Proc \ {p} : task[q].id = task[p].id => task[p].id \in contested
           /\ tasks \in Nat /\ tasks <= MaxTasks
<1>1. task[p] \in TaskState /\ task[p] # NoTask
  BY DEF TaskInv, TaskTypeOK, AtWork
<1> QED
  BY <1>1, TaskAssumption
     DEF TaskInv, TaskTypeOK, TaskState, AllBacked, BackedBy, AllKnown, Known, AllComplete,
         Complete, OneHolder

\* The task goes on, or ends, with a record that says what was done and nothing less
\* than what was saved; nothing but the file, the task and what is kept changes.
LEMMA GoingOn ==
    ASSUME TaskInv, NEW p \in Proc, tpc[p] # "off",
           NEW s \in TaskState, NEW t \in TaskState \cup {NoTask},
           NEW l \in {"off", "loop", "execute"},
           SetTask(p, t, l), SaveTask(s),
           UNCHANGED <<marking, tasks, did, contested>>,
           s.id = task[p].id, BackedBy(s, did), BackedBy(t, did),
           Recorded(task[p]) \subseteq Recorded(s),
           t # NoTask => t.id = s.id /\ Recorded(s) \subseteq Recorded(t),
           l = "off" <=> t = NoTask,
           l = "execute" => t.index \in Step /\ t.steps[t.index] # "completed"
    PROVE  TaskInv'
<1>1. /\ tasks' \in Nat /\ tasks <= tasks' /\ tasks' <= MaxTasks /\ s.id <= tasks'
      /\ s.id \notin contested => kept[s.id] \subseteq Recorded(s)
      /\ \A q \in Proc \ {p} : task[q].id = s.id => s.id \in contested
  BY Holding
<1> QED
  BY <1>1, Saving

LEMMA NothingBacked == BackedBy(NoTask, did)
BY DEF BackedBy

\* A running step is not recorded as completed, and may be given another status.
LEMMA Remarking ==
    ASSUME TaskInv, NEW p \in Proc, tpc[p] # "off",
           NEW s \in TaskState, s.id = task[p].id, s.index = task[p].index,
           s.steps = task[p].steps, s.completed = task[p].completed,
           s.index \in Step, s.steps[s.index] # "completed",
           NEW status \in StepStatus \ {"completed"}
    PROVE  /\ Mark(s, status) \in TaskState /\ Mark(s, status).id = task[p].id
           /\ Mark(s, status).index = s.index
           /\ Mark(s, status).steps[s.index] = status
           /\ Recorded(Mark(s, status)) = Recorded(task[p])
           /\ BackedBy(Mark(s, status), did)
<1>1. Recorded(s) = Recorded(task[p]) /\ s.index \notin Recorded(s)
  BY DEF Recorded
<1> DEFINE m == Mark(s, status)
<1>2. /\ m \in TaskState /\ m.id = s.id /\ m.index = s.index
      /\ m.completed = s.completed /\ m.steps[s.index] = status
      /\ Recorded(m) = Recorded(s) \ {s.index}
  BY Marking
<1> HIDE DEF m
<1>3. BackedBy(m, did)
  BY <1>1, <1>2, Holding DEF BackedBy
<1> QED
  BY <1>1, <1>2, <1>3 DEF m

LEMMA StepsOfTask ==
    ASSUME TaskInv, NEW p \in Proc, TaskStep(p)
    PROVE  TaskInv'
<1>1. CASE RunTask(p)
  BY <1>1, Starting DEF RunTask
<1>2. CASE ResumeTask(p)
  <2>1. PICK s \in TaskState :
          /\ s = taskFile /\ ~s.completed /\ s.index \in Step
          /\ SetTask(p, ResumesAt(s), "loop")
          /\ IF \E q \in Proc : task[q].id = s.id THEN Contest(s.id)
             ELSE UNCHANGED <<contested, kept>>
    BY <1>2, NoTaskIsNone DEF ResumeTask, LoadTask
  <2> DEFINE t == ResumesAt(s)
  <2>2. /\ t \in TaskState /\ t.id = s.id /\ t.index = s.index /\ t.steps = s.steps
        /\ t.completed = s.completed /\ Recorded(t) = Recorded(s)
    BY DEF ResumesAt, TaskState, Recorded
  <2> HIDE DEF t
  <2>3. s # NoTask /\ t # NoTask
    BY <2>2, NoTaskIsNone
  <2>4. s.id \in TaskId /\ s.id <= tasks /\ BackedBy(t, did)
    BY <2>1, <2>2, <2>3 DEF TaskInv, TaskState, AllBacked, BackedBy, AllKnown, Known
  <2>5. \A q \in Proc : task'[q] = (IF q = p THEN t ELSE task[q])
                        /\ tpc'[q] = (IF q = p THEN "loop" ELSE tpc[q])
    BY <2>1 DEF SetTask, TaskInv, TaskTypeOK, t
  <2>6. task' \in [Proc -> TaskState \cup {NoTask}]
        /\ tpc' \in [Proc -> {"off", "loop", "execute", "good"}]
    BY <2>1, <2>2 DEF SetTask, TaskInv, TaskTypeOK, t
  <2>7. UNCHANGED <<taskFile, marking, tasks, did>>
    BY <1>2 DEF ResumeTask
  <2>8. CASE \E q \in Proc : task[q].id = s.id
    <3>1. Contest(s.id) /\ BackedBy(taskFile, did)
      BY <2>1, <2>8 DEF TaskInv, AllBacked
    <3>2. Hands(s.id)
      BY <2>2, <2>3, <2>4, <2>5 DEF Hands
    <3>3. BackedBy(taskFile', did)
      BY <2>7, <3>1 DEF BackedBy, Recorded
    <3> QED
      BY <2>4, <2>6, <2>7, <3>1, <3>2, <3>3, Contesting
  <2>9. CASE \A q \in Proc : task[q].id # s.id
    <3>1. UNCHANGED <<contested, kept>>
      BY <2>1, <2>9
    <3>2. TaskTypeOK' /\ AllBacked' /\ AllKnown'
      BY <2>1, <2>2, <2>3, <2>4, <2>5, <2>6, <2>7, <3>1
         DEF TaskInv, TaskTypeOK, AllBacked, BackedBy, Recorded, AllKnown, Known
    <3>3. AtWork'
      BY <2>3, <2>5, <2>7 DEF TaskInv, AtWork, Current
    <3>4. OneHolder'
      <4>1. ASSUME NEW q \in Proc, NEW r \in Proc, q # r, task'[q] # NoTask,
                   task'[q].id = task'[r].id
            PROVE  task'[q].id \in contested
        BY <4>1, <2>2, <2>5, <2>9 DEF TaskInv, OneHolder
      <4> QED
        BY <4>1, <3>1 DEF OneHolder
    <3>5. AllComplete'
      BY <2>1, <2>2, <2>3, <2>5, <2>7, <3>1 DEF TaskInv, AllComplete, Complete, Recorded
    <3> QED
      BY <3>2, <3>3, <3>4, <3>5 DEF TaskInv
  <2> QED
    BY <2>8, <2>9
<1>3. CASE ResumeAfresh(p)
  BY <1>3, Starting DEF ResumeAfresh
<1>4. CASE CancelledBetweenSteps(p)
  <2> DEFINE s == [task[p] EXCEPT !.cancelled = TRUE]
  <2>1. tpc[p] = "loop" /\ StopTask(p, s) /\ UNCHANGED <<marking, tasks, did, contested>>
    BY <1>4 DEF CancelledBetweenSteps
  <2>2. /\ s \in TaskState /\ s.id = task[p].id /\ s.index = task[p].index
        /\ s.completed = task[p].completed /\ Recorded(s) = Recorded(task[p])
    <3>1. task[p] \in TaskState
      BY <2>1, Holding
    <3> QED
      BY <3>1 DEF TaskState, Recorded
  <2> HIDE DEF s
  <2>3. BackedBy(s, did)
    BY <2>1, <2>2, Holding DEF BackedBy
  <2> QED
    BY <2>1, <2>2, <2>3, GoingOn, NothingBacked DEF StopTask
<1>5. CASE AbortedByNetwork(p)
  <2> DEFINE c == [task[p] EXCEPT !.cancelled = TRUE]
             s == Mark(c, "cancelled")
  <2>1. /\ tpc[p] = "loop" /\ task[p].index \in Step
        /\ IF Current(p) = "completed"
           THEN taskFile' \in {s, taskFile} /\ Contest(s.id)
           ELSE SaveTask(s) /\ UNCHANGED contested
        /\ SetTask(p, NoTask, "off")
        /\ UNCHANGED <<marking, tasks, did>>
    BY <1>5 DEF AbortedByNetwork
  <2>2. /\ c \in TaskState /\ c.id = task[p].id /\ c.index = task[p].index
        /\ c.steps = task[p].steps /\ c.completed = task[p].completed
        /\ Recorded(c) = Recorded(task[p])
    <3>1. task[p] \in TaskState
      BY <2>1, Holding
    <3> QED
      BY <3>1 DEF TaskState, Recorded
  <2> HIDE DEF c
  <2>3. CASE Current(p) = "completed"
    <3>1. /\ s \in TaskState /\ s.id = task[p].id /\ s.index = task[p].index
          /\ s.completed = task[p].completed /\ Recorded(s) \subseteq Recorded(task[p])
      BY <2>1, <2>2, Marking DEF StepStatus
    <3> HIDE DEF s
    <3>2. BackedBy(s, did)
      BY <2>1, <3>1, Holding DEF BackedBy
    <3>3. Contest(task[p].id) /\ taskFile' \in {s, taskFile}
      BY <2>1, <2>3, <3>1
    <3>4. task[p].id \in TaskId /\ task[p].id <= tasks
      BY <2>1, Holding
    <3>5. /\ BackedBy(taskFile', did)
          /\ taskFile' = taskFile \/ (taskFile' \in TaskState /\ taskFile'.id = task[p].id)
      <4>1. BackedBy(taskFile, did)
        BY DEF TaskInv, AllBacked
      <4> QED
        BY <3>1, <3>2, <3>3, <4>1
    <3>6. /\ task' \in [Proc -> TaskState \cup {NoTask}]
          /\ tpc' \in [Proc -> {"off", "loop", "execute", "good"}]
          /\ Hands(task[p].id)
      BY <2>1 DEF SetTask, TaskInv, TaskTypeOK, Hands
    <3>7. UNCHANGED <<marking, tasks, did>>
      BY <2>1
    <3> QED
      BY <3>3, <3>4, <3>5, <3>6, <3>7, Contesting
  <2>4. CASE Current(p) # "completed"
    <3>1. /\ s \in TaskState /\ s.id = task[p].id
          /\ Recorded(s) = Recorded(task[p]) /\ BackedBy(s, did)
      BY <2>1, <2>2, <2>4, Remarking DEF StepStatus, Current
    <3> HIDE DEF s
    <3> QED
      BY <2>1, <2>4, <3>1, GoingOn, NothingBacked
  <2> QED
    BY <2>3, <2>4
<1>6. CASE SkipStep(p)
  <2> DEFINE t == [task[p] EXCEPT !.index = task[p].index + 1]
  <2>1. /\ tpc[p] = "loop" /\ task[p].index \in Step /\ Current(p) = "completed"
        /\ SetTask(p, t, "loop")
        /\ UNCHANGED <<taskFile, marking, tasks, did, kept, contested>>
    BY <1>6 DEF SkipStep
  <2>2. /\ t \in TaskState /\ t.id = task[p].id /\ t.index = task[p].index + 1
        /\ t.completed = task[p].completed /\ Recorded(t) = Recorded(task[p])
    <3>1. task[p].index + 1 \in 1 .. Steps + 1
      BY <2>1, TaskAssumption DEF Step
    <3>2. task[p] \in TaskState
      BY <2>1, Holding
    <3> QED
      BY <3>1, <3>2 DEF TaskState, Recorded
  <2> HIDE DEF t
  <2>3. t # NoTask
    BY <2>2, NoTaskIsNone
  <2>4. task[p].index \in did[task[p].id]
    BY <2>1, Holding DEF Recorded, Current
  <2>5. BackedBy(t, did)
    <3>1. 1 .. (t.index - 1) \subseteq did[t.id]
      BY <2>1, <2>2, <2>4, Holding, TaskAssumption DEF Step
    <3> QED
      BY <2>1, <2>2, <3>1, Holding DEF BackedBy
  <2>6. \A q \in Proc : task'[q] = (IF q = p THEN t ELSE task[q])
                        /\ tpc'[q] = (IF q = p THEN "loop" ELSE tpc[q])
    BY <2>1 DEF SetTask, TaskInv, TaskTypeOK
  <2>7. TaskTypeOK'
    BY <2>1, <2>2 DEF SetTask, TaskInv, TaskTypeOK
  <2>8. AllBacked' /\ AllKnown' /\ AllComplete'
    BY <2>1, <2>2, <2>5, <2>6, Holding
       DEF TaskInv, AllBacked, BackedBy, Recorded, AllKnown, Known, AllComplete, Complete
  <2>9. AtWork'
    BY <2>1, <2>3, <2>6 DEF TaskInv, AtWork, Current
  <2>10. OneHolder'
    BY <2>1, <2>2, <2>6, Holding DEF TaskInv, OneHolder
  <2> QED
    BY <2>7, <2>8, <2>9, <2>10 DEF TaskInv
<1>7. CASE BeginStep(p)
  <2> DEFINE s == Mark(task[p], "running")
  <2>1. /\ tpc[p] = "loop" /\ task[p].index \in Step /\ Current(p) # "completed"
        /\ SetTask(p, s, "execute") /\ SaveTask(s)
        /\ UNCHANGED <<marking, tasks, did, contested>>
    BY <1>7 DEF BeginStep
  <2>2. task[p] \in TaskState
    BY <2>1, Holding
  <2>3. /\ s \in TaskState /\ s.id = task[p].id /\ s.index = task[p].index
        /\ s.steps[s.index] = "running" /\ Recorded(s) = Recorded(task[p]) /\ BackedBy(s, did)
    BY <2>1, <2>2, Remarking DEF StepStatus, Current
  <2> HIDE DEF s
  <2>4. s # NoTask
    BY <2>3, NoTaskIsNone
  <2> QED
    BY <2>1, <2>3, <2>4, GoingOn
<1>8. CASE ExecuteStep(p)
  <2>1. /\ tpc[p] = "execute" /\ tpc' = [tpc EXCEPT ![p] = "good"]
        /\ did' = [did EXCEPT ![task[p].id] = did[task[p].id] \cup {task[p].index}]
        /\ UNCHANGED <<taskFile, task, marking, tasks, kept, contested>>
    BY <1>8 DEF ExecuteStep
  <2>2. task[p].id \in TaskId /\ task[p].index \in Step
    BY <2>1, Holding DEF TaskInv, AtWork
  <2>3. TaskTypeOK'
    BY <2>1, <2>2 DEF TaskInv, TaskTypeOK
  <2>4. /\ \A i \in TaskId : did[i] \subseteq did'[i] /\ did'[i] \subseteq Step
        /\ task[p].index \in did'[task[p].id]
    BY <2>1, <2>2 DEF TaskInv, TaskTypeOK
  <2>5. \A q \in Proc : tpc'[q] = IF q = p THEN "good" ELSE tpc[q]
    BY <2>1 DEF TaskInv, TaskTypeOK
  <2>6. AtWork'
    <3>1. \A q \in Proc : tpc[q] = "good" => task[q].id \in TaskId
      BY Holding
    <3> QED
      BY <2>1, <2>4, <2>5, <3>1 DEF TaskInv, AtWork, Current
  <2>7. AllBacked'
    <3>1. \A u \in TaskState \cup {NoTask} : u # NoTask => u.id \in TaskId
      BY DEF TaskState
    <3>2. ASSUME NEW u \in TaskState \cup {NoTask}, BackedBy(u, did)
          PROVE  u # NoTask =>
                     /\ Recorded(u) \subseteq did'[u.id]
                     /\ 1 .. (u.index - 1) \subseteq did'[u.id]
                     /\ u.completed => did'[u.id] = Step
      <4> SUFFICES ASSUME u # NoTask
                   PROVE  /\ Recorded(u) \subseteq did'[u.id]
                          /\ 1 .. (u.index - 1) \subseteq did'[u.id]
                          /\ u.completed => did'[u.id] = Step
        OBVIOUS
      <4>1. did[u.id] \subseteq did'[u.id] /\ did'[u.id] \subseteq Step
        BY <2>4, <3>1
      <4> QED
        BY <4>1, <3>2 DEF BackedBy
    <3> QED
      BY <2>1, <3>2 DEF TaskInv, TaskTypeOK, AllBacked, BackedBy, Recorded
  <2>8. AllKnown' /\ OneHolder' /\ AllComplete'
    BY <2>1 DEF TaskInv, AllKnown, Known, OneHolder, AllComplete, Complete, Recorded
  <2> QED
    BY <2>3, <2>6, <2>7, <2>8 DEF TaskInv
<1>9. CASE StepCancelled(p)
  <2> DEFINE c == [task[p] EXCEPT !.cancelled = TRUE]
             s == Mark(c, "cancelled")
  <2>1. /\ tpc[p] \in {"execute", "good"} /\ StopTask(p, s)
        /\ UNCHANGED <<marking, tasks, did, contested>>
    BY <1>9 DEF StepCancelled
  <2>2. tpc[p] # "off" /\ task[p].index \in Step /\ Current(p) # "completed"
    BY <2>1 DEF TaskInv, AtWork
  <2>3. /\ c \in TaskState /\ c.id = task[p].id /\ c.index = task[p].index
        /\ c.steps = task[p].steps /\ c.completed = task[p].completed
    <3>1. task[p] \in TaskState
      BY <2>2, Holding
    <3> QED
      BY <3>1 DEF TaskState, Recorded
  <2> HIDE DEF c
  <2>4. /\ s \in TaskState /\ s.id = task[p].id
        /\ Recorded(s) = Recorded(task[p]) /\ BackedBy(s, did)
    BY <2>2, <2>3, Remarking DEF StepStatus, Current
  <2> HIDE DEF s
  <2> QED
    BY <2>1, <2>2, <2>4, GoingOn, NothingBacked DEF StopTask
<1>10. CASE StepCompleted(p)
  <2> DEFINE s == Mark(task[p], "completed")
             t == [s EXCEPT !.index = s.index + 1]
  <2>1. /\ tpc[p] = "good" /\ SetTask(p, t, "loop") /\ SaveTask(s)
        /\ UNCHANGED <<marking, tasks, did, contested>>
    BY <1>10 DEF StepCompleted
  <2>2. tpc[p] # "off" /\ task[p].index \in Step /\ task[p].index \in did[task[p].id]
    BY <2>1 DEF TaskInv, AtWork
  <2>3. /\ s \in TaskState /\ s.id = task[p].id /\ s.index = task[p].index
        /\ s.completed = task[p].completed
        /\ Recorded(s) = Recorded(task[p]) \cup {task[p].index}
    BY <2>2, Holding, Marking DEF StepStatus
  <2>4. s.index + 1 \in 1 .. Steps + 1
    BY <2>2, <2>3, TaskAssumption DEF Step
  <2> HIDE DEF s
  <2>5. /\ t \in TaskState /\ t.id = s.id /\ t.index = s.index + 1
        /\ t.completed = s.completed /\ Recorded(t) = Recorded(s)
    BY <2>3, <2>4 DEF TaskState, Recorded
  <2> HIDE DEF t
  <2>6. t # NoTask
    BY <2>5, NoTaskIsNone
  <2>7. BackedBy(s, did)
    BY <2>2, <2>3, Holding DEF BackedBy
  <2>8. BackedBy(t, did)
    <3>1. 1 .. (t.index - 1) \subseteq did[t.id]
      BY <2>2, <2>3, <2>5, Holding, TaskAssumption DEF Step
    <3> QED
      BY <2>7, <2>3, <2>5, <3>1, NoTaskIsNone DEF BackedBy
  <2> QED
    BY <2>1, <2>2, <2>3, <2>5, <2>6, <2>7, <2>8, GoingOn
<1>11. CASE StepFailed(p)
  <2> DEFINE s == Mark(task[p], "failed")
  <2>1. /\ tpc[p] = "execute" /\ StopTask(p, s)
        /\ UNCHANGED <<marking, tasks, did, contested>>
    BY <1>11 DEF StepFailed
  <2>2. tpc[p] # "off" /\ task[p].index \in Step /\ Current(p) # "completed"
    BY <2>1 DEF TaskInv, AtWork
  <2>3. /\ s \in TaskState /\ s.id = task[p].id
        /\ Recorded(s) = Recorded(task[p]) /\ BackedBy(s, did)
    <3>1. task[p] \in TaskState
      BY <2>2, Holding
    <3> QED
      BY <2>2, <3>1, Remarking DEF StepStatus, Current
  <2> HIDE DEF s
  <2> QED
    BY <2>1, <2>2, <2>3, GoingOn, NothingBacked DEF StopTask
<1>12. CASE TaskCompleted(p)
  <2> DEFINE s == [task[p] EXCEPT !.completed = TRUE]
  <2>1. /\ tpc[p] = "loop" /\ task[p].index = Steps + 1 /\ StopTask(p, s)
        /\ UNCHANGED <<marking, tasks, did, contested>>
    BY <1>12 DEF TaskCompleted
  <2>2. /\ s \in TaskState /\ s.id = task[p].id /\ s.index = task[p].index
        /\ Recorded(s) = Recorded(task[p])
    <3>1. task[p] \in TaskState
      BY <2>1, Holding
    <3> QED
      BY <3>1 DEF TaskState, Recorded
  <2> HIDE DEF s
  <2>3. did[s.id] = Step
    <3>1. did[task[p].id] \subseteq Step
      BY <2>1, Holding DEF TaskInv, TaskTypeOK
    <3>2. 1 .. Steps \subseteq did[task[p].id]
      BY <2>1, Holding, TaskAssumption
    <3> QED
      BY <2>2, <3>1, <3>2 DEF Step
  <2>4. BackedBy(s, did)
    BY <2>1, <2>2, <2>3, Holding DEF BackedBy
  <2> QED
    BY <2>1, <2>2, <2>4, GoingOn, NothingBacked DEF StopTask
<1>13. CASE KillTask(p)
  <2>1. /\ SetTask(p, NoTask, "off") /\ taskFile' \in {taskFile, NoTask}
        /\ UNCHANGED <<marking, tasks, did, kept, contested>>
    BY <1>13 DEF KillTask
  <2>2. \A q \in Proc : task'[q] = (IF q = p THEN NoTask ELSE task[q])
                        /\ tpc'[q] = (IF q = p THEN "off" ELSE tpc[q])
    BY <2>1 DEF SetTask, TaskInv, TaskTypeOK
  <2>3. TaskTypeOK'
    BY <2>1 DEF SetTask, TaskInv, TaskTypeOK
  <2>4. AtWork'
    BY <2>1, <2>2 DEF TaskInv, AtWork, Current
  <2>5. AllBacked' /\ AllKnown' /\ AllComplete'
    BY <2>1, <2>2
       DEF TaskInv, AllBacked, BackedBy, Recorded, AllKnown, Known, AllComplete, Complete
  <2>6. OneHolder'
    <3>1. \A q \in Proc : task[q] # NoTask => task[q].id # NoTask.id
      BY NoTaskIsNone DEF TaskInv, TaskTypeOK, TaskState
    <3> QED
      BY <2>1, <2>2, <3>1 DEF TaskInv, OneHolder
  <2> QED
    BY <2>3, <2>4, <2>5, <2>6 DEF TaskInv
<1> QED
  BY <1>1, <1>2, <1>3, <1>4, <1>5, <1>6, <1>7, <1>8, <1>9, <1>10, <1>11, <1>12, <1>13
     DEF TaskStep

\* -cancel-task takes the file's record, with no completion added or lost.
LEMMA Reading ==
    ASSUME TaskInv, MarkRead
    PROVE  TaskInv'
<1> DEFINE Marked(s) == [i \in Step |-> IF s.steps[i] = "running" THEN "cancelled"
                                                                 ELSE s.steps[i]]
<1>1. PICK s \in TaskState :
         /\ s = taskFile
         /\ marking' = [s EXCEPT !.cancelled = TRUE,
                          !.steps = [i \in Step |-> IF s.steps[i] = "running"
                                                    THEN "cancelled" ELSE s.steps[i]]]
  BY NoTaskIsNone DEF MarkRead, LoadTask
<1>2. UNCHANGED <<taskFile, task, tpc, tasks, did, kept, contested>>
  BY DEF MarkRead
<1>3. s.steps \in [Step -> StepStatus] /\ s.id \in TaskId
  BY DEF TaskState
<1>4. Marked(s) \in [Step -> StepStatus]
      /\ \A i \in Step : Marked(s)[i] = "completed" <=> s.steps[i] = "completed"
  BY <1>3 DEF StepStatus
<1>5. /\ marking' = [s EXCEPT !.cancelled = TRUE, !.steps = Marked(s)]
  BY <1>1
<1> HIDE DEF Marked
<1>6. /\ marking' \in TaskState /\ marking'.id = s.id /\ marking'.index = s.index
      /\ marking'.completed = s.completed /\ marking'.steps = Marked(s)
  BY <1>4, <1>5 DEF TaskState
<1>7. Recorded(marking') = Recorded(s)
  BY <1>4, <1>6 DEF Recorded
<1>8. s # NoTask
  BY NoTaskIsNone
<1>9. BackedBy(marking', did) /\ marking'.id <= tasks
  BY <1>1, <1>6, <1>7, <1>8 DEF TaskInv, AllBacked, BackedBy, AllKnown, Known
<1>10. TaskTypeOK' /\ AllBacked' /\ AllKnown'
  BY <1>2, <1>6, <1>9 DEF TaskInv, TaskTypeOK, AllBacked, AllKnown, Known
<1>11. AtWork' /\ OneHolder' /\ AllComplete'
  BY <1>2 DEF TaskInv, AtWork, Current, OneHolder, AllComplete, Complete
<1> QED
  BY <1>10, <1>11 DEF TaskInv

\* It writes the record back: the task is contested if something is lost by that.
LEMMA Writing ==
    ASSUME TaskInv, MarkWrite
    PROVE  TaskInv'
<1>1. /\ marking # NoTask /\ marking' = NoTask /\ taskFile' \in {marking, taskFile}
      /\ IF kept[marking.id] \subseteq Recorded(marking)
         THEN UNCHANGED <<contested, kept>> ELSE Contest(marking.id)
      /\ UNCHANGED <<task, tpc, tasks, did>>
  BY DEF MarkWrite
<1>2. /\ marking \in TaskState /\ BackedBy(marking, did) /\ BackedBy(taskFile, did)
      /\ marking.id <= tasks
  BY <1>1 DEF TaskInv, TaskTypeOK, AllBacked, AllKnown, Known
<1>3. marking.id \in TaskId
  BY <1>2 DEF TaskState
<1>4. BackedBy(taskFile', did)
      /\ (taskFile' = taskFile \/ (taskFile' \in TaskState /\ taskFile'.id = marking.id))
  BY <1>1, <1>2
<1>5. CASE kept[marking.id] \subseteq Recorded(marking)
  <2>1. UNCHANGED <<contested, kept>>
    BY <1>1, <1>5
  <2>2. TaskTypeOK'
    BY <1>1, <1>2, <2>1 DEF TaskInv, TaskTypeOK
  <2>3. AllBacked' /\ AllKnown'
    BY <1>1, <1>2, <1>4, <2>1
       DEF TaskInv, AllBacked, BackedBy, Recorded, AllKnown, Known
  <2>4. AtWork' /\ OneHolder'
    BY <1>1, <2>1 DEF TaskInv, AtWork, Current, OneHolder
  <2>5. AllComplete'
    BY <1>1, <1>5, <2>1 DEF TaskInv, AllComplete, Complete, Recorded
  <2> QED
    BY <2>2, <2>3, <2>4, <2>5 DEF TaskInv
<1>6. CASE ~(kept[marking.id] \subseteq Recorded(marking))
  <2>1. Contest(marking.id)
    BY <1>1, <1>6
  <2>2. Hands(marking.id)
    BY <1>1 DEF Hands
  <2>3. /\ task' \in [Proc -> TaskState \cup {NoTask}]
        /\ tpc' \in [Proc -> {"off", "loop", "execute", "good"}]
        /\ UNCHANGED <<tasks, did>> /\ marking' \in {marking, NoTask}
    BY <1>1 DEF TaskInv, TaskTypeOK
  <2> QED
    BY <1>2, <1>3, <1>4, <2>1, <2>2, <2>3, Contesting
<1> QED
  BY <1>5, <1>6

LEMMA TaskInvStep == TaskInv /\ [TaskNext]_taskVars => TaskInv'
<1> SUFFICES ASSUME TaskInv, [TaskNext]_taskVars PROVE TaskInv'
  OBVIOUS
<1>1. CASE \E p \in Proc : TaskStep(p)
  BY <1>1, StepsOfTask
<1>2. CASE MarkRead
  BY <1>2, Reading
<1>3. CASE MarkWrite
  BY <1>3, Writing
<1>4. CASE UNCHANGED taskVars
  BY <1>4 DEF taskVars, TaskInv, TaskTypeOK, AtWork, Current, AllBacked, BackedBy, AllKnown,
              Known, OneHolder, AllComplete, Complete, Recorded
<1> QED
  BY <1>1, <1>2, <1>3, <1>4 DEF TaskNext

-----------------------------------------------------------------------------
(* The theorems.                                                            *)

LEMMA TaskInvAlways == TaskSpec => []TaskInv
BY TaskInitially, TaskInvStep, PTL DEF TaskSpec

\* The records of the pipeline keep their types: a resumed index is one of the steps or
\* the one after the last, and no status is made up.
THEOREM TaskTypeCorrect == TaskSpec => []TaskTypeOK
<1>1. TaskInv => TaskTypeOK
  BY DEF TaskInv
<1> QED
  BY <1>1, TaskInvAlways, PTL

\* Neither a kill, nor a failed save, nor -cancel-task writing an older state back makes
\* runSteps() or the state file claim a step that was not executed successfully.
THEOREM RecordedWasDoneAlways == TaskSpec => []RecordedWasDone
<1>1. TaskInv => RecordedWasDone
  BY DEF TaskInv, AllBacked, BackedBy, RecordedWasDone
<1> QED
  BY <1>1, TaskInvAlways, PTL

\* runSteps() does not execute a step again whose completion was saved, while nobody
\* contests the task's record.
THEOREM KeptIsNotRepeatedAlways == TaskSpec => KeptIsNotRepeated
<1> DEFINE Fresh(p) == tpc[p] = "loop" /\ tpc'[p] = "execute" =>
              \/ task[p].id \in contested
              \/ task[p].index \notin kept[task[p].id]
<1>1. ASSUME TaskInv, [TaskNext]_taskVars, ~UNCHANGED taskVars, NEW p \in Proc,
             tpc[p] = "loop", tpc'[p] = "execute", task[p].id \notin contested
      PROVE  task[p].index \notin kept[task[p].id]
  <2>1. tpc \in [Proc -> {"off", "loop", "execute", "good"}]
    BY <1>1 DEF TaskInv, TaskTypeOK
  <2>2. PICK q \in Proc : TaskStep(q)
    BY <1>1 DEF TaskNext, MarkRead, MarkWrite
  <2>3. \/ BeginStep(q)
        \/ \E l \in {"off", "loop", "good"} : tpc' = [tpc EXCEPT ![q] = l]
    BY <2>2 DEF TaskStep, RunTask, ResumeTask, ResumeAfresh, CancelledBetweenSteps,
                AbortedByNetwork, SkipStep, ExecuteStep, StepCancelled, StepCompleted,
                StepFailed, TaskCompleted, KillTask, StopTask, SetTask
  <2>4. BeginStep(q) /\ q = p
    BY <1>1, <2>1, <2>3 DEF BeginStep, SetTask
  <2>5. Current(p) # "completed" /\ kept[task[p].id] \subseteq Recorded(task[p])
    BY <1>1, <2>4, Holding DEF BeginStep
  <2> QED
    BY <2>5 DEF Recorded, Current
<1>2. TaskInv /\ [TaskNext]_taskVars => [\A p \in Proc : Fresh(p)]_taskVars
  BY <1>1
<1> QED
  BY <1>2, TaskInvAlways, PTL DEF TaskSpec, KeptIsNotRepeated

(*************************** MemberPool ***************************)

-----------------------------------------------------------------------------
(* The inductive invariant.                                                 *)

Results == UNION {[D -> Outcome] : D \in SUBSET Proxy}
RoundRecord == [todo : SUBSET Proxy, found : Results, worker : Worker \cup {Nothing}]

UiRecord == [at : {"idle", "injecting", "falling", "added", "probing", "joining"},
             proxy : Proxy \cup {Nothing}]
EvaluatorRecord == [at : {"off", "top", "relaunched", "reinject", "begin", "probing", "done"},
                    todo : SUBSET Proxy]

RoundsTyped == probing \in [Prober -> RoundRecord]

\* The evaluator lives from the start of the pool to the end of its stop, and
\* only while it injects the members again it has members left to inject.
ThreadsTogether ==
  /\ evaluator.at = "off" <=> ~poolUp /\ poolUi.at # "joining"
  /\ poolUi.at = "joining" => ~poolUp
  /\ poolUi.at \in {"injecting", "falling", "added"} => poolUi.proxy \in Proxy
  /\ evaluator.at # "reinject" => evaluator.todo = {}

\* What the evaluator is about to inject again is still a member.
StillMembers == \A p \in evaluator.todo : members[p].state # "none"

OutboundsListed ==
  \A p \in outbounds :
    members[p].state # "none" \/ (poolUi.at = "added" /\ poolUi.proxy = p) \/ p \in strays

\* Outbounds and requests under way are those of a process that runs.
ProcessOwns == instance \/ (outbounds = {} /\ late = {})

Request == [op : {"add", "remove"}, proxy : Proxy, nr : 0 .. MaxLosses]

LateTyped == late \subseteq Request /\ strays \subseteq Proxy /\ losses \in 0 .. MaxLosses

\* A worker is held in the middle of a round; who has the mutex holds a worker.
HeldInRound ==
  /\ \A t \in Prober :
       probing[t].worker # Nothing =>
         probing[t].worker \in workers /\ probing[t].todo # {} /\ Probing(t)
  /\ \A t \in Prober : workersMutex = t => probing[t].worker # Nothing

BusyIsHeld == \A w \in workers \ free : \E t \in Prober : probing[t].worker = w

PoolInv ==
  /\ PoolTypeOK /\ RoundsTyped
  /\ ThreadsTogether /\ StillMembers /\ OutboundsListed /\ ProcessOwns
  /\ HeldInRound /\ BusyIsHeld

-----------------------------------------------------------------------------
(* Members.                                                                 *)

LEMMA MembersTyped == NoMember \in Member /\ NewMember \in Member
BY PoolAssumption DEF NoMember, NewMember, Member

\* mergeHealth touches neither the state of a member nor who is one.
LEMMA Merging ==
  ASSUME PoolTypeOK, NEW t \in Prober
  PROVE  /\ Merged(t) \in [Proxy -> Member]
         /\ \A p \in Proxy : Merged(t)[p].state = members[p].state
<1>1. \A p \in Proxy : members[p] \in Member
  BY DEF PoolTypeOK
<1>2. ASSUME NEW m \in Member
      PROVE  LET n == [m EXCEPT !.last = "alive", !.streak = 0]
             IN  n \in Member /\ n.state = m.state
  <2>1. 0 \in 0 .. PruneStreak
    BY PoolAssumption
  <2> QED
    BY <2>1 DEF Member
<1>3. ASSUME NEW m \in Member
      PROVE  LET n == [m EXCEPT !.last = "dead",
                                !.streak = IF @ < PruneStreak THEN @ + 1 ELSE @]
             IN  n \in Member /\ n.state = m.state
  <2>1. (IF m.streak < PruneStreak THEN m.streak + 1 ELSE m.streak) \in 0 .. PruneStreak
    BY PoolAssumption DEF Member
  <2> QED
    BY <2>1 DEF Member
<1> QED
  BY <1>1, <1>2, <1>3 DEF Merged

\* Pruning asks for removals and changes no membership.
LEMMA Pruning ==
  ASSUME NEW ms \in [Proxy -> Member]
  PROVE  /\ Prune(ms) \in [Proxy -> Member]
         /\ \A p \in Proxy : Prune(ms)[p].state = "none" <=> ms[p].state = "none"
<1>1. \A m \in Member : /\ [m EXCEPT !.state = "requested"] \in Member
                        /\ [m EXCEPT !.state = "requested"].state = "requested"
  BY DEF Member
<1> QED
  BY <1>1 DEF Prune

-----------------------------------------------------------------------------
(* Rounds of probes.                                                        *)

LEMMA EmptyRound == NoRound \in RoundRecord
<1>1. <<>> \in [{} -> Outcome]
  OBVIOUS
<1>2. <<>> \in Results
  BY <1>1 DEF Results
<1> QED
  BY <1>2 DEF NoRound, RoundRecord

\* A result is noted for the target, which is no longer to be probed.
LEMMA Noting ==
  ASSUME RoundsTyped, NEW t \in Prober, probing[t].todo # {},
         NEW outcome \in Outcome, Found(t, outcome)
  PROVE  /\ RoundsTyped'
         /\ probing'[t].worker = Nothing
         /\ \A u \in Prober \ {t} : probing'[u] = probing[u]
<1> DEFINE target == Target(t)
           D == DOMAIN probing[t].found \cup {target}
           r == [todo |-> probing[t].todo \ {target}, worker |-> Nothing,
                 found |-> [p \in D |-> IF p = target THEN outcome ELSE probing[t].found[p]]]
<1>1. probing[t] \in RoundRecord /\ target \in probing[t].todo
  BY DEF RoundsTyped, Target
<1>2. PICK E \in SUBSET Proxy : probing[t].found \in [E -> Outcome]
  BY <1>1 DEF RoundRecord, Results
<1>3. probing' = [probing EXCEPT ![t] = r]
  BY DEF Found
<1> HIDE DEF target
<1>4. target \in Proxy
  BY <1>1 DEF RoundRecord
<1>5. D \in SUBSET Proxy /\ r.found \in [D -> Outcome]
  BY <1>2, <1>4
<1>6. r.found \in Results
  BY <1>5 DEF Results
<1>7. r \in RoundRecord
  BY <1>1, <1>6 DEF RoundRecord
<1>8. r.worker = Nothing
  OBVIOUS
<1> HIDE DEF r
<1> QED
  BY <1>3, <1>7, <1>8 DEF RoundsTyped

\* A round starts with the active members and no worker.
LEMMA Beginning ==
  ASSUME RoundsTyped, NEW t \in Prober, BeginRound(t)
  PROVE  /\ RoundsTyped'
         /\ probing'[t].worker = Nothing
         /\ \A u \in Prober \ {t} : probing'[u] = probing[u]
<1> DEFINE r == [NoRound EXCEPT !.todo = In("active")]
<1>1. r \in RoundRecord /\ r.worker = Nothing
  BY EmptyRound DEF RoundRecord, NoRound, In
<1>2. probing' = [probing EXCEPT ![t] = r]
  BY DEF BeginRound
<1> HIDE DEF r
<1> QED
  BY <1>1, <1>2 DEF RoundsTyped

LEMMA Clearing ==
  ASSUME RoundsTyped, NEW t \in Prober, probing' = [probing EXCEPT ![t] = NoRound]
  PROVE  /\ RoundsTyped'
         /\ probing'[t].worker = Nothing
         /\ \A u \in Prober \ {t} : probing'[u] = probing[u]
<1>1. NoRound.worker = Nothing
  BY DEF NoRound
<1> QED
  BY <1>1, EmptyRound DEF RoundsTyped

\* What PoolTypeOK says of the rounds.
LEMMA RoundsSuffice ==
  ASSUME RoundsTyped
  PROVE  \A t \in Prober : /\ probing[t].todo \subseteq Proxy
                           /\ probing[t].worker \in Worker \cup {Nothing}
                           /\ DOMAIN probing[t].found \subseteq Proxy
BY DEF RoundsTyped, RoundRecord, Results

-----------------------------------------------------------------------------
(* The steps.                                                               *)

LEMMA PoolInitially == PoolInit => PoolInv
<1> SUFFICES ASSUME PoolInit PROVE PoolInv
  OBVIOUS
<1>1. RoundsTyped
  BY EmptyRound DEF PoolInit, RoundsTyped
<1>2. PoolTypeOK
  <2>1. members \in [Proxy -> Member]
    BY MembersTyped DEF PoolInit
  <2>2. poolUi \in UiRecord /\ evaluator \in EvaluatorRecord
    BY DEF PoolInit, UiRecord, EvaluatorRecord
  <2>3. crashes \in 0 .. MaxCrashes /\ verdict \in {NoOne, "never", "alive", "dead"}
    BY PoolAssumption DEF PoolInit
  <2>4. LateTyped
    BY PoolAssumption DEF PoolInit, LateTyped
  <2> QED
    BY <1>1, <2>1, <2>2, <2>3, <2>4, RoundsSuffice
       DEF PoolInit, PoolTypeOK, UiRecord, EvaluatorRecord, LateTyped, Request
<1> USE DEF PoolInit
<1>3. ThreadsTogether /\ StillMembers /\ OutboundsListed /\ ProcessOwns /\ BusyIsHeld
  BY DEF ThreadsTogether, StillMembers, OutboundsListed, ProcessOwns, BusyIsHeld
<1>4. HeldInRound
  BY DEF HeldInRound, NoRound, NoOne, Prober
<1> QED
  BY <1>1, <1>2, <1>3, <1>4 DEF PoolInv

\* A step of a round changes the round, its worker and the mutex, and nothing of the
\* members.
LEMMA RoundStep ==
  ASSUME PoolInv, NEW t \in Prober, Round(t)
  PROVE  PoolInv'
<1> USE DEF PoolInv
<1>1. UNCHANGED <<poolUp, instance, outbounds, members, poolUi, evaluator, workers,
                  verdict, crashes, late, strays, losses>>
  BY DEF Round, ProbeDirect, AcquireWorker, LockWorkers, WorkerAnswers, InterruptRound,
         lateVars
<1>2. ThreadsTogether' /\ StillMembers' /\ OutboundsListed' /\ ProcessOwns'
  BY <1>1 DEF ThreadsTogether, StillMembers, OutboundsListed, ProcessOwns
<1>3. \A u \in Prober : Probing(u)' <=> Probing(u)
  BY <1>1 DEF Probing
<1>4. ASSUME RoundsTyped', free' \subseteq workers, workersMutex' \in Prober \cup {NoOne}
      PROVE  PoolTypeOK'
  <2>1. (\A u \in Prober : /\ probing[u].todo \subseteq Proxy
                           /\ probing[u].worker \in Worker \cup {Nothing}
                           /\ DOMAIN probing[u].found \subseteq Proxy)'
    BY <1>4 DEF RoundsTyped, RoundRecord, Results
  <2> QED
    BY <1>1, <1>4, <2>1 DEF PoolTypeOK
<1>5. ASSUME AtTarget(t), NEW outcome \in Outcome, Found(t, outcome),
             UNCHANGED <<free, workersMutex>>
      PROVE  PoolInv'
  <2>1. /\ RoundsTyped' /\ probing'[t].worker = Nothing /\ probing[t].worker = Nothing
        /\ \A u \in Prober \ {t} : probing'[u] = probing[u]
    BY <1>5, Noting DEF AtTarget
  <2>2. HeldInRound'
    BY <1>1, <1>3, <1>5, <2>1 DEF HeldInRound
  <2>3. BusyIsHeld'
    BY <1>1, <1>5, <2>1 DEF BusyIsHeld
  <2>4. PoolTypeOK'
    BY <1>4, <1>5, <2>1 DEF PoolTypeOK
  <2> QED
    BY <1>2, <2>1, <2>2, <2>3, <2>4
<1>6. CASE ProbeDirect(t)
  BY <1>5, <1>6 DEF ProbeDirect, Outcome
<1>7. CASE AcquireWorker(t)
  <2>1. CASE free = {}
    BY <1>5, <1>7, <2>1 DEF AcquireWorker, Outcome
  <2>2. CASE free # {}
    <3>1. PICK w \in free : free' = free \ {w}
                            /\ probing' = [probing EXCEPT ![t].worker = w]
      BY <1>7, <2>2 DEF AcquireWorker
    <3>2. /\ probing[t].todo # {} /\ probing[t].worker = Nothing /\ Probing(t)
          /\ UNCHANGED workersMutex
      BY <1>7 DEF AcquireWorker, AtTarget
    <3>3. w \in workers /\ w \in Worker /\ w # Nothing
      BY PoolAssumption DEF PoolTypeOK
    <3>4. /\ probing[t] \in RoundRecord
          /\ probing' = [probing EXCEPT ![t] = [probing[t] EXCEPT !.worker = w]]
      BY <3>1 DEF RoundsTyped
    <3>5. /\ RoundsTyped' /\ probing'[t].worker = w /\ probing'[t].todo = probing[t].todo
          /\ \A u \in Prober \ {t} : probing'[u] = probing[u]
      BY <3>3, <3>4 DEF RoundsTyped, RoundRecord
    <3>6. HeldInRound'
      BY <1>1, <1>3, <3>2, <3>3, <3>5 DEF HeldInRound
    <3>7. BusyIsHeld'
      <4> SUFFICES ASSUME NEW v \in workers, v \notin free'
                   PROVE  \E u \in Prober : probing'[u].worker = v
        BY <1>1 DEF BusyIsHeld
      <4>1. CASE v = w
        BY <3>5, <4>1
      <4>2. CASE v # w
        <5>1. PICK u \in Prober : probing[u].worker = v
          BY <3>1, <4>2 DEF BusyIsHeld
        <5>2. u # t
          BY <3>2, <5>1, PoolAssumption DEF PoolTypeOK
        <5> QED
          BY <3>5, <5>1, <5>2
      <4> QED
        BY <4>1, <4>2
    <3>8. PoolTypeOK'
      BY <1>4, <3>1, <3>2, <3>5 DEF PoolTypeOK
    <3> QED
      BY <1>2, <3>5, <3>6, <3>7, <3>8
  <2> QED
    BY <2>1, <2>2
<1>8. CASE LockWorkers(t)
  <2>1. probing[t].worker # Nothing /\ workersMutex' = t /\ UNCHANGED <<probing, free>>
    BY <1>8 DEF LockWorkers
  <2>2. RoundsTyped' /\ HeldInRound' /\ BusyIsHeld'
    BY <1>1, <1>3, <2>1 DEF RoundsTyped, HeldInRound, BusyIsHeld
  <2>3. PoolTypeOK'
    BY <1>4, <2>1, <2>2 DEF PoolTypeOK
  <2> QED
    BY <1>2, <2>2, <2>3
<1>9. CASE WorkerAnswers(t)
  <2>1. PICK outcome \in Outcome : Found(t, outcome)
    BY <1>9 DEF WorkerAnswers
  <2>2. /\ workersMutex = t /\ workersMutex' = NoOne
        /\ free' = free \cup {probing[t].worker}
    BY <1>9 DEF WorkerAnswers
  <2>3. probing[t].worker # Nothing /\ probing[t].worker \in workers /\ probing[t].todo # {}
    BY <2>2 DEF HeldInRound
  <2>4. /\ RoundsTyped' /\ probing'[t].worker = Nothing
        /\ \A u \in Prober \ {t} : probing'[u] = probing[u]
    BY <2>1, <2>3, Noting
  <2>5. HeldInRound'
    BY <1>1, <1>3, <2>2, <2>4 DEF HeldInRound, Prober, NoOne
  <2>6. BusyIsHeld'
    <3> SUFFICES ASSUME NEW w \in workers, w \notin free'
                 PROVE  \E u \in Prober : probing'[u].worker = w
      BY <1>1 DEF BusyIsHeld
    <3>1. PICK u \in Prober : probing[u].worker = w
      BY <2>2 DEF BusyIsHeld
    <3> QED
      BY <2>2, <2>4, <3>1
  <2>7. PoolTypeOK'
    BY <1>4, <2>2, <2>3, <2>4 DEF PoolTypeOK
  <2> QED
    BY <1>2, <2>4, <2>5, <2>6, <2>7
<1>10. CASE InterruptRound(t)
  <2>1. /\ probing[t].worker = Nothing /\ UNCHANGED <<free, workersMutex>>
        /\ probing' = [probing EXCEPT ![t].todo = {}]
    BY <1>10 DEF InterruptRound, AtTarget
  <2>2. /\ probing[t] \in RoundRecord
        /\ probing' = [probing EXCEPT ![t] = [probing[t] EXCEPT !.todo = {}]]
    BY <2>1 DEF RoundsTyped
  <2>3. /\ RoundsTyped' /\ probing'[t].worker = Nothing
        /\ \A u \in Prober \ {t} : probing'[u] = probing[u]
    BY <2>1, <2>2 DEF RoundsTyped, RoundRecord
  <2>4. HeldInRound' /\ BusyIsHeld'
    BY <1>1, <1>3, <2>1, <2>3 DEF HeldInRound, BusyIsHeld
  <2>5. PoolTypeOK'
    BY <1>4, <2>1, <2>3 DEF PoolTypeOK
  <2> QED
    BY <1>2, <2>3, <2>4, <2>5
<1> QED
  BY <1>6, <1>7, <1>8, <1>9, <1>10 DEF Round

\* The other steps leave the rounds and the workers alone.
NoRounds == UNCHANGED <<probing, workers, free, workersMutex>>

LEMMA StepsWithoutRounds ==
  ASSUME PoolInv, NoRounds, \A t \in Prober : Probing(t) => Probing(t)'
  PROVE  RoundsTyped' /\ HeldInRound' /\ BusyIsHeld'
BY DEF PoolInv, NoRounds, RoundsTyped, HeldInRound, BusyIsHeld

LEMMA RoundsStayTyped ==
  ASSUME PoolTypeOK, NoRounds
  PROVE  /\ \A t \in Prober : /\ probing'[t].todo \subseteq Proxy
                              /\ probing'[t].worker \in Worker \cup {Nothing}
                              /\ DOMAIN probing'[t].found \subseteq Proxy
         /\ free' \subseteq workers' /\ workers' \subseteq Worker
         /\ workersMutex' \in Prober \cup {NoOne}
BY DEF PoolTypeOK, NoRounds

\* A request given up is one of the process that runs.
LEMMA GivingUp ==
  ASSUME PoolInv, NEW op \in {"add", "remove"}, NEW ps \in SUBSET Proxy, GivesUp(op, ps)
  PROVE  late' \subseteq Request /\ losses' \in 0 .. MaxLosses /\ instance
<1>1. /\ losses < MaxLosses /\ losses' = losses + 1 /\ losses \in 0 .. MaxLosses
      /\ late' = late \cup {[op |-> op, proxy |-> p, nr |-> losses] : p \in ps}
      /\ instance /\ late \subseteq Request
  BY DEF GivesUp, PoolInv, PoolTypeOK, Request
<1>2. losses' \in 0 .. MaxLosses
  BY <1>1, PoolAssumption
<1>3. {[op |-> op, proxy |-> p, nr |-> losses] : p \in ps} \subseteq Request
  BY <1>1 DEF Request
<1> QED
  BY <1>1, <1>2, <1>3

\* Nobody who is not in a round holds a worker.
LEMMA IdleHoldsNone ==
  ASSUME PoolInv, NEW t \in Prober, ~Probing(t) \/ probing[t].todo = {}
  PROVE  probing[t].worker = Nothing /\ workersMutex # t
BY DEF PoolInv, HeldInRound

\* The window's thread.
LEMMA UiStep ==
  ASSUME PoolInv,
         \/ StartPool \/ StopPool \/ Stopped
         \/ OutboundAdded \/ OutboundRefused \/ MemberRecorded
         \/ \E p \in Proxy : InjectMember(p) \/ RemoveMember(p)
  PROVE  PoolInv'
<1> USE DEF PoolInv
<1>1. ASSUME StartPool \/ Stopped
      PROVE  PoolInv'
  <2>1. \A t \in Prober : ~Probing(t)
    BY <1>1 DEF StartPool, Stopped, Probing, ThreadsTogether
  <2>2. \A t \in Prober : probing[t].worker = Nothing /\ workersMutex # t
    BY <2>1, IdleHoldsNone
  <2>3. /\ members' = [p \in Proxy |-> NoMember] /\ outbounds' = {}
        /\ workers' \subseteq Worker /\ free' = workers'
        /\ UNCHANGED <<probing, workersMutex, verdict, crashes>>
        /\ LateTyped' /\ ProcessOwns'
    <3>1. CASE StartPool
      BY <3>1 DEF StartPool, StartWorkers, lateVars, LateTyped, Request, PoolTypeOK, ProcessOwns
    <3>2. CASE Stopped
      BY <3>2 DEF Stopped, StopWorkers, ProcessGone, LateTyped, PoolTypeOK, ProcessOwns
    <3> QED
      BY <1>1, <3>1, <3>2
  <2>4. evaluator' \in [at : {"off", "top"}, todo : {{}}]
    BY <1>1 DEF StartPool, Stopped, PoolTypeOK, ThreadsTogether
  <2>5. RoundsTyped' /\ HeldInRound' /\ BusyIsHeld'
    BY <2>2, <2>3 DEF RoundsTyped, HeldInRound, BusyIsHeld
  <2>6. StillMembers' /\ OutboundsListed'
    BY <2>3, <2>4 DEF StillMembers, OutboundsListed
  <2>7. ThreadsTogether'
    BY <1>1, <2>4 DEF StartPool, Stopped, UiGoes, ThreadsTogether
  <2>8. PoolTypeOK'
    <3>1. members' \in [Proxy -> Member]
      BY <2>3, MembersTyped
    <3>2. evaluator' \in EvaluatorRecord
      BY <2>4 DEF EvaluatorRecord
    <3>3. poolUp' \in BOOLEAN /\ instance' \in BOOLEAN /\ poolUi' \in UiRecord
      <4>1. CASE StartPool
        BY <4>1 DEF StartPool, PoolTypeOK, UiRecord
      <4>2. CASE Stopped
        BY <4>2 DEF Stopped, ProcessGone, UiGoes, PoolTypeOK, UiRecord
      <4> QED
        BY <1>1, <4>1, <4>2
    <3> QED
      BY <2>3, <3>1, <3>2, <3>3
         DEF PoolTypeOK, UiRecord, EvaluatorRecord, LateTyped, Request
  <2> QED
    BY <2>3, <2>5, <2>6, <2>7, <2>8
<1>2. ASSUME \/ StopPool \/ OutboundAdded \/ OutboundRefused \/ MemberRecorded
             \/ \E p \in Proxy : InjectMember(p) \/ RemoveMember(p)
      PROVE  PoolInv'
  <2>1. /\ NoRounds /\ UNCHANGED <<instance, evaluator, verdict, crashes, late, strays, losses>>
        /\ outbounds' = outbounds \/ instance
    BY <1>2 DEF StopPool, OutboundAdded, OutboundRefused, MemberRecorded, InjectMember,
                RemoveMember, NoRounds, lateVars, Accepts
  <2>2. poolUi.at # "probing"
    BY <1>2 DEF StopPool, OutboundAdded, OutboundRefused, MemberRecorded, InjectMember,
                RemoveMember
  <2>3. RoundsTyped' /\ HeldInRound' /\ BusyIsHeld'
    BY <2>1, <2>2, StepsWithoutRounds DEF Probing
  <2>4. members' \in [Proxy -> Member]
        /\ \A p \in Proxy : members[p].state # "none" => members'[p].state # "none"
    <3>1. CASE UNCHANGED members
      BY <3>1 DEF PoolTypeOK
    <3>2. CASE MemberRecorded
      BY <3>2, MembersTyped
         DEF MemberRecorded, PoolTypeOK, ThreadsTogether, NewMember, NoMember
    <3>3. ASSUME NEW p \in Proxy, RemoveMember(p)
          PROVE  members' \in [Proxy -> Member]
                 /\ \A q \in Proxy : members[q].state # "none" => members'[q].state # "none"
      <4>1. members[p] \in Member
            /\ members' = [members EXCEPT ![p] = [members[p] EXCEPT !.state = "requested"]]
        BY <3>3 DEF RemoveMember, PoolTypeOK
      <4>2. LET m == [members[p] EXCEPT !.state = "requested"]
            IN  m \in Member /\ m.state = "requested"
        BY <4>1 DEF Member
      <4> QED
        BY <4>1, <4>2 DEF PoolTypeOK
    <3> QED
      BY <1>2, <3>1, <3>2, <3>3
         DEF StopPool, OutboundAdded, OutboundRefused, InjectMember
  <2>5. poolUp' \in BOOLEAN /\ outbounds' \subseteq Proxy /\ poolUi' \in UiRecord
    <3>1. CASE StopPool \/ OutboundRefused \/ MemberRecorded
      <4>1. \E at \in {"idle", "joining"} : poolUi' = [at |-> at, proxy |-> Nothing]
        BY <3>1 DEF StopPool, OutboundRefused, MemberRecorded, UiGoes
      <4>2. poolUi' \in UiRecord
        BY <4>1 DEF UiRecord
      <4> QED
        BY <3>1, <4>2 DEF StopPool, OutboundRefused, MemberRecorded, PoolTypeOK
    <3>2. CASE OutboundAdded
      <4>1. poolUi \in UiRecord /\ poolUi.proxy \in Proxy
        BY <3>2 DEF OutboundAdded, PoolTypeOK, UiRecord, ThreadsTogether
      <4> QED
        BY <3>2, <4>1 DEF OutboundAdded, PoolTypeOK, UiRecord
    <3>3. CASE \E p \in Proxy : InjectMember(p) \/ RemoveMember(p)
      BY <3>3 DEF InjectMember, RemoveMember, PoolTypeOK, UiRecord
    <3> QED
      BY <1>2, <3>1, <3>2, <3>3
  <2>6. PoolTypeOK' /\ ProcessOwns'
    <3>1. ProcessOwns'
      BY <2>1 DEF ProcessOwns
    <3> QED
      BY <2>1, <2>4, <2>5, <3>1, RoundsStayTyped DEF PoolTypeOK, UiRecord
  <2>7. ThreadsTogether'
    BY <1>2, <2>1 DEF StopPool, OutboundAdded, OutboundRefused, MemberRecorded, InjectMember,
                      RemoveMember, UiGoes, PoolTypeOK, ThreadsTogether
  <2>8. StillMembers'
    BY <2>1, <2>4 DEF StillMembers, PoolTypeOK
  <2>9. OutboundsListed'
    <3>1. CASE OutboundAdded
      BY <3>1, <2>1 DEF OutboundAdded, lateVars, PoolTypeOK, OutboundsListed
    <3>2. CASE MemberRecorded
      BY <3>2, <2>1, <2>4 DEF MemberRecorded, PoolTypeOK, ThreadsTogether, OutboundsListed, NewMember,
                        NoMember
    <3>3. CASE poolUi.at # "added" /\ UNCHANGED outbounds
      BY <3>3, <2>1, <2>4 DEF PoolTypeOK, OutboundsListed
    <3> QED
      BY <1>2, <3>1, <3>2, <3>3
         DEF StopPool, OutboundRefused, InjectMember, RemoveMember
  <2> QED
    BY <2>3, <2>6, <2>7, <2>8, <2>9
<1> QED
  BY <1>1, <1>2

\* Either thread starts a round, or ends one.
LEMMA RoundEdge ==
  ASSUME PoolInv, ProbeNow \/ ProbedNow \/ BeginProbe
  PROVE  PoolInv'
<1> USE DEF PoolInv
<1>1. PICK t \in Prober :
        /\ ~Probing(t) \/ probing[t].todo = {}
        /\ BeginRound(t) \/ probing' = [probing EXCEPT ![t] = NoRound]
        /\ \A u \in Prober \ {t} : Probing(u)' <=> Probing(u)
        /\ UNCHANGED <<workers, free, workersMutex>>
  <2>1. CASE ProbeNow
    BY <2>1 DEF ProbeNow, UiGoes, Probing, Prober
  <2>2. CASE ProbedNow
    BY <2>2 DEF ProbedNow, RoundOver, UiGoes, Probing, Prober
  <2>3. CASE BeginProbe
    BY <2>3 DEF BeginProbe, EvaluatorGoes, Probing, Prober
  <2> QED
    BY <2>1, <2>2, <2>3
<1>2. /\ RoundsTyped' /\ probing'[t].worker = Nothing
      /\ \A u \in Prober \ {t} : probing'[u] = probing[u]
  BY <1>1, Beginning, Clearing
<1>3. probing[t].worker = Nothing /\ workersMutex # t
  BY <1>1, IdleHoldsNone
<1>4. HeldInRound' /\ BusyIsHeld'
  BY <1>1, <1>2, <1>3 DEF HeldInRound, BusyIsHeld
<1>5. /\ members' \in [Proxy -> Member]
      /\ \A p \in Proxy : members'[p].state = members[p].state
  BY Merging DEF ProbeNow, ProbedNow, BeginProbe, PoolTypeOK, Prober
<1>6. /\ UNCHANGED <<poolUp, instance, outbounds, verdict, crashes, late, strays, losses>>
      /\ poolUi' \in UiRecord /\ evaluator' \in EvaluatorRecord
  <2>1. poolUi' = poolUi \/ \E at \in {"idle", "probing"} :
                               poolUi' = [at |-> at, proxy |-> Nothing]
    BY DEF ProbeNow, ProbedNow, BeginProbe, UiGoes
  <2>2. evaluator' = evaluator \/ evaluator' = [at |-> "probing", todo |-> {}]
    BY DEF ProbeNow, ProbedNow, BeginProbe, EvaluatorGoes
  <2>3. poolUi' \in UiRecord
    BY <2>1 DEF PoolTypeOK, UiRecord
  <2>4. evaluator' \in EvaluatorRecord
    BY <2>2 DEF PoolTypeOK, EvaluatorRecord
  <2> QED
    BY <2>3, <2>4 DEF ProbeNow, ProbedNow, BeginProbe, lateVars
<1>7. PoolTypeOK'
  <2>1. (\A u \in Prober : /\ probing[u].todo \subseteq Proxy
                           /\ probing[u].worker \in Worker \cup {Nothing}
                           /\ DOMAIN probing[u].found \subseteq Proxy)'
    BY <1>2 DEF RoundsTyped, RoundRecord, Results
  <2> QED
    BY <1>1, <1>5, <1>6, <2>1 DEF PoolTypeOK, UiRecord, EvaluatorRecord
<1>8. ThreadsTogether'
  BY DEF ProbeNow, ProbedNow, BeginProbe, UiGoes, EvaluatorGoes, RoundOver, Probing,
         ThreadsTogether
<1>9. StillMembers'
  BY <1>5 DEF ProbeNow, ProbedNow, BeginProbe, EvaluatorGoes, StillMembers, PoolTypeOK
<1>10. OutboundsListed' /\ ProcessOwns'
  BY <1>5, <1>6 DEF ProbeNow, ProbedNow, BeginProbe, UiGoes, RoundOver, Probing, PoolTypeOK,
                    OutboundsListed, ProcessOwns
<1> QED
  BY <1>2, <1>4, <1>7, <1>8, <1>9, <1>10

\* The evaluator outside its rounds, and a death of the instance.
LEMMA EvaluatorStep ==
  ASSUME PoolInv,
         \/ LoopEnds \/ NoRelaunch \/ Relaunch \/ CopyMembers
         \/ \E p \in Proxy : Reinject(p)
         \/ InstanceDies
  PROVE  PoolInv'
<1> USE DEF PoolInv
<1>1. NoRounds /\ UNCHANGED <<poolUp, members, poolUi, verdict>>
  BY DEF LoopEnds, NoRelaunch, Relaunch, CopyMembers, Reinject, InstanceDies, NoRounds
<1>2. Probing("evaluator") => InstanceDies
  BY DEF LoopEnds, NoRelaunch, Relaunch, CopyMembers, Reinject, Probing
<1>3. RoundsTyped' /\ HeldInRound' /\ BusyIsHeld'
  BY <1>1, <1>2, StepsWithoutRounds DEF Probing, Prober, InstanceDies
<1>4. /\ evaluator' \in EvaluatorRecord
      /\ \A p \in evaluator'.todo : members[p].state # "none"
      /\ evaluator'.at # "reinject" => evaluator'.todo = {}
      /\ evaluator'.at = "off" <=> evaluator.at = "off"
  <2>1. CASE LoopEnds \/ NoRelaunch \/ Relaunch
    <3>1. \E at \in {"done", "begin", "relaunched"} : evaluator' = [at |-> at, todo |-> {}]
      BY <2>1 DEF LoopEnds, NoRelaunch, Relaunch, EvaluatorGoes
    <3>2. evaluator.at # "off"
      BY <2>1 DEF LoopEnds, NoRelaunch, Relaunch
    <3> QED
      BY <3>1, <3>2 DEF EvaluatorRecord
  <2>2. CASE CopyMembers
    BY <2>2 DEF CopyMembers, EvaluatorGoes, In, EvaluatorRecord
  <2>3. ASSUME NEW p \in Proxy, Reinject(p)
        PROVE  /\ evaluator' \in EvaluatorRecord
               /\ evaluator'.todo \subseteq evaluator.todo
               /\ evaluator'.at = "reinject" /\ evaluator.at = "reinject"
    BY <2>3 DEF Reinject, EvaluatorGoes, EvaluatorRecord, PoolTypeOK
  <2>4. CASE InstanceDies
    BY <2>4 DEF InstanceDies, StillMembers, ThreadsTogether, EvaluatorRecord, PoolTypeOK
  <2> QED
    BY <2>1, <2>2, <2>3, <2>4 DEF StillMembers
<1>5. /\ instance' \in BOOLEAN /\ crashes' \in 0 .. MaxCrashes
      /\ \A p \in outbounds' : (p \in outbounds /\ UNCHANGED strays) \/ p \in evaluator.todo
      /\ LateTyped' /\ ProcessOwns'
  <2>1. CASE InstanceDies
    <3>1. crashes \in 0 .. MaxCrashes /\ crashes < MaxCrashes /\ crashes' = crashes + 1
      BY <2>1 DEF InstanceDies, PoolTypeOK
    <3>2. crashes' \in 0 .. MaxCrashes
      BY <3>1, PoolAssumption
    <3> QED
      BY <2>1, <3>2 DEF InstanceDies, ProcessGone, LateTyped, ProcessOwns, PoolTypeOK
  <2>2. CASE LoopEnds \/ NoRelaunch \/ Relaunch \/ CopyMembers
    BY <2>2 DEF LoopEnds, NoRelaunch, Relaunch, CopyMembers, PoolTypeOK, lateVars, LateTyped,
                Request, ProcessOwns
  <2>3. CASE \E p \in Proxy : Reinject(p)
    BY <2>3 DEF Reinject, Accepts, PoolTypeOK, lateVars, LateTyped, Request, ProcessOwns
  <2> QED
    BY <2>1, <2>2, <2>3
<1>6. outbounds' \subseteq Proxy
  BY <1>5 DEF PoolTypeOK, EvaluatorRecord
<1>7. PoolTypeOK'
  BY <1>1, <1>4, <1>5, <1>6, RoundsStayTyped DEF PoolTypeOK, EvaluatorRecord, LateTyped, Request
<1>8. ThreadsTogether' /\ StillMembers'
  BY <1>1, <1>4 DEF ThreadsTogether, StillMembers
<1>9. OutboundsListed'
  BY <1>1, <1>5 DEF OutboundsListed, StillMembers
<1> QED
  BY <1>3, <1>5, <1>7, <1>8, <1>9

\* A request given up, by either thread, and one carried out after that.
LEMMA LateStep ==
  ASSUME PoolInv,
         \/ AddUnanswered
         \/ \E p \in Proxy : ReinjectUnanswered(p)
         \/ \E r \in late : CarriedOut(r)
  PROVE  PoolInv'
<1> USE DEF PoolInv
<1>1. /\ NoRounds
      /\ UNCHANGED <<poolUp, instance, members, verdict, crashes>>
  BY DEF AddUnanswered, ReinjectUnanswered, CarriedOut, NoRounds
<1>2. /\ Probing("ui")' <=> Probing("ui")
      /\ Probing("evaluator")' <=> Probing("evaluator")
  <2>1. CASE AddUnanswered
    BY <2>1 DEF AddUnanswered, UiGoes, Probing, PoolTypeOK
  <2>2. CASE \E p \in Proxy : ReinjectUnanswered(p)
    BY <2>2 DEF ReinjectUnanswered, EvaluatorGoes, Probing
  <2>3. CASE \E r \in late : CarriedOut(r)
    BY <2>3 DEF CarriedOut, Probing
  <2> QED
    BY <2>1, <2>2, <2>3
<1>3. RoundsTyped' /\ HeldInRound' /\ BusyIsHeld'
  BY <1>1, <1>2, StepsWithoutRounds DEF Prober
<1>4. /\ UNCHANGED evaluator \/ \E p \in Proxy : /\ evaluator.at = "reinject"
                                             /\ EvaluatorGoes("reinject", evaluator.todo \ {p})
      /\ \/ UNCHANGED poolUi
         \/ /\ poolUi.at \in {"injecting", "falling"}
            /\ UiGoes("idle") \/ poolUi' = [poolUi EXCEPT !.at = "falling"]
  BY DEF AddUnanswered, ReinjectUnanswered, CarriedOut
<1>5. /\ evaluator' \in EvaluatorRecord
      /\ evaluator'.todo \subseteq evaluator.todo
      /\ evaluator'.at = evaluator.at
  BY <1>4 DEF EvaluatorGoes, PoolTypeOK, EvaluatorRecord
<1>6. poolUi' \in UiRecord
  BY <1>4 DEF UiGoes, PoolTypeOK, UiRecord
<1>7. /\ LateTyped' /\ ProcessOwns' /\ outbounds' \subseteq Proxy
      /\ \A p \in outbounds' : (p \in outbounds /\ (p \in strays => p \in strays')) \/ p \in strays'
  <2>1. CASE AddUnanswered
    <3>1. {poolUi.proxy} \in SUBSET Proxy
      BY <2>1 DEF AddUnanswered, ThreadsTogether
    <3>2. late' \subseteq Request /\ losses' \in 0 .. MaxLosses /\ instance
      BY <2>1, <3>1, GivingUp DEF AddUnanswered
    <3> QED
      BY <2>1, <3>2, <1>1 DEF AddUnanswered, LateTyped, ProcessOwns, PoolTypeOK
  <2>2. CASE \E p \in Proxy : ReinjectUnanswered(p)
    <3>1. PICK p \in Proxy : ReinjectUnanswered(p)
      BY <2>2
    <3>2. late' \subseteq Request /\ losses' \in 0 .. MaxLosses /\ instance
      BY <3>1, GivingUp DEF ReinjectUnanswered
    <3> QED
      BY <3>1, <3>2, <1>1 DEF ReinjectUnanswered, LateTyped, ProcessOwns, PoolTypeOK
  <2>3. CASE \E r \in late : CarriedOut(r)
    <3>1. PICK r \in late : CarriedOut(r)
      BY <2>3
    <3>2. /\ r.op \in {"add", "remove"} /\ r.proxy \in Proxy
          /\ late \subseteq Request /\ late' = late \ {r} /\ UNCHANGED losses
      BY <3>1 DEF CarriedOut, PoolTypeOK, Request
    <3>3. instance
      BY <3>1 DEF ProcessOwns
    <3> QED
      BY <3>1, <3>2, <3>3, <1>1 DEF CarriedOut, LateTyped, ProcessOwns, PoolTypeOK
  <2> QED
    BY <2>1, <2>2, <2>3
<1>8. PoolTypeOK'
  BY <1>1, <1>5, <1>6, <1>7, RoundsStayTyped
     DEF PoolTypeOK, UiRecord, EvaluatorRecord, LateTyped, Request
<1>9. ThreadsTogether' /\ StillMembers'
  BY <1>1, <1>4, <1>5 DEF UiGoes, ThreadsTogether, StillMembers, PoolTypeOK
<1>10. OutboundsListed'
  BY <1>1, <1>4, <1>7 DEF OutboundsListed
<1> QED
  BY <1>3, <1>7, <1>8, <1>9, <1>10

\* The end of an evaluation: what is no longer a member has no outbound either.
LEMMA EvaluationStep ==
  ASSUME PoolInv, Evaluate
  PROVE  PoolInv'
<1> USE DEF PoolInv
<1>1. PICK ms \in {Merged("evaluator"), Prune(Merged("evaluator"))} :
        LET asked == {p \in Proxy : ms[p].state = "requested"}
        IN  \E gone \in SUBSET asked : Drain(ms, gone) /\ Unanswered(asked \ gone)
  BY DEF Evaluate, Evaluated
<1>2. PICK gone \in SUBSET Proxy : /\ Drain(ms, gone)
                                  /\ \E failed \in SUBSET Proxy : Unanswered(failed)
  BY <1>1
<1>3. /\ RoundOver("evaluator")
      /\ probing' = [probing EXCEPT !["evaluator"] = NoRound]
      /\ evaluator' = [at |-> "top", todo |-> {}]
      /\ UNCHANGED <<poolUp, instance, poolUi, workers, free, workersMutex, crashes>>
  BY DEF Evaluate, Evaluated, EvaluatorGoes
<1>4. /\ ms \in [Proxy -> Member]
      /\ \A p \in Proxy : ms[p].state = "none" <=> members[p].state = "none"
  <2>1. /\ Merged("evaluator") \in [Proxy -> Member]
        /\ \A p \in Proxy : Merged("evaluator")[p].state = members[p].state
    BY Merging DEF Prober
  <2> QED
    BY <1>1, <2>1, Pruning
<1>5. /\ members' \in [Proxy -> Member]
      /\ \A p \in Proxy \ gone : members'[p] = ms[p]
      /\ outbounds' = outbounds \ gone /\ strays' = strays \ gone
  BY <1>2, <1>4, MembersTyped DEF Drain
<1>6. verdict' \in {NoOne, "never", "alive", "dead"}
  <2>1. verdict' = verdict \/ \E p \in Proxy : verdict' = ms[p].last
    BY <1>2 DEF Drain
  <2>2. \A p \in Proxy : ms[p].last \in {"never", "alive", "dead"}
    BY <1>4 DEF Member
  <2> QED
    BY <2>1, <2>2 DEF PoolTypeOK
<1>7. /\ RoundsTyped' /\ probing'["evaluator"].worker = Nothing
      /\ \A u \in Prober \ {"evaluator"} : probing'[u] = probing[u]
  BY <1>3, Clearing DEF Prober
<1>8. /\ probing["evaluator"].worker = Nothing /\ workersMutex # "evaluator"
      /\ evaluator.at = "probing"
  BY <1>3, IdleHoldsNone DEF RoundOver, Probing, Prober
<1>9. HeldInRound' /\ BusyIsHeld'
  BY <1>3, <1>7, <1>8 DEF HeldInRound, BusyIsHeld, Prober, Probing
<1>13. LateTyped' /\ ProcessOwns'
  <2>1. PICK failed \in SUBSET Proxy : Unanswered(failed)
    BY <1>2
  <2>2. /\ late' \subseteq Request /\ losses' \in 0 .. MaxLosses
        /\ UNCHANGED late \/ instance
    <3>1. PICK ps \in SUBSET Proxy : UNCHANGED <<late, losses>> \/ GivesUp("remove", ps)
      BY <2>1 DEF Unanswered
    <3>2. CASE UNCHANGED <<late, losses>>
      BY <3>2 DEF PoolTypeOK, Request
    <3>3. CASE GivesUp("remove", ps)
      BY <3>3, GivingUp
    <3> QED
      BY <3>1, <3>2, <3>3
  <2> QED
    BY <1>3, <1>5, <2>2 DEF LateTyped, ProcessOwns, PoolTypeOK
<1>10. PoolTypeOK'
  <2>1. (\A u \in Prober : /\ probing[u].todo \subseteq Proxy
                           /\ probing[u].worker \in Worker \cup {Nothing}
                           /\ DOMAIN probing[u].found \subseteq Proxy)'
    BY <1>7 DEF RoundsTyped, RoundRecord, Results
  <2>2. evaluator' \in EvaluatorRecord
    BY <1>3 DEF EvaluatorRecord
  <2> QED
    BY <1>3, <1>5, <1>6, <1>13, <2>1, <2>2 DEF PoolTypeOK, EvaluatorRecord, LateTyped, Request
<1>11. ThreadsTogether' /\ StillMembers'
  BY <1>3, <1>8 DEF ThreadsTogether, StillMembers
<1>12. OutboundsListed'
  BY <1>3, <1>4, <1>5 DEF OutboundsListed, PoolTypeOK
<1> QED
  BY <1>7, <1>9, <1>10, <1>11, <1>12, <1>13

LEMMA PoolInvStep == PoolInv /\ [PoolNext]_poolVars => PoolInv'
<1> SUFFICES ASSUME PoolInv, [PoolNext]_poolVars PROVE PoolInv'
  OBVIOUS
<1>1. CASE \/ StartPool \/ StopPool \/ Stopped
           \/ OutboundAdded \/ OutboundRefused \/ MemberRecorded
           \/ \E p \in Proxy : InjectMember(p) \/ RemoveMember(p)
  BY <1>1, UiStep
<1>2. CASE Round("ui") \/ Round("evaluator")
  BY <1>2, RoundStep DEF Prober
<1>3. CASE ProbeNow \/ ProbedNow \/ BeginProbe
  BY <1>3, RoundEdge
<1>4. CASE \/ LoopEnds \/ NoRelaunch \/ Relaunch \/ CopyMembers
           \/ \E p \in Proxy : Reinject(p)
           \/ InstanceDies
  BY <1>4, EvaluatorStep
<1>5. CASE Evaluate
  BY <1>5, EvaluationStep
<1>6. CASE \/ AddUnanswered
           \/ \E p \in Proxy : ReinjectUnanswered(p)
           \/ \E r \in late : CarriedOut(r)
  BY <1>6, LateStep
<1>7. CASE UNCHANGED poolVars
  BY <1>7 DEF poolVars, lateVars, PoolInv, PoolTypeOK, RoundsTyped, ThreadsTogether,
              StillMembers, OutboundsListed, ProcessOwns, HeldInRound, BusyIsHeld, Probing
<1> QED
  BY <1>1, <1>2, <1>3, <1>4, <1>5, <1>6, <1>7 DEF PoolNext, PoolUiProceeds, EvaluatorProceeds

-----------------------------------------------------------------------------
(* The theorems.                                                            *)

LEMMA PoolInvAlways == PoolSpec => []PoolInv
BY PoolInitially, PoolInvStep, PTL DEF PoolSpec

\* The members' records, the rounds of probes and the probe workers keep their types:
\* only workers that were started are handed out, and only once.
THEOREM PoolTypeCorrect == PoolSpec => []PoolTypeOK
<1>1. PoolInv => PoolTypeOK
  BY DEF PoolInv
<1> QED
  BY <1>1, PoolInvAlways, PTL

\* However injections of the window, relaunches, evaluations and probes of both threads
\* interleave with deaths of the instance and with requests given up and carried out
\* later, an outbound of StandaloneProxyPool without a member is there by such a request
\* alone, and no worker of ProxyProbePool stays busy without a round that holds it.
THEOREM NothingLeaksAlways == PoolSpec => []NothingLeaks
<1>1. PoolInv => NothingLeaks
  BY DEF PoolInv, OutboundsListed, ProcessOwns, BusyIsHeld, NothingLeaks
<1> QED
  BY <1>1, PoolInvAlways, PTL

(*************************** ControlCall ***************************)

-----------------------------------------------------------------------------
(* A block of at most three fields, decoded and encoded field by field.     *)

Read0 == [ok |-> TRUE, headers |-> <<>>, table |-> <<>>]
Read1(block) == DecodeField(Read0, block[1])
Read2(block) == DecodeField(Read1(block), block[2])
Read3(block) == DecodeField(Read2(block), block[3])

DecodeNext(k, d, f) == DecodeField(d, f)
EncodeNext(k, d, h) == ServerField(d, h)
Whatever(k, d) == TRUE

Decoding == INSTANCE FoldTheory WITH op <- DecodeNext, Good <- Whatever
Encoding == INSTANCE FoldTheory WITH op <- EncodeNext, Good <- Whatever

\* A block of fields is decoded from the first to the last.
LEMMA DecodesInTurn ==
  ASSUME NEW block, NEW n \in 0 .. 3, DOMAIN block = 1 .. n
  PROVE  /\ n = 0 => decodeHpack(block) = Read0
         /\ n = 1 => decodeHpack(block) = Read1(block)
         /\ n = 2 => decodeHpack(block) = Read2(block)
         /\ n = 3 => decodeHpack(block) = Read3(block)
<1>1. n \in Nat  OBVIOUS
<1>2. PICK acc : Decoding!InTurn(0, acc, Read0, block, n, Decoding!Result(0, Read0, block))
  BY <1>1, Decoding!FoldsInTurn
<1>3. decodeHpack(block) = Decoding!Result(0, Read0, block)
  BY Zenon DEF decodeHpack, FoldLeft, MapThenFoldSet, Max, Decoding!Result,
               Decoding!MapThenFoldSet, Decoding!Greatest, Read0, DecodeNext
<1>4. /\ decodeHpack(block) = acc[n]
      /\ acc[0] = Read0 /\ \A i \in 1 .. n : acc[i] = DecodeField(acc[i - 1], block[i])
  BY <1>2, <1>3, Zenon DEF Decoding!InTurn, DecodeNext
<1>5. n \in {1, 2, 3} => acc[1] = Read1(block)  BY <1>4 DEF Read1
<1>6. n \in {2, 3} => acc[2] = Read2(block)  BY <1>4, <1>5 DEF Read2
<1>7. n = 3 => acc[3] = Read3(block)  BY <1>4, <1>6 DEF Read3
<1> QED  BY <1>4, <1>5, <1>6, <1>7

Write0(table) == [table |-> table, block |-> <<>>]
Write1(table, headers) == ServerField(Write0(table), headers[1])
Write2(table, headers) == ServerField(Write1(table, headers), headers[2])
Write3(table, headers) == ServerField(Write2(table, headers), headers[3])

\* A block of headers is written from the first to the last.
LEMMA WritesInTurn ==
  ASSUME NEW table, NEW headers, NEW n \in 0 .. 3, DOMAIN headers = 1 .. n
  PROVE  /\ n = 0 => ServerBlock(table, headers) = Write0(table)
         /\ n = 1 => ServerBlock(table, headers) = Write1(table, headers)
         /\ n = 2 => ServerBlock(table, headers) = Write2(table, headers)
         /\ n = 3 => ServerBlock(table, headers) = Write3(table, headers)
<1>1. n \in Nat  OBVIOUS
<1>2. PICK acc : Encoding!InTurn(0, acc, Write0(table), headers, n,
                                 Encoding!Result(0, Write0(table), headers))
  BY <1>1, Encoding!FoldsInTurn
<1>3. ServerBlock(table, headers) = Encoding!Result(0, Write0(table), headers)
  BY Zenon DEF ServerBlock, FoldLeft, MapThenFoldSet, Max, Encoding!Result,
               Encoding!MapThenFoldSet, Encoding!Greatest, Write0, EncodeNext
<1>4. /\ ServerBlock(table, headers) = acc[n]
      /\ acc[0] = Write0(table)
      /\ \A i \in 1 .. n : acc[i] = ServerField(acc[i - 1], headers[i])
  BY <1>2, <1>3, Zenon DEF Encoding!InTurn, EncodeNext
<1>5. n \in {1, 2, 3} => acc[1] = Write1(table, headers)  BY <1>4 DEF Write1
<1>6. n \in {2, 3} => acc[2] = Write2(table, headers)  BY <1>4, <1>5 DEF Write2
<1>7. n = 3 => acc[3] = Write3(table, headers)  BY <1>4, <1>6 DEF Write3
<1> QED  BY <1>4, <1>5, <1>6, <1>7

-----------------------------------------------------------------------------
(* The frames of a reply. *)

SettingsFrame == Frame("SETTINGS", <<>>, FALSE)
HeadersFrame ==
  Frame("HEADERS", <<Field("indexed", 8, NoText, NoText),
                     Field("incremental", 31, "content-type", "application/grpc")>>, FALSE)
DataFrame == Frame("DATA", <<>>, FALSE)
DoneFrame == Frame("HEADERS", <<Field("incremental", 0, "grpc-status", "0")>>, TRUE)
RefusedFrame ==
  Frame("HEADERS", <<Field("indexed", 8, NoText, NoText),
                     Field("incremental", 31, "content-type", "application/grpc"),
                     Field("incremental", 0, "grpc-status", "2")>>, TRUE)

ReplyFrame == {SettingsFrame, HeadersFrame, DataFrame, DoneFrame, RefusedFrame}

\* What the static table holds.
LEMMA StaticEntries ==
  /\ DOMAIN Static = {1, 2, 3, 4, 6, 7, 8, 31}
  /\ Static[1] = <<":authority", NoText>> /\ Static[2] = <<":method", "GET">>
  /\ Static[3] = <<":method", "POST">> /\ Static[4] = <<":path", "/">>
  /\ Static[6] = <<":scheme", "http">> /\ Static[7] = <<":scheme", "https">>
  /\ Static[8] = <<":status", "200">> /\ Static[31] = <<"content-type", NoText>>
<1>1. DOMAIN Static = {1, 2, 3, 4, 6, 7, 8, 31}  BY DEF Static
<1>2. Static[1] = <<":authority", NoText>>  BY DEF Static
<1>3. Static[2] = <<":method", "GET">>  BY DEF Static
<1>4. Static[3] = <<":method", "POST">>  BY DEF Static
<1>5. Static[4] = <<":path", "/">>  BY DEF Static
<1>6. Static[6] = <<":scheme", "http">>  BY DEF Static
<1>7. Static[7] = <<":scheme", "https">>  BY DEF Static
<1>8. Static[8] = <<":status", "200">>  BY DEF Static
<1>9. Static[31] = <<"content-type", NoText>>  BY DEF Static
<1> QED  BY <1>1, <1>2, <1>3, <1>4, <1>5, <1>6, <1>7, <1>8, <1>9

Status200 == <<":status", "200">>
Grpc == <<"content-type", "application/grpc">>

\* A sequence with one more element at its end.
LEMMA AppendsOne ==
  ASSUME NEW a, NEW b, NEW c
  PROVE  /\ Append(<<>>, a) = <<a>>
         /\ Append(<<a>>, b) = <<a, b>>
         /\ Append(<<a, b>>, c) = <<a, b, c>>
<1> DEFINE S == {a, b, c}
<1>1. Append(<<>>, a) = <<a>>  OBVIOUS
<1>2. Append(<<a>>, b) = <<a, b>>
  <2>1. <<a>> \in Seq(S) /\ <<a, b>> \in Seq(S) /\ Append(<<a>>, b) \in Seq(S)  OBVIOUS
  <2>2. Len(Append(<<a>>, b)) = 2 /\ Len(<<a, b>>) = 2  BY <2>1
  <2>3. \A i \in 1 .. 2 : Append(<<a>>, b)[i] = <<a, b>>[i]  BY <2>1
  <2> QED  BY <2>1, <2>2, <2>3, SeqEqual
<1>3. Append(<<a, b>>, c) = <<a, b, c>>
  <2>1. <<a, b>> \in Seq(S) /\ <<a, b, c>> \in Seq(S) /\ Append(<<a, b>>, c) \in Seq(S)
    OBVIOUS
  <2>2. Len(Append(<<a, b>>, c)) = 3 /\ Len(<<a, b, c>>) = 3  BY <2>1
  <2>3. \A i \in 1 .. 3 : Append(<<a, b>>, c)[i] = <<a, b, c>>[i]  BY <2>1
  <2> QED  BY <2>1, <2>2, <2>3, SeqEqual
<1> QED  BY <1>1, <1>2, <1>3

\* A field the static table holds as a whole.
LEMMA WritesWhole ==
  ASSUME NEW d
  PROVE  ServerField(d, Status200) =
           [d EXCEPT !.block = Append(@, Field("indexed", 8, NoText, NoText))]
<1>1. {i \in DOMAIN Static : Static[i] = Status200} = {8}
  BY StaticEntries DEF Status200
<1>2. (CHOOSE i \in {8} : \A j \in {8} : i <= j) = 8  OBVIOUS
<1> QED  BY <1>1, <1>2, Zenon DEF ServerField

Named(h) == {i \in DOMAIN Static : Static[i][1] = h[1]}

\* A field no table holds as a whole.
LEMMA WritesLiteral ==
  ASSUME NEW d, NEW h,
         \A i \in DOMAIN Static : Static[i] # h,
         \A i \in DOMAIN d.table : d.table[i] # h
  PROVE  ServerField(d, h) =
           [table |-> <<h>> \o d.table,
            block |-> Append(d.block, Field("incremental",
                        IF Named(h) = {} THEN 0
                          ELSE CHOOSE i \in Named(h) : \A j \in Named(h) : i <= j,
                        h[1], h[2]))]
<1>1. {i \in DOMAIN Static : Static[i] = h} = {}  OBVIOUS
<1>2. {i \in DOMAIN d.table : d.table[i] = h} = {}  OBVIOUS
<1> QED  BY <1>1, <1>2, Zenon DEF ServerField, Named

\* The type of the content, whose name is in the static table.
LEMMA WritesContentType ==
  ASSUME NEW block
  PROVE  ServerField([table |-> <<>>, block |-> block], Grpc) =
           [table |-> <<Grpc>>,
            block |-> Append(block, Field("incremental", 31, Grpc[1], Grpc[2]))]
<1> DEFINE d == [table |-> <<>>, block |-> block]
<1>1. NoText # "application/grpc"  BY DEF NoText
<1>2. \A i \in DOMAIN Static : Static[i] # Grpc  BY <1>1, StaticEntries DEF Grpc
<1>3. Named(Grpc) = {31}
  BY StaticEntries DEF Grpc, Named
<1>4. (CHOOSE i \in {31} : \A j \in {31} : i <= j) = 31  OBVIOUS
<1>5. \A i \in DOMAIN d.table : d.table[i] # Grpc  OBVIOUS
<1>6. ServerField(d, Grpc) =
        [table |-> <<Grpc>> \o d.table,
         block |-> Append(d.block, Field("incremental",
                     IF {31} = {} THEN 0 ELSE CHOOSE i \in {31} : \A j \in {31} : i <= j,
                     Grpc[1], Grpc[2]))]
  BY <1>2, <1>3, <1>5, WritesLiteral
<1>7. <<Grpc>> \o d.table = <<Grpc>>  OBVIOUS
<1> QED  BY <1>4, <1>6, <1>7

\* The status, the first time and again.
LEMMA WritesStatus ==
  ASSUME NEW block, NEW code \in {"0", "2"}
  PROVE  ServerField([table |-> <<Grpc>>, block |-> block], <<"grpc-status", code>>).block =
           Append(block, Field("incremental", 0, "grpc-status", code))
<1> DEFINE h == <<"grpc-status", code>>
           d == [table |-> <<Grpc>>, block |-> block]
<1>1. \A i \in DOMAIN Static : Static[i] # h  BY StaticEntries
<1>2. Named(h) = {}  BY StaticEntries DEF Named
<1>3. \A i \in DOMAIN d.table : d.table[i] # h  BY DEF Grpc
<1>4. h[1] = "grpc-status" /\ h[2] = code /\ d.block = block  OBVIOUS
<1> HIDE DEF h, d
<1>5. ServerField(d, h) =
        [table |-> <<h>> \o d.table,
         block |-> Append(d.block, Field("incremental",
                     IF Named(h) = {} THEN 0
                       ELSE CHOOSE i \in Named(h) : \A j \in Named(h) : i <= j,
                     h[1], h[2]))]
  BY <1>1, <1>3, WritesLiteral
<1>6. ServerField(d, h).block = Append(d.block, Field("incremental", 0, h[1], h[2]))
  BY <1>2, <1>5
<1> QED  BY <1>4, <1>6 DEF h, d

\* What the instance answers, frame by frame.
LEMMA ReplyFrames ==
  ASSUME NEW op
  PROVE  Reply(op) = IF Refuses(op)
                       THEN <<SettingsFrame, RefusedFrame>>
                       ELSE <<SettingsFrame, HeadersFrame, DataFrame, DoneFrame>>
<1> DEFINE first == ServerBlock(<<>>, <<Status200, Grpc>>)
           last == ServerBlock(first.table, <<<<"grpc-status", "0">>>>)
           error == ServerBlock(<<>>, <<Status200, Grpc, <<"grpc-status", "2">>>>)
           named == Field("incremental", 31, Grpc[1], Grpc[2])
           whole == Field("indexed", 8, NoText, NoText)
<1>1. ServerField(Write0(<<>>), Status200) = [table |-> <<>>, block |-> <<whole>>]
  <2> HIDE DEF whole
  <2>1. Append(<<>>, whole) = <<whole>>  BY AppendsOne
  <2>2. ServerField(Write0(<<>>), Status200) =
          [Write0(<<>>) EXCEPT !.block = Append(@, whole)]
    BY WritesWhole DEF whole
  <2> QED  BY <2>1, <2>2 DEF Write0
<1>2. ServerField([table |-> <<>>, block |-> <<whole>>], Grpc) =
        [table |-> <<Grpc>>, block |-> <<whole, named>>]
  <2>1. Append(<<whole>>, named) = <<whole, named>>  BY AppendsOne
  <2> QED  BY <2>1, WritesContentType
<1>3. first = [table |-> <<Grpc>>, block |-> <<whole, named>>]
  <2>1. first = Write2(<<>>, <<Status200, Grpc>>)
    <3>1. DOMAIN <<Status200, Grpc>> = 1 .. 2  OBVIOUS
    <3> HIDE DEF Grpc
    <3> QED  BY <3>1, WritesInTurn
  <2>2. <<Status200, Grpc>>[1] = Status200 /\ <<Status200, Grpc>>[2] = Grpc  OBVIOUS
  <2> QED  BY <2>1, <2>2, <1>1, <1>2 DEF Write1, Write2
<1>4. last.block = <<Field("incremental", 0, "grpc-status", "0")>>
  <2> DEFINE h == <<<<"grpc-status", "0">>>>
  <2>1. DOMAIN h = 1 .. 1 /\ h[1] = <<"grpc-status", "0">>  OBVIOUS
  <2>2. last = Write1(<<Grpc>>, h)
    <3>1. first.table = <<Grpc>>  BY <1>3
    <3> HIDE DEF first, h
    <3>2. ServerBlock(<<Grpc>>, h) = Write1(<<Grpc>>, h)  BY <2>1, WritesInTurn
    <3> QED  BY <3>1, <3>2 DEF h
  <2> QED  BY <2>1, <2>2, WritesStatus DEF Write1, Write0
<1>5. error.block = <<whole, named, Field("incremental", 0, "grpc-status", "2")>>
  <2> DEFINE h == <<Status200, Grpc, <<"grpc-status", "2">>>>
             code == Field("incremental", 0, "grpc-status", "2")
  <2>1. DOMAIN h = 1 .. 3 /\ h[1] = Status200 /\ h[2] = Grpc /\ h[3] = <<"grpc-status", "2">>
    OBVIOUS
  <2>2. error = Write3(<<>>, h)
    <3> HIDE DEF h
    <3>1. ServerBlock(<<>>, h) = Write3(<<>>, h)  BY <2>1, WritesInTurn
    <3> QED  BY <3>1 DEF h
  <2>3. Write2(<<>>, h) = [table |-> <<Grpc>>, block |-> <<whole, named>>]
    BY <2>1, <1>1, <1>2 DEF Write1, Write2
  <2>4. error.block = Append(<<whole, named>>, code)
    <3>1. error = ServerField(Write2(<<>>, h), h[3])  BY <2>2 DEF Write3
    <3> HIDE DEF error, h, whole, named, code
    <3>2. error.block = Append(<<whole, named>>, Field("incremental", 0, "grpc-status", "2"))
      BY <3>1, <2>1, <2>3, WritesStatus
    <3> QED  BY <3>2 DEF code
  <2>5. Append(<<whole, named>>, code) = <<whole, named, code>>  BY AppendsOne
  <2> QED  BY <2>4, <2>5
<1>6. Reply(op) = IF Refuses(op)
                    THEN <<SettingsFrame, Frame("HEADERS", error.block, TRUE)>>
                    ELSE <<SettingsFrame, Frame("HEADERS", first.block, FALSE), DataFrame,
                           Frame("HEADERS", last.block, TRUE)>>
  BY DEF Reply, SettingsFrame, DataFrame, Status200, Grpc
<1>7. Frame("HEADERS", first.block, FALSE) = HeadersFrame
  <2>1. named = Field("incremental", 31, "content-type", "application/grpc")  BY DEF Grpc
  <2> HIDE DEF named, first
  <2>2. first.block = <<whole, named>>  BY <1>3
  <2>3. first.block = <<whole, Field("incremental", 31, "content-type", "application/grpc")>>
    BY <2>1, <2>2
  <2> QED  BY <2>3 DEF HeadersFrame
<1>8. Frame("HEADERS", last.block, TRUE) = DoneFrame
  BY <1>4 DEF DoneFrame, Frame
<1>9. Frame("HEADERS", error.block, TRUE) = RefusedFrame
  <2>1. named = Field("incremental", 31, "content-type", "application/grpc")  BY DEF Grpc
  <2> HIDE DEF named
  <2> QED  BY <1>5, <2>1 DEF RefusedFrame
<1> HIDE DEF first, last, error
<1> QED  BY <1>6, <1>7, <1>8, <1>9

\* A field by index, and a literal that enters the table.
LEMMA ReadsIndexed ==
  ASSUME NEW d, NEW f, d.ok, f.rep = "indexed", f.index # 0, HasEntry(d.table, f.index)
  PROVE  DecodeField(d, f) = [d EXCEPT !.headers = Append(@, Entry(d.table, f.index))]
<1>1. "indexed" # "resize"  OBVIOUS
<1> QED  BY <1>1, Zenon DEF DecodeField

\* A literal enters the table that the connection keeps.
LEMMA ReadsLiteral ==
  ASSUME NEW d, NEW f, NEW name, d.ok, f.rep = "incremental",
         f.index # 0 => HasEntry(d.table, f.index),
         name = IF f.index = 0 THEN f.name ELSE Entry(d.table, f.index)[1]
  PROVE  DecodeField(d, f) = [d EXCEPT !.headers = Append(@, <<name, f.value>>),
                                       !.table = <<<<name, f.value>>>> \o @]
<1>1. "incremental" # "resize" /\ "incremental" # "indexed"  OBVIOUS
<1>2. CASE f.index = 0
  <2>1. name = f.name  BY <1>2
  <2> QED  BY <1>1, <1>2, <2>1, Zenon DEF DecodeField
<1>3. CASE f.index # 0
  <2>1. name = Entry(d.table, f.index)[1]  BY <1>3
  <2> QED  BY <1>1, <1>3, <2>1, Zenon DEF DecodeField
<1> QED  BY <1>2, <1>3

Told(headers, table) == [ok |-> TRUE, headers |-> headers, table |-> table]

\* The reader finds the status 200 in the static table.
LEMMA ReadsStatus200 ==
  ASSUME NEW h, NEW t
  PROVE  DecodeField(Told(h, t), Field("indexed", 8, NoText, NoText)) =
           Told(Append(h, Status200), t)
<1> DEFINE d == Told(h, t)
           f == Field("indexed", 8, NoText, NoText)
<1>1. d.ok /\ f.rep = "indexed" /\ f.index = 8 /\ d.table = t  BY DEF Told, Field
<1>2. HasEntry(t, 8) /\ Entry(t, 8) = Status200  BY StaticEntries DEF HasEntry, Entry, Status200
<1> HIDE DEF d, f
<1>3. DecodeField(d, f) = [d EXCEPT !.headers = Append(@, Entry(d.table, f.index))]
  BY <1>1, <1>2, ReadsIndexed
<1>4. DecodeField(d, f) = [d EXCEPT !.headers = Append(@, Status200)]
  BY <1>1, <1>2, <1>3
<1> QED  BY <1>4 DEF d, f, Told

\* The reader gets the type of the content as a literal.
LEMMA ReadsContentType ==
  ASSUME NEW h, NEW t
  PROVE  DecodeField(Told(h, t), Field("incremental", 31, "content-type", "application/grpc")) =
           Told(Append(h, Grpc), <<Grpc>> \o t)
<1> DEFINE d == Told(h, t)
           f == Field("incremental", 31, "content-type", "application/grpc")
<1>1. d.ok /\ f.rep = "incremental" /\ f.index = 31 /\ d.table = t
      /\ f.value = "application/grpc"
  BY DEF Told, Field
<1>2. HasEntry(t, 31) /\ Entry(t, 31)[1] = "content-type"
  BY StaticEntries DEF HasEntry, Entry
<1> HIDE DEF d, f
<1>3. DecodeField(d, f) =
        [d EXCEPT !.headers = Append(@, <<"content-type", f.value>>),
                  !.table = <<<<"content-type", f.value>>>> \o @]
  <2>1. "content-type" = IF f.index = 0 THEN f.name ELSE Entry(d.table, f.index)[1]
    BY <1>1, <1>2
  <2>2. f.index # 0 => HasEntry(d.table, f.index)  BY <1>1, <1>2
  <2>3. d.ok /\ f.rep = "incremental"  BY <1>1
  <2> DEFINE name == "content-type"
  <2> HIDE DEF name
  <2>4. name = IF f.index = 0 THEN f.name ELSE Entry(d.table, f.index)[1]
    BY <2>1 DEF name
  <2>5. DecodeField(d, f) = [d EXCEPT !.headers = Append(@, <<name, f.value>>),
                                      !.table = <<<<name, f.value>>>> \o @]
    BY <2>2, <2>3, <2>4, ReadsLiteral, Zenon
  <2> QED  BY <2>5 DEF name
<1>4. DecodeField(d, f) = [d EXCEPT !.headers = Append(@, Grpc), !.table = <<Grpc>> \o @]
  BY <1>1, <1>3 DEF Grpc
<1> QED  BY <1>4 DEF d, f, Told

\* The reader gets the status of the operation, as a literal or from the table.
LEMMA ReadsGrpcStatus ==
  ASSUME NEW h, NEW t, NEW code
  PROVE  DecodeField(Told(h, t), Field("incremental", 0, "grpc-status", code)) =
           Told(Append(h, <<"grpc-status", code>>), <<<<"grpc-status", code>>>> \o t)
<1> DEFINE d == Told(h, t)
           f == Field("incremental", 0, "grpc-status", code)
<1>1. d.ok /\ f.rep = "incremental" /\ f.index = 0 /\ f.name = "grpc-status" /\ f.value = code
  BY DEF Told, Field
<1> HIDE DEF d, f
<1>3. DecodeField(d, f) =
        [d EXCEPT !.headers = Append(@, <<"grpc-status", f.value>>),
                  !.table = <<<<"grpc-status", f.value>>>> \o @]
  BY <1>1, ReadsLiteral
<1>4. DecodeField(d, f) =
        [d EXCEPT !.headers = Append(@, <<"grpc-status", code>>),
                  !.table = <<<<"grpc-status", code>>>> \o @]
  BY <1>1, <1>3
<1> QED  BY <1>4 DEF d, f, Told

\* The status a frame's headers carry, if they carry one.
LEMMA FramesDecode ==
  /\ \A frame \in ReplyFrame : decodeHpack(frame.block).ok
  /\ decodeHpack(SettingsFrame.block).headers = <<>>
  /\ decodeHpack(DataFrame.block).headers = <<>>
  /\ decodeHpack(HeadersFrame.block).headers = <<Status200, Grpc>>
  /\ decodeHpack(DoneFrame.block).headers = <<<<"grpc-status", "0">>>>
  /\ decodeHpack(RefusedFrame.block).headers = <<Status200, Grpc, <<"grpc-status", "2">>>>
<1> DEFINE whole == Field("indexed", 8, NoText, NoText)
           named == Field("incremental", 31, "content-type", "application/grpc")
           code(c) == Field("incremental", 0, "grpc-status", c)
<1>1. decodeHpack(<<>>) = Told(<<>>, <<>>)
  <2>1. DOMAIN <<>> = 1 .. 0  OBVIOUS
  <2>2. decodeHpack(<<>>) = Read0  BY <2>1, DecodesInTurn
  <2> QED  BY <2>2 DEF Read0, Told
<1>2. ASSUME NEW b, NEW n \in 2 .. 3, DOMAIN b = 1 .. n, b[1] = whole, b[2] = named
      PROVE  Read2(b) = Told(<<Status200, Grpc>>, <<Grpc>> \o <<>>)
  <2>1. Read1(b) = Told(<<Status200>>, <<>>)
    <3>1. Read0 = Told(<<>>, <<>>)  BY DEF Read0, Told
    <3>2. Append(<<>>, Status200) = <<Status200>>  BY AppendsOne
    <3> QED  BY <1>2, <3>1, <3>2, ReadsStatus200 DEF Read1
  <2>2. Append(<<Status200>>, Grpc) = <<Status200, Grpc>>  BY AppendsOne
  <2> QED  BY <1>2, <2>1, <2>2, ReadsContentType DEF Read2
<1>3. decodeHpack(<<whole, named>>) = Told(<<Status200, Grpc>>, <<Grpc>> \o <<>>)
  <2> DEFINE b == <<whole, named>>
  <2>1. DOMAIN b = 1 .. 2 /\ b[1] = whole /\ b[2] = named  OBVIOUS
  <2> HIDE DEF b, whole, named
  <2>2. decodeHpack(b) = Read2(b)  BY <2>1, DecodesInTurn
  <2>3. Read2(b) = Told(<<Status200, Grpc>>, <<Grpc>> \o <<>>)  BY <2>1, <1>2
  <2> QED  BY <2>2, <2>3 DEF b
<1>4. decodeHpack(<<code("0")>>) =
        Told(<<<<"grpc-status", "0">>>>, <<<<"grpc-status", "0">>>> \o <<>>)
  <2> DEFINE b == <<code("0")>>
             h == <<"grpc-status", "0">>
  <2>1. DOMAIN b = 1 .. 1 /\ b[1] = code("0")  OBVIOUS
  <2>2. DecodeField(Told(<<>>, <<>>), code("0")) = Told(Append(<<>>, h), <<h>> \o <<>>)
    BY ReadsGrpcStatus
  <2> HIDE DEF b, code, h
  <2>3. decodeHpack(b) = Read1(b)  BY <2>1, DecodesInTurn
  <2>4. Append(<<>>, h) = <<h>>  BY AppendsOne
  <2>5. Read0 = Told(<<>>, <<>>)  BY DEF Read0, Told
  <2>6. Read1(b) = Told(<<h>>, <<h>> \o <<>>)  BY <2>1, <2>2, <2>4, <2>5 DEF Read1
  <2> QED  BY <2>3, <2>6 DEF b, h
<1>5. decodeHpack(<<whole, named, code("2")>>) =
        Told(<<Status200, Grpc, <<"grpc-status", "2">>>>,
             <<<<"grpc-status", "2">>>> \o (<<Grpc>> \o <<>>))
  <2> DEFINE b == <<whole, named, code("2")>>
             h == <<"grpc-status", "2">>
             t == <<Grpc>> \o <<>>
  <2>1. DOMAIN b = 1 .. 3 /\ b[1] = whole /\ b[2] = named /\ b[3] = code("2")  OBVIOUS
  <2>2. DecodeField(Told(<<Status200, Grpc>>, t), code("2")) =
          Told(Append(<<Status200, Grpc>>, h), <<h>> \o t)
    BY ReadsGrpcStatus
  <2>3. Append(<<Status200, Grpc>>, h) = <<Status200, Grpc, h>>  BY AppendsOne
  <2> HIDE DEF b, whole, named, code, h
  <2>4. decodeHpack(b) = Read3(b)  BY <2>1, DecodesInTurn
  <2>5. Read2(b) = Told(<<Status200, Grpc>>, t)  BY <2>1, <1>2
  <2>6. Read3(b) = DecodeField(Read2(b), code("2"))  BY <2>1 DEF Read3
  <2> HIDE DEF t
  <2>7. Read3(b) = Told(<<Status200, Grpc, h>>, <<h>> \o t)  BY <2>2, <2>3, <2>5, <2>6
  <2> QED  BY <2>4, <2>7 DEF b, h, t
<1>6. /\ SettingsFrame.block = <<>> /\ DataFrame.block = <<>>
      /\ HeadersFrame.block = <<whole, named>> /\ DoneFrame.block = <<code("0")>>
      /\ RefusedFrame.block = <<whole, named, code("2")>>
  BY DEF SettingsFrame, DataFrame, HeadersFrame, DoneFrame, RefusedFrame, Frame
<1>7. \A h, t : Told(h, t).ok /\ Told(h, t).headers = h  BY DEF Told
<1> HIDE DEF whole, named, code
<1>8. /\ decodeHpack(SettingsFrame.block).ok /\ decodeHpack(DataFrame.block).ok
      /\ decodeHpack(HeadersFrame.block).ok /\ decodeHpack(DoneFrame.block).ok
      /\ decodeHpack(RefusedFrame.block).ok
  BY <1>1, <1>3, <1>4, <1>5, <1>6, <1>7
<1>9. \A frame \in ReplyFrame : decodeHpack(frame.block).ok
  BY <1>8 DEF ReplyFrame
<1> QED  BY <1>1, <1>3, <1>4, <1>5, <1>6, <1>7, <1>9

\* Only the last frame carries a status, and it is the one that was meant.
LEMMA FramesSay ==
  ASSUME NEW before
  PROVE  /\ \A frame \in {SettingsFrame, HeadersFrame, DataFrame} :
              Status(decodeHpack(frame.block).headers, before) = before
         /\ Status(decodeHpack(DoneFrame.block).headers, before) = "0"
         /\ Status(decodeHpack(RefusedFrame.block).headers, before) = "2"
<1>1. Status(<<>>, before) = before
  <2>1. {i \in DOMAIN <<>> : <<>>[i][1] = "grpc-status"} = {}  OBVIOUS
  <2> QED  BY <2>1 DEF Status
<1>2. Status(<<Status200, Grpc>>, before) = before
  <2> DEFINE h == <<Status200, Grpc>>
  <2>1. {i \in DOMAIN h : h[i][1] = "grpc-status"} = {}  BY DEF Status200, Grpc
  <2> QED  BY <2>1 DEF Status
<1>3. Status(<<<<"grpc-status", "0">>>>, before) = "0"
  <2> DEFINE h == <<<<"grpc-status", "0">>>>
  <2>1. {i \in DOMAIN h : h[i][1] = "grpc-status"} = {1} /\ h[1][2] = "0"  OBVIOUS
  <2>2. (CHOOSE i \in {1} : \A j \in {1} : j <= i) = 1  OBVIOUS
  <2> HIDE DEF h
  <2> QED  BY <2>1, <2>2 DEF Status
<1>4. Status(<<Status200, Grpc, <<"grpc-status", "2">>>>, before) = "2"
  <2> DEFINE h == <<Status200, Grpc, <<"grpc-status", "2">>>>
  <2>1. {i \in DOMAIN h : h[i][1] = "grpc-status"} = {3} /\ h[3][2] = "2"
    BY DEF Status200, Grpc
  <2>2. (CHOOSE i \in {3} : \A j \in {3} : j <= i) = 3  OBVIOUS
  <2> HIDE DEF h
  <2> QED  BY <2>1, <2>2 DEF Status
<1> QED  BY <1>1, <1>2, <1>3, <1>4, FramesDecode

-----------------------------------------------------------------------------
(* The inductive invariant. *)

XrayTyped == xray \in [up : BOOLEAN, holds : Outbound \cup {NoOutbound}, run : Nat]

InjectionTyped ==
  injection \in [who : {"pool", "finder", "probe"}, want : Outbound \cup {NoOutbound},
                 payload : Payload,
                 at : {"idle", "clearing", "adding", "falling", "undoing", "held",
                       "releasing", "leaving", "failed"},
                 attempt : 0 .. Attempts, run : Nat]

RequestTyped ==
  request \in [op : {"none", "add", "remove"}, via : {"none", "grpc", "child"},
               at : {"none", "new", "rejected", "connected", "sent", "reading", "again",
                     "first", "second"},
               reply : {"none", "done", "refused", "unreachable"}]

WireTyped == wire \in [inbox : Seq(ReplyFrame), cut : BOOLEAN]

AbandonedTyped ==
  abandoned \in [pending : SUBSET [op : {"add", "remove"}, want : Outbound], undone : BOOLEAN]

CallTyped ==
  /\ XrayTyped /\ InjectionTyped /\ RequestTyped /\ WireTyped /\ AbandonedTyped
  /\ injections \in 0 .. MaxInjections /\ faults \in 0 .. MaxBreaks

\* The call under way is the one the injection waits for.
CallMatches ==
  /\ (request = NoCall) <=> (injection.at \in {"idle", "held", "leaving", "failed"})
  /\ injection.at \in {"clearing", "undoing", "releasing"} => request.op = "remove"
  /\ injection.at \in {"adding", "falling"} => request.op = "add"
  /\ injection.at # "idle" => injection.want \in Outbound
  /\ request.via = "grpc" => request.at \in {"new", "connected", "sent", "reading"}
  /\ request.via = "child" => request.at \in {"new", "again", "first", "second"}
  /\ request.via = "none" => request = NoCall \/ (injection.at = "adding" /\ request.at = "rejected")
  /\ request.at \in {"new", "again"} => request.reply = "none"
  /\ request.via = "grpc" => request.reply = "none"
  /\ request.via # "grpc" \/ request.at = "new" => wire = NoWire
  /\ request.at # "reading" => wire.inbox = <<>>

Inbox == {wire.inbox[i] : i \in DOMAIN wire.inbox}

\* The instance that was asked, if it still runs and no removal given up has come
\* since, holds what it was asked for.
Fulfilled ==
  xray.up /\ xray.run = injection.run /\ ~abandoned.undone => xray.holds = injection.want

DoneIsTrue ==
  /\ injection.run <= xray.run
  /\ injection.at = "held" => Fulfilled
  /\ request.op = "add" /\ DoneFrame \in Inbox => Fulfilled
  /\ request.op = "add" /\ request.reply = "done" => Fulfilled

\* Nothing has broken: no call has failed, and an addition finds the tag free.
Unbroken ==
  /\ xray.up /\ ~wire.cut /\ abandoned.pending = {}
  /\ injection.at \notin {"undoing", "failed", "leaving"}
  /\ request.at # "again" /\ RefusedFrame \notin Inbox
  /\ injection.at = "idle" => xray.holds = NoOutbound
  /\ request.op = "add" /\ request.at \in {"new", "connected", "sent", "rejected"} =>
       xray.holds = NoOutbound
  /\ request.op = "remove" /\ request.at \in {"reading", "first", "second"} =>
       xray.holds = NoOutbound
  /\ request.at \in {"first", "second"} => request.reply = "done"

CallInv == CallTyped /\ CallMatches /\ DoneIsTrue /\ (faults = 0 => Unbroken)
-----------------------------------------------------------------------------
(* A call is made, or the injection comes to rest. *)

Resting == {"idle", "held", "leaving", "failed"}
Removing == {"clearing", "undoing", "releasing"}

Removals == {Call("remove", "child", "new"), Call("remove", "grpc", "new")}
Additions == {Call("add", "grpc", "new"), Call("add", "child", "new"),
              Call("add", "none", "rejected")}

\* The call an injection makes at a place.
Fits(at, call) ==
  /\ at \in Resting => call = NoCall
  /\ at \in Removing => call \in Removals
  /\ at = "adding" => call \in Additions
  /\ at = "falling" => call = Call("add", "child", "new")

\* BuildOutbound() knows the protocol of an outbound, or the child takes over.
LEMMA EncodesOrNot ==
  ASSUME NEW payload \in Payload
  PROVE  AddDirect(payload) \in Additions
<1>1. CASE payload = "encoded"
  <2>1. AddDirect(payload) = Call("add", "grpc", "new")  BY <1>1, Zenon DEF AddDirect
  <2> QED  BY <2>1 DEF Additions
<1>2. CASE payload = "foreign"
  <2>1. AddDirect(payload) = Call("add", "child", "new")  BY <1>2, Zenon DEF AddDirect
  <2> QED  BY <2>1 DEF Additions
<1>3. CASE payload = "unsafe"
  <2>1. AddDirect(payload) = Call("add", "none", "rejected")  BY <1>3, Zenon DEF AddDirect
  <2> QED  BY <2>1 DEF Additions
<1> QED  BY <1>1, <1>2, <1>3 DEF Payload

Place == Resting \cup Removing \cup {"adding", "falling"}

\* Where the injection goes, what it has to be then, and the call that fits.
LEMMA TurnKeeps ==
  ASSUME CallInv, NEW at \in Place, NEW call, Fits(at, call),
         request' = call, wire' = NoWire, xray' = xray,
         InjectionTyped', injection'.at = at, injection'.run <= xray.run,
         injections' \in 0 .. MaxInjections, faults' \in 0 .. MaxBreaks,
         AbandonedTyped',
         at # "idle" => injection'.want \in Outbound,
         at = "held" => Fulfilled',
         faults' = 0 => /\ abandoned'.pending = {}
                        /\ xray.up /\ at \notin {"undoing", "failed", "leaving"}
                        /\ at \in {"idle", "adding", "falling"} => xray.holds = NoOutbound
  PROVE  CallInv'
<1>1. \/ at \in Resting /\ call = NoCall
      \/ at \in Removing /\ call \in Removals
      \/ at \in {"adding", "falling"} /\ call \in Additions
         /\ (call.at = "rejected" => at = "adding")
  BY DEF Place, Fits, Additions, Call
<1>2. CallTyped'
  <2>1. XrayTyped'  BY DEF CallInv, CallTyped, XrayTyped
  <2>2. RequestTyped'
    BY <1>1 DEF RequestTyped, Removals, Additions, Call, NoCall
  <2>3. WireTyped'
    <3>1. <<>> \in Seq(ReplyFrame)  OBVIOUS
    <3> QED  BY <3>1 DEF WireTyped, NoWire
  <2> QED  BY <2>1, <2>2, <2>3 DEF CallTyped
<1>3. Inbox' = {}  BY DEF Inbox, NoWire
<1>4. CallMatches'
  BY <1>1 DEF CallMatches, Removals, Additions, Resting, Removing, Call, NoCall, NoWire
<1>5. DoneIsTrue'
  <2>1. request'.reply = "none"  BY <1>1 DEF Removals, Additions, Call, NoCall
  <2> QED  BY <1>3, <2>1 DEF DoneIsTrue
<1>6. ASSUME faults' = 0  PROVE Unbroken'
  <2>1. request'.at \notin {"first", "second", "again", "reading"}
    BY <1>1 DEF Removals, Additions, Call, NoCall
  <2>2. request'.op = "add" => at \in {"adding", "falling"}
    BY <1>1 DEF Removals, Additions, Call, NoCall
  <2> QED  BY <1>3, <1>6, <2>1, <2>2 DEF Unbroken, NoWire
<1> QED  BY <1>2, <1>4, <1>5, <1>6 DEF CallInv

\* Where an answer leads.
LEMMA AnswerLeads ==
  ASSUME CallInv, request # NoCall, NEW ok \in BOOLEAN, NEW transient,
         Answered(ok, transient)
  PROVE  \E at \in Place : \E call :
           /\ Fits(at, call)
           /\ request' = call /\ wire' = NoWire
           /\ InjectionTyped' /\ injection'.at = at /\ injection'.run <= xray.run
           /\ injection'.want = injection.want
           /\ at = "held" => injection'.run = injection.run
           /\ \/ injection.at = "clearing" /\ at = "adding"
              \/ injection.at \in {"adding", "falling"} /\ ok /\ at = "held"
              \/ injection.at = "adding" /\ ~ok /\ at \in {"adding", "falling"}
              \/ injection.at = "falling" /\ ~ok /\ at \in {"undoing", "failed"}
              \/ injection.at = "undoing" /\ at = "failed"
              \/ injection.at = "releasing" /\ at = "idle"
              \/ injection.at = "releasing" /\ ~ok /\ at = "leaving"
<1> DEFINE Leads(at, call) ==
             /\ Fits(at, call)
             /\ request' = call /\ wire' = NoWire
             /\ InjectionTyped' /\ injection'.at = at /\ injection'.run <= xray.run
             /\ injection'.want = injection.want
             /\ at = "held" => injection'.run = injection.run
<1>0. /\ injection.run <= xray.run /\ injection.run \in Nat /\ xray.run \in Nat
      /\ InjectionTyped
  BY DEF CallInv, CallTyped, XrayTyped, InjectionTyped, DoneIsTrue
<1>1. ASSUME NEW at \in Place, NEW call, Fits(at, call), Goes(at, call)
      PROVE  Leads(at, call)
  <2>1. /\ injection' = [injection EXCEPT !.at = at,
                           !.run = IF call = NoCall THEN injection.run ELSE xray.run]
        /\ request' = call /\ wire' = NoWire
    BY <1>1, Zenon DEF Goes
  <2>2. /\ InjectionTyped' /\ injection'.at = at /\ injection'.run <= xray.run
        /\ injection'.want = injection.want
    <3> DEFINE run == IF call = NoCall THEN injection.run ELSE xray.run
    <3>1. run \in Nat /\ run <= xray.run  BY <1>0
    <3> HIDE DEF run
    <3>2. injection' = [injection EXCEPT !.at = at, !.run = run]  BY <2>1 DEF run
    <3> QED  BY <1>0, <3>1, <3>2 DEF InjectionTyped, Place, Resting, Removing
  <2>3. at = "held" => injection'.run = injection.run
    BY <1>0, <1>1, <2>1 DEF InjectionTyped, Fits, Resting
  <2> QED  BY <1>1, <2>1, <2>2, <2>3
<1>2. AddDirect(injection.payload) \in Additions
  BY <1>0, EncodesOrNot DEF InjectionTyped
<1>3. CASE injection.at = "clearing"
  <2>1. Goes("adding", AddDirect(injection.payload))  BY <1>3, Zenon DEF Answered
  <2>2. Fits("adding", AddDirect(injection.payload))
    BY <1>2 DEF Fits, Resting, Removing
  <2>3. "adding" \in Place  BY DEF Place
  <2> HIDE DEF Leads
  <2>4. Leads("adding", AddDirect(injection.payload))  BY <1>1, <2>1, <2>2, <2>3
  <2> QED  BY <1>3, <2>3, <2>4 DEF Leads
<1>4. CASE injection.at \in {"adding", "falling"} /\ ok
  <2>1. Goes("held", NoCall)  BY <1>4, Zenon DEF Answered
  <2>2. Fits("held", NoCall)  BY DEF Fits, Resting, Removing
  <2>3. "held" \in Place  BY DEF Place, Resting
  <2> HIDE DEF Leads
  <2>4. Leads("held", NoCall)  BY <1>1, <2>1, <2>2, <2>3
  <2> QED  BY <1>4, <2>3, <2>4 DEF Leads
<1>5. CASE injection.at = "adding" /\ ~ok
  <2>1. \/ /\ injection.attempt < Attempts
           /\ injection' = [injection EXCEPT !.attempt = @ + 1, !.run = xray.run]
           /\ request' = AddDirect(injection.payload)
           /\ wire' = NoWire
        \/ Goes("falling", Call("add", "child", "new"))
    BY <1>5, Zenon DEF Answered
  <2>2. CASE /\ injection.attempt < Attempts
             /\ injection' = [injection EXCEPT !.attempt = @ + 1, !.run = xray.run]
             /\ request' = AddDirect(injection.payload)
             /\ wire' = NoWire
    <3>1. Fits("adding", AddDirect(injection.payload))
      BY <1>2 DEF Fits, Resting, Removing
    <3>2. "adding" \in Place  BY DEF Place
    <3>3. /\ InjectionTyped' /\ injection'.at = "adding" /\ injection'.run <= xray.run
          /\ injection'.want = injection.want
      <4> DEFINE n == injection.attempt + 1
      <4>1. n \in 0 .. Attempts  BY <1>0, <2>2, ControlAssumption DEF InjectionTyped
      <4>2. injection' = [injection EXCEPT !.attempt = n, !.run = xray.run]  BY <2>2
      <4> HIDE DEF n
      <4>3. InjectionTyped'  BY <1>0, <4>1, <4>2 DEF InjectionTyped
      <4>4. injection'.at = "adding" /\ injection'.want = injection.want
        BY <1>0, <1>5, <4>2 DEF InjectionTyped
      <4>5. injection'.run = xray.run /\ xray.run <= xray.run
        BY <1>0, <4>2 DEF InjectionTyped
      <4> QED  BY <4>3, <4>4, <4>5
    <3>4. Leads("adding", AddDirect(injection.payload))  BY <2>2, <3>1, <3>3
    <3> HIDE DEF Leads
    <3> QED  BY <1>5, <3>2, <3>4 DEF Leads
  <2>3. CASE Goes("falling", Call("add", "child", "new"))
    <3>1. Fits("falling", Call("add", "child", "new"))  BY DEF Fits, Resting, Removing
    <3>2. "falling" \in Place  BY DEF Place
    <3> HIDE DEF Leads
    <3>3. Leads("falling", Call("add", "child", "new"))  BY <1>1, <2>3, <3>1, <3>2
    <3> QED  BY <1>5, <3>2, <3>3 DEF Leads
  <2> QED  BY <2>1, <2>2, <2>3
<1>6. CASE injection.at = "falling" /\ ~ok
  <2>1. \/ Goes("undoing", Call("remove", "grpc", "new"))
        \/ Goes("failed", NoCall)
    BY <1>6, Zenon DEF Answered
  <2>2. Fits("undoing", Call("remove", "grpc", "new")) /\ Fits("failed", NoCall)
    BY DEF Fits, Resting, Removing, Removals
  <2>3. "undoing" \in Place /\ "failed" \in Place  BY DEF Place, Resting, Removing
  <2> HIDE DEF Leads
  <2>4. Leads("undoing", Call("remove", "grpc", "new")) \/ Leads("failed", NoCall)
    BY <1>1, <2>1, <2>2, <2>3
  <2> QED  BY <1>6, <2>3, <2>4 DEF Leads
<1>7. CASE injection.at = "undoing"
  <2>1. Goes("failed", NoCall)  BY <1>7, Zenon DEF Answered
  <2>2. Fits("failed", NoCall)  BY DEF Fits, Resting, Removing
  <2>3. "failed" \in Place  BY DEF Place, Resting
  <2> HIDE DEF Leads
  <2>4. Leads("failed", NoCall)  BY <1>1, <2>1, <2>2, <2>3
  <2> QED  BY <1>7, <2>3, <2>4 DEF Leads
<1>8. CASE injection.at = "releasing"
  <2>1. \/ Goes("idle", NoCall)
        \/ ~ok /\ Goes("leaving", NoCall)
    BY <1>8, Zenon DEF Answered
  <2>2. Fits("idle", NoCall) /\ Fits("leaving", NoCall)  BY DEF Fits, Resting, Removing
  <2>3. "idle" \in Place /\ "leaving" \in Place  BY DEF Place, Resting
  <2> HIDE DEF Leads
  <2>4. Leads("idle", NoCall) \/ (~ok /\ Leads("leaving", NoCall))
    BY <1>1, <2>1, <2>2, <2>3
  <2> QED  BY <1>8, <2>3, <2>4 DEF Leads
<1>9. injection.at \in Removing \cup {"adding", "falling"}
  BY <1>0 DEF CallInv, CallMatches, InjectionTyped, Removing
<1> QED  BY <1>3, <1>4, <1>5, <1>6, <1>7, <1>8, <1>9 DEF Removing

\* An answer keeps the invariant if a success is one, and if failures have a cause.
LEMMA AnswerKeeps ==
  ASSUME CallInv, request # NoCall, NEW ok \in BOOLEAN, NEW transient,
         Answered(ok, transient),
         xray' = xray, injections' = injections, faults' \in 0 .. MaxBreaks,
         AbandonedTyped', abandoned'.undone = abandoned.undone,
         faults' = 0 => abandoned'.pending = {},
         ok /\ injection.at \in {"adding", "falling"} => Fulfilled,
         faults' = 0 => /\ xray.up
                        /\ ok \/ (injection.at = "adding" /\ xray.holds = NoOutbound)
                        /\ injection.at \in {"clearing", "releasing"} => xray.holds = NoOutbound
                        /\ injection.at # "undoing"
  PROVE  CallInv'
<1>1. PICK at \in Place : \E call :
        /\ Fits(at, call)
        /\ request' = call /\ wire' = NoWire
        /\ InjectionTyped' /\ injection'.at = at /\ injection'.run <= xray.run
        /\ injection'.want = injection.want
        /\ at = "held" => injection'.run = injection.run
        /\ \/ injection.at = "clearing" /\ at = "adding"
           \/ injection.at \in {"adding", "falling"} /\ ok /\ at = "held"
           \/ injection.at = "adding" /\ ~ok /\ at \in {"adding", "falling"}
           \/ injection.at = "falling" /\ ~ok /\ at \in {"undoing", "failed"}
           \/ injection.at = "undoing" /\ at = "failed"
           \/ injection.at = "releasing" /\ at = "idle"
           \/ injection.at = "releasing" /\ ~ok /\ at = "leaving"
  BY AnswerLeads, Zenon
<1>2. injections' \in 0 .. MaxInjections  BY DEF CallInv, CallTyped
<1>3. at = "held" => Fulfilled'  BY <1>1 DEF Fulfilled
<1>4. faults' = 0 => /\ abandoned'.pending = {}
                     /\ xray.up /\ at \notin {"undoing", "failed", "leaving"}
                     /\ at \in {"idle", "adding", "falling"} => xray.holds = NoOutbound
  <2>1. CASE ok  BY <1>1, <2>1
  <2>2. CASE ~ok  BY <1>1, <2>2
  <2> QED  BY <2>1, <2>2
<1>5. injection'.want \in Outbound
  <2>1. injection.at # "idle"  BY DEF CallInv, CallMatches
  <2> QED  BY <1>1, <2>1 DEF CallInv, CallMatches
<1> QED  BY <1>1, <1>2, <1>3, <1>4, <1>5, TurnKeeps

-----------------------------------------------------------------------------
(* Every action keeps the invariant. *)

\* Initially nothing is under way.
LEMMA CallInitially == CallInit => CallInv
<1> SUFFICES ASSUME CallInit  PROVE CallInv
  OBVIOUS
<1>1. CallTyped
  <2>1. <<>> \in Seq(ReplyFrame)  OBVIOUS
  <2> QED
    BY <2>1, ControlAssumption
    DEF CallInit, CallTyped, XrayTyped, InjectionTyped, RequestTyped, WireTyped, NoWire,
        NoCall, Call, Payload, AbandonedTyped, NoneAbandoned
<1>2. CallMatches /\ DoneIsTrue
  BY DEF CallInit, CallMatches, DoneIsTrue, Inbox, NoWire, NoCall, Call
<1>3. Unbroken
  BY DEF CallInit, Unbroken, Inbox, NoWire, NoCall, Call, NoneAbandoned
<1> QED  BY <1>1, <1>2, <1>3 DEF CallInv

\* A caller begins.
LEMMA BeginKeeps ==
  ASSUME CallInv, NEW want \in Outbound, NEW payload \in Payload, Begin(want, payload)
  PROVE  CallInv'
<1> DEFINE at == IF injection.who = "pool" THEN "adding" ELSE "clearing"
<1>1. /\ InjectionTyped' /\ injection'.at = at /\ injection'.run = xray.run
      /\ injection'.want = want
  <2>1. injection' = [injection EXCEPT !.want = want, !.payload = payload, !.attempt = 1,
                        !.run = xray.run, !.at = at]
    BY DEF Begin
  <2>2. 1 \in 0 .. Attempts /\ xray.run \in Nat /\ at \in {"adding", "clearing"}
    BY ControlAssumption DEF CallInv, CallTyped, XrayTyped
  <2>3. InjectionTyped  BY DEF CallInv, CallTyped
  <2> HIDE DEF at
  <2>4. InjectionTyped'  BY <2>1, <2>2, <2>3 DEF InjectionTyped
  <2> QED  BY <2>1, <2>3, <2>4 DEF InjectionTyped
<1>2. \E call : request' = call /\ Fits(at, call)
  <2>1. CASE injection.who = "pool"
    <3>1. request' = AddDirect(payload)  BY <2>1, Zenon DEF Begin
    <3> QED  BY <2>1, <3>1, EncodesOrNot DEF Fits, Resting, Removing
  <2>2. CASE injection.who = "finder"
    <3>1. request' = Call("remove", "child", "new")
      <4>1. injection.who # "pool"  BY <2>2
      <4> QED  BY <2>2, <4>1, Zenon DEF Begin
    <3> QED  BY <2>2, <3>1 DEF Fits, Resting, Removing, Removals
  <2>3. CASE injection.who \notin {"pool", "finder"}
    <3>1. request' = Call("remove", "grpc", "new")
      <4>1. injection.who # "pool" /\ injection.who # "finder"  BY <2>3
      <4> QED  BY <4>1, Zenon DEF Begin
    <3> QED  BY <2>3, <3>1 DEF Fits, Resting, Removing, Removals
  <2> QED  BY <2>1, <2>2, <2>3
<1>3. /\ wire' = NoWire /\ xray' = xray /\ faults' = faults /\ abandoned' = abandoned
      /\ injections' \in 0 .. MaxInjections /\ faults' \in 0 .. MaxBreaks
      /\ AbandonedTyped'
  BY ControlAssumption DEF Begin, CallInv, CallTyped, AbandonedTyped
<1>4. faults' = 0 => /\ abandoned'.pending = {}
                     /\ xray.up /\ at \notin {"undoing", "failed", "leaving"}
                     /\ at \in {"idle", "adding", "falling"} => xray.holds = NoOutbound
  BY <1>3 DEF CallInv, Unbroken, Begin
<1>5. at \in Place /\ at # "held"  BY DEF Place, Removing
<1>6. xray.run <= xray.run  BY DEF CallInv, CallTyped, XrayTyped
<1> HIDE DEF at
<1> QED  BY <1>1, <1>2, <1>3, <1>4, <1>5, <1>6, TurnKeeps

\* A caller is done.
LEMMA ReleaseKeeps ==
  ASSUME CallInv, Release
  PROVE  CallInv'
<1>1. PICK via \in {"child", "grpc"} : Goes("releasing", Call("remove", via, "new"))
  BY DEF Release
<1> DEFINE call == Call("remove", via, "new")
<1>2. call # NoCall /\ Fits("releasing", call)
  BY DEF Call, NoCall, Fits, Resting, Removing, Removals
<1>3. injection' = [injection EXCEPT !.at = "releasing", !.run = xray.run]
      /\ request' = call /\ wire' = NoWire
  BY <1>1, <1>2 DEF Goes
<1>4. xray.run \in Nat /\ InjectionTyped /\ xray.run <= xray.run
  BY DEF CallInv, CallTyped, XrayTyped
<1>5. /\ InjectionTyped' /\ injection'.at = "releasing" /\ injection'.run = xray.run
  BY <1>3, <1>4 DEF InjectionTyped
<1>9. injection'.want \in Outbound
  BY <1>3, <1>4 DEF Release, CallInv, CallMatches, InjectionTyped
<1>6. /\ xray' = xray /\ faults' = faults /\ abandoned' = abandoned
      /\ injections' \in 0 .. MaxInjections /\ faults' \in 0 .. MaxBreaks
      /\ AbandonedTyped'
  BY DEF Release, CallInv, CallTyped, AbandonedTyped
<1>7. faults' = 0 => xray.up /\ abandoned'.pending = {}
  BY <1>6 DEF CallInv, Unbroken
<1>8. "releasing" \in Place  BY DEF Place, Removing
<1> HIDE DEF call
<1> QED  BY <1>2, <1>3, <1>4, <1>5, <1>6, <1>7, <1>8, <1>9, TurnKeeps

\* A request that is given up has an operation and an outbound.
LEMMA GivingRequestUp ==
  ASSUME CallInv, request # NoCall, GivesRequestUp
  PROVE  AbandonedTyped' /\ abandoned'.undone = abandoned.undone
<1>1. request.op \in {"add", "remove"} /\ injection.want \in Outbound
  BY DEF CallInv, CallMatches, CallTyped, InjectionTyped, RequestTyped
<1>2. AbandonedTyped  BY DEF CallInv, CallTyped
<1> QED  BY <1>1, <1>2 DEF GivesRequestUp, AbandonedTyped

\* What cannot be encoded is handed to the child.
LEMMA RejectedKeeps ==
  ASSUME CallInv, Rejected
  PROVE  CallInv'
<1>1. request # NoCall /\ request.via = "none" /\ injection.at = "adding" /\ request.op = "add"
  BY DEF Rejected, CallInv, CallMatches, CallTyped, RequestTyped, NoCall, Call
<1>2. faults = 0 => xray.up /\ xray.holds = NoOutbound
  BY <1>1 DEF Rejected, CallInv, Unbroken
<1>3. /\ Answered(FALSE, FALSE) /\ xray' = xray /\ injections' = injections /\ faults' = faults
      /\ faults' \in 0 .. MaxBreaks /\ AbandonedTyped' /\ abandoned' = abandoned
      /\ faults' = 0 => abandoned'.pending = {}
  BY DEF Rejected, CallInv, CallTyped, AbandonedTyped, Unbroken
<1> QED  BY <1>1, <1>2, <1>3, AnswerKeeps

\* A failed answer is no success, and has a cause.
LEMMA FailureKeeps ==
  ASSUME CallInv, request # NoCall, NEW transient, Answered(FALSE, transient),
         xray' = xray, injections' = injections, faults' \in 0 .. MaxBreaks, faults' # 0,
         AbandonedTyped', abandoned'.undone = abandoned.undone
  PROVE  CallInv'
BY AnswerKeeps

\* A connection comes about or not.
LEMMA ConnectKeeps ==
  ASSUME CallInv, grpcConnect
  PROVE  CallInv'
<1>1. request # NoCall /\ request.via = "grpc" /\ request.at = "new"
  BY DEF grpcConnect, Via, NoCall, Call
<1>2. CASE ~xray.up
  <2>1. /\ Answered(FALSE, TRUE) /\ xray' = xray /\ injections' = injections
        /\ faults' = faults /\ AbandonedTyped' /\ abandoned' = abandoned
    BY <1>2 DEF grpcConnect, CallInv, CallTyped, AbandonedTyped
  <2>2. faults # 0 /\ faults \in 0 .. MaxBreaks
    BY <1>2 DEF CallInv, Unbroken, CallTyped
  <2> QED  BY <1>1, <2>1, <2>2, FailureKeeps
<1>3. CASE xray.up
  <2>1. /\ request' = [request EXCEPT !.at = "connected"]
        /\ UNCHANGED <<xray, injection, wire, abandoned, injections, faults>>
    BY <1>3 DEF grpcConnect
  <2> QED
    BY <1>1, <2>1
    DEF CallInv, CallTyped, XrayTyped, InjectionTyped, RequestTyped, WireTyped, AbandonedTyped,
        CallMatches, DoneIsTrue, Fulfilled, Inbox, Unbroken, NoCall, Call
<1> QED  BY <1>2, <1>3

\* A request goes out.
LEMMA SendKeeps ==
  ASSUME CallInv, SendRequest
  PROVE  CallInv'
BY DEF SendRequest, Via, CallInv, CallTyped, XrayTyped, InjectionTyped, RequestTyped,
       WireTyped, AbandonedTyped, CallMatches, DoneIsTrue, Fulfilled, Inbox, Unbroken, NoCall,
       Call

\* A request does not go out.
LEMMA SendFailsKeeps ==
  ASSUME CallInv, SendFails
  PROVE  CallInv'
<1>1. request # NoCall  BY DEF SendFails, Via, NoCall, Call
<1>2. /\ faults # 0 /\ faults \in 0 .. MaxBreaks
      /\ AbandonedTyped' /\ abandoned' = abandoned
  BY DEF SendFails, CallInv, Unbroken, CallTyped, AbandonedTyped
<1> QED  BY <1>1, <1>2, FailureKeeps DEF SendFails

\* No answer comes in.
LEMMA RecvFailsKeeps ==
  ASSUME CallInv, RecvFails
  PROVE  CallInv'
<1>1. request # NoCall  BY DEF RecvFails, NoCall, Call
<1>2. faults' # 0 /\ faults' \in 0 .. MaxBreaks
  BY ControlAssumption DEF RecvFails, CallInv, Unbroken, CallTyped
<1>3. AbandonedTyped' /\ abandoned'.undone = abandoned.undone
  <2>1. abandoned' = abandoned \/ GivesRequestUp  BY DEF RecvFails
  <2>2. CASE abandoned' = abandoned  BY <2>2 DEF CallInv, CallTyped, AbandonedTyped
  <2> QED  BY <1>1, <2>1, <2>2, GivingRequestUp
<1> QED  BY <1>1, <1>2, <1>3, FailureKeeps DEF RecvFails

\* The child ends without an instance.
LEMMA ChildLostKeeps ==
  ASSUME CallInv, ChildLost
  PROVE  CallInv'
<1>1. request # NoCall  BY DEF ChildLost, NoCall, Call
<1>2. faults' # 0 /\ faults' \in 0 .. MaxBreaks
  BY ControlAssumption DEF ChildLost, CallInv, CallTyped
<1>3. AbandonedTyped' /\ abandoned'.undone = abandoned.undone
  <2>1. abandoned' = abandoned \/ GivesRequestUp  BY DEF ChildLost
  <2>2. CASE abandoned' = abandoned  BY <2>2 DEF CallInv, CallTyped, AbandonedTyped
  <2> QED  BY <1>1, <2>1, <2>2, GivingRequestUp
<1> QED  BY <1>1, <1>2, <1>3, FailureKeeps DEF ChildLost

\* The child reports what it did.
LEMMA ChildExitsKeeps ==
  ASSUME CallInv, ChildExits
  PROVE  CallInv'
<1>1. /\ request # NoCall /\ request.via = "child" /\ request.at \in {"first", "second"}
      /\ xray' = xray /\ injections' = injections /\ faults' = faults
      /\ faults' \in 0 .. MaxBreaks /\ AbandonedTyped' /\ abandoned' = abandoned
      /\ faults' = 0 => abandoned'.pending = {}
  BY DEF ChildExits, NoCall, Call, CallInv, CallTyped, AbandonedTyped, Unbroken
<1>2. CASE /\ request.op = "add" /\ request.at = "first" /\ request.reply # "done"
           /\ request' = [request EXCEPT !.at = "again", !.reply = "none"]
           /\ UNCHANGED <<injection, wire>>
  <2>1. faults # 0  BY <1>1, <1>2 DEF CallInv, Unbroken
  <2>2. CallTyped'
    BY <1>1, <1>2
    DEF CallInv, CallTyped, XrayTyped, InjectionTyped, RequestTyped, WireTyped, NoCall, Call
  <2>3. CallMatches'
    BY <1>1, <1>2
    DEF CallInv, CallTyped, RequestTyped, CallMatches, Inbox, NoCall, Call
  <2>4. DoneIsTrue'
    BY <1>1, <1>2
    DEF CallInv, CallTyped, RequestTyped, DoneIsTrue, Fulfilled, NoCall, Call, Inbox
  <2>5. faults' = 0 => Unbroken'  BY <1>1, <2>1
  <2> QED  BY <2>2, <2>3, <2>4, <2>5 DEF CallInv
<1>3. CASE Answered(request.reply = "done", FALSE)
  <2>1. CASE request.reply = "done"
    <3>1. Answered(TRUE, FALSE)
      <4>1. (request.reply = "done") = TRUE  BY <2>1
      <4> QED  BY <1>3, <4>1, Zenon
    <3>2. injection.at \in {"adding", "falling"} => Fulfilled
      BY <2>1 DEF CallInv, CallMatches, DoneIsTrue
    <3>3. faults' = 0 =>
            /\ xray.up
            /\ injection.at \in {"clearing", "releasing"} => xray.holds = NoOutbound
            /\ injection.at # "undoing"
      BY <1>1 DEF CallInv, CallMatches, Unbroken
    <3> QED  BY <1>1, <3>1, <3>2, <3>3, AnswerKeeps
  <2>2. CASE request.reply # "done"
    <3>1. Answered(FALSE, FALSE)
      <4>1. (request.reply = "done") = FALSE  BY <2>2
      <4> QED  BY <1>3, <4>1, Zenon
    <3>2. faults' # 0  BY <1>1, <2>2 DEF CallInv, Unbroken
    <3> QED  BY <1>1, <3>1, <3>2, FailureKeeps
  <2> QED  BY <2>1, <2>2
<1> QED  BY <1>2, <1>3 DEF ChildExits

\* The kinds of frames differ.
LEMMA FramesDiffer ==
  /\ ~SettingsFrame.end /\ ~HeadersFrame.end /\ ~DataFrame.end
  /\ DoneFrame.end /\ RefusedFrame.end /\ DoneFrame # RefusedFrame
<1>1. /\ ~SettingsFrame.end /\ ~HeadersFrame.end /\ ~DataFrame.end
      /\ DoneFrame.end /\ RefusedFrame.end
  BY DEF SettingsFrame, HeadersFrame, DataFrame, DoneFrame, RefusedFrame, Frame
<1>2. DoneFrame # RefusedFrame
  <2>1. Status(decodeHpack(DoneFrame.block).headers, "none") = "0"  BY FramesSay
  <2>2. Status(decodeHpack(RefusedFrame.block).headers, "none") = "2"  BY FramesSay
  <2> QED  BY <2>1, <2>2
<1> QED  BY <1>1, <1>2

\* What an instance does with an operation that reaches it.
LEMMA CarriedByXray ==
  ASSUME CallInv, request # NoCall, xray.up, Carried(request.op)
  PROVE  /\ XrayTyped' /\ xray'.up /\ xray'.run = xray.run
         /\ request.op \in {"add", "remove"}
         /\ request.op = "add" /\ ~Refuses(request.op) => xray'.holds = injection.want
         /\ request.op = "remove" => xray'.holds = NoOutbound /\ ~Refuses(request.op)
         /\ request.op = "add" /\ xray.holds = NoOutbound => ~Refuses(request.op)
         /\ AbandonedTyped' /\ abandoned'.pending = abandoned.pending
<1>1. request.op \in {"add", "remove"} /\ (request.op = "add" => injection.want \in Outbound)
  BY DEF CallInv, CallMatches, CallTyped, InjectionTyped
<1>2. XrayTyped /\ AbandonedTyped  BY DEF CallInv, CallTyped
<1> QED  BY <1>1, <1>2 DEF Carried, Refuses, XrayTyped, AbandonedTyped

\* The instance carries out what it was sent.
LEMMA ServeKeeps ==
  ASSUME CallInv, Serve
  PROVE  CallInv'
<1>1. /\ request # NoCall /\ request.via = "grpc" /\ request.at = "sent" /\ xray.up
      /\ Carried(request.op)
      /\ request' = [request EXCEPT !.at = "reading"]
      /\ wire' = [wire EXCEPT !.inbox = Reply(request.op)]
      /\ UNCHANGED <<injection, injections, faults>>
  BY DEF Serve, NoCall, Call
<1>2. /\ XrayTyped' /\ xray'.up /\ xray'.run = xray.run
      /\ request.op \in {"add", "remove"}
      /\ request.op = "add" /\ ~Refuses(request.op) => xray'.holds = injection.want
      /\ request.op = "remove" => xray'.holds = NoOutbound /\ ~Refuses(request.op)
      /\ request.op = "add" /\ xray.holds = NoOutbound => ~Refuses(request.op)
      /\ AbandonedTyped' /\ abandoned'.pending = abandoned.pending
  BY <1>1, CarriedByXray
<1> DEFINE reply == Reply(request.op)
<1>3. /\ reply \in Seq(ReplyFrame)
      /\ Refuses(request.op) => reply = <<SettingsFrame, RefusedFrame>>
      /\ ~Refuses(request.op) =>
           reply = <<SettingsFrame, HeadersFrame, DataFrame, DoneFrame>>
  <2>1. /\ <<SettingsFrame, RefusedFrame>> \in Seq(ReplyFrame)
        /\ <<SettingsFrame, HeadersFrame, DataFrame, DoneFrame>> \in Seq(ReplyFrame)
    BY DEF ReplyFrame
  <2> QED  BY <2>1, ReplyFrames
<1>4. {reply[i] : i \in DOMAIN reply} =
        IF Refuses(request.op) THEN {SettingsFrame, RefusedFrame}
        ELSE {SettingsFrame, HeadersFrame, DataFrame, DoneFrame}
  BY <1>3
<1>5. Inbox' = {reply[i] : i \in DOMAIN reply}
  BY <1>1 DEF Inbox, CallInv, CallTyped, WireTyped
<1> HIDE DEF reply
<1>6. /\ DoneFrame \in Inbox' => ~Refuses(request.op)
      /\ RefusedFrame \in Inbox' => Refuses(request.op)
  BY <1>4, <1>5, FramesDiffer
<1>7. WireTyped' /\ wire'.cut = wire.cut
  BY <1>1, <1>3 DEF CallInv, CallTyped, WireTyped, reply
<1>8. CallTyped'
  BY <1>1, <1>2, <1>7 DEF CallInv, CallTyped, InjectionTyped, RequestTyped
<1>9. CallMatches'
  BY <1>1 DEF CallInv, CallTyped, RequestTyped, CallMatches, NoCall, Call
<1>10. DoneIsTrue'
  BY <1>1, <1>2, <1>6 DEF CallInv, CallTyped, RequestTyped, CallMatches, DoneIsTrue, Fulfilled
<1>11. ASSUME faults' = 0  PROVE Unbroken'
  <2>1. Unbroken  BY <1>1, <1>11 DEF CallInv
  <2>2. ~Refuses(request.op)  BY <1>1, <1>2, <2>1 DEF Unbroken
  <2> QED
    BY <1>1, <1>2, <1>6, <1>7, <2>1, <2>2
    DEF CallInv, CallTyped, RequestTyped, CallMatches, Unbroken, NoCall, Call
<1> QED  BY <1>8, <1>9, <1>10, <1>11 DEF CallInv

\* The child puts the outbound in or finds it there.
LEMMA ChildCallsKeeps ==
  ASSUME CallInv, ChildCalls
  PROVE  CallInv'
<1> DEFINE then == IF request.at = "new" THEN "first" ELSE "second"
           reply == IF ~xray.up THEN "unreachable"
                    ELSE IF Refuses(request.op) THEN "refused" ELSE "done"
<1>1. /\ request # NoCall /\ request.via = "child" /\ request.at \in {"new", "again"}
      /\ UNCHANGED <<injection, wire, injections, faults>>
  BY DEF ChildCalls, NoCall, Call
<1>2. request' = [request EXCEPT !.reply = reply, !.at = then]
  BY <1>1 DEF ChildCalls, CallInv, CallTyped, RequestTyped
<1>3. reply \in {"unreachable", "refused", "done"} /\ then \in {"first", "second"}
  OBVIOUS
<1>4. CASE ~xray.up
  <2>1. xray' = xray /\ reply = "unreachable" /\ AbandonedTyped' /\ abandoned' = abandoned
    BY <1>4 DEF ChildCalls, CallInv, CallTyped, AbandonedTyped
  <2>2. faults # 0  BY <1>4 DEF CallInv, Unbroken
  <2> HIDE DEF reply, then
  <2>3. CallTyped'
    <3>1. XrayTyped' /\ InjectionTyped' /\ WireTyped'
      BY <1>1, <2>1 DEF CallInv, CallTyped, XrayTyped, InjectionTyped, WireTyped
    <3>2. RequestTyped'
      BY <1>2, <1>3 DEF CallInv, CallTyped, RequestTyped
    <3> QED  BY <1>1, <2>1, <3>1, <3>2 DEF CallInv, CallTyped
  <2>4. CallMatches'
    BY <1>1, <1>2, <1>3 DEF CallInv, CallTyped, RequestTyped, CallMatches, NoCall, Call
  <2>5. request'.op = request.op /\ request'.reply # "done"
    BY <1>1, <1>2, <2>1 DEF CallInv, CallTyped, RequestTyped
  <2>6. DoneIsTrue'
    BY <1>1, <2>1, <2>5 DEF CallInv, DoneIsTrue, Fulfilled, Inbox
  <2> QED  BY <1>1, <2>2, <2>3, <2>4, <2>6 DEF CallInv
<1>5. CASE xray.up
  <2>1. Carried(request.op)  BY <1>5 DEF ChildCalls
  <2>2. /\ XrayTyped' /\ xray'.up /\ xray'.run = xray.run
        /\ request.op \in {"add", "remove"}
        /\ request.op = "add" /\ ~Refuses(request.op) => xray'.holds = injection.want
        /\ request.op = "remove" => xray'.holds = NoOutbound /\ ~Refuses(request.op)
        /\ request.op = "add" /\ xray.holds = NoOutbound => ~Refuses(request.op)
        /\ AbandonedTyped' /\ abandoned'.pending = abandoned.pending
    BY <1>1, <1>5, <2>1, CarriedByXray
  <2>3. reply = "done" <=> ~Refuses(request.op)  BY <1>5
  <2> HIDE DEF reply, then
  <2>4. CallTyped'
    BY <1>1, <1>2, <1>3, <2>2 DEF CallInv, CallTyped, InjectionTyped, RequestTyped, WireTyped
  <2>5. CallMatches'
    BY <1>1, <1>2, <1>3 DEF CallInv, CallTyped, RequestTyped, CallMatches, NoCall, Call
  <2>6. DoneIsTrue'
    BY <1>1, <1>2, <1>3, <2>2, <2>3
    DEF CallInv, CallTyped, RequestTyped, CallMatches, DoneIsTrue, Fulfilled, Inbox, NoWire
  <2>7. ASSUME faults' = 0  PROVE Unbroken'
    BY <1>1, <1>2, <1>3, <2>2, <2>3, <2>7
    DEF CallInv, CallTyped, RequestTyped, CallMatches, Unbroken, Inbox, NoCall, Call
  <2> QED  BY <2>4, <2>5, <2>6, <2>7 DEF CallInv
<1> QED  BY <1>4, <1>5

\* An answer is read.
LEMMA ReadKeeps ==
  ASSUME CallInv, ReadFrame
  PROVE  CallInv'
<1> DEFINE frame == Head(wire.inbox)
           block == decodeHpack(frame.block)
           status == Status(block.headers, request.reply)
<1>1. /\ request # NoCall /\ request.via = "grpc" /\ request.at = "reading"
      /\ wire.inbox # <<>> /\ wire.inbox \in Seq(ReplyFrame)
      /\ UNCHANGED <<xray, abandoned, injections, faults>>
      /\ faults' \in 0 .. MaxBreaks /\ AbandonedTyped'
      /\ faults' = 0 => abandoned'.pending = {}
  BY DEF ReadFrame, NoCall, Call, CallInv, CallTyped, WireTyped, CallMatches, AbandonedTyped,
         Unbroken
<1>2. frame \in ReplyFrame /\ frame \in Inbox /\ block.ok
  <2>1. frame = wire.inbox[1] /\ 1 \in DOMAIN wire.inbox  BY <1>1
  <2>2. frame \in ReplyFrame /\ frame \in Inbox  BY <1>1, <2>1 DEF Inbox
  <2> QED  BY <2>2, FramesDecode
<1>3. \/ frame.end /\ Answered(status \in {"none", "0"}, FALSE)
      \/ ~frame.end /\ wire.cut /\ Answered(FALSE, FALSE)
      \/ ~frame.end /\ wire' = [wire EXCEPT !.inbox = Tail(@)]
         /\ UNCHANGED <<injection, request>>
      \/ ~frame.end /\ wire' = [wire EXCEPT !.inbox = Tail(@)] /\ UNCHANGED injection
         /\ request' = [request EXCEPT !.reply = status]
  BY <1>2, Zenon DEF ReadFrame
<1>4. CASE frame.end
  <2>1. frame \in {DoneFrame, RefusedFrame}
    BY <1>2, <1>4, FramesDiffer DEF ReplyFrame
  <2>2. Answered(status \in {"none", "0"}, FALSE)  BY <1>3, <1>4, Zenon
  <2>3. CASE frame = DoneFrame
    <3>1. status = "0"  BY <2>3, FramesSay
    <3>2. (status \in {"none", "0"}) = TRUE  BY <3>1
    <3> HIDE DEF status
    <3>3. Answered(TRUE, FALSE)  BY <2>2, <3>2, Zenon
    <3>4. injection.at \in {"adding", "falling"} => Fulfilled
      BY <1>2, <2>3 DEF CallInv, CallMatches, DoneIsTrue
    <3>5. faults' = 0 =>
            /\ xray.up
            /\ injection.at \in {"clearing", "releasing"} => xray.holds = NoOutbound
            /\ injection.at # "undoing"
      BY <1>1 DEF CallInv, CallMatches, Unbroken
    <3> QED  BY <1>1, <3>3, <3>4, <3>5, AnswerKeeps
  <2>4. CASE frame = RefusedFrame
    <3>1. status = "2"  BY <2>4, FramesSay
    <3>2. (status \in {"none", "0"}) = FALSE  BY <3>1
    <3> HIDE DEF status
    <3>3. Answered(FALSE, FALSE)  BY <2>2, <3>2, Zenon
    <3>4. faults' # 0  BY <1>1, <1>2, <2>4 DEF CallInv, Unbroken
    <3> QED  BY <1>1, <3>3, <3>4, FailureKeeps
  <2> QED  BY <2>1, <2>3, <2>4
<1>5. CASE ~frame.end /\ wire.cut /\ Answered(FALSE, FALSE)
  <2>1. faults' # 0  BY <1>1, <1>5 DEF CallInv, Unbroken
  <2> QED  BY <1>1, <1>5, <2>1, FailureKeeps
<1>6. CASE ~frame.end /\ wire' = [wire EXCEPT !.inbox = Tail(@)] /\ UNCHANGED injection
           /\ (request' = request \/ request' = [request EXCEPT !.reply = status])
  <2>1. frame \in {SettingsFrame, HeadersFrame, DataFrame}
    BY <1>2, <1>6, FramesDiffer DEF ReplyFrame
  <2>2. status = request.reply  BY <2>1, FramesSay
  <2> HIDE DEF status
  <2>3. request' = request  BY <1>6, <2>2 DEF CallInv, CallTyped, RequestTyped
  <2>4. WireTyped' /\ wire'.cut = wire.cut /\ wire'.inbox = Tail(wire.inbox)
    <3> DEFINE rest == Tail(wire.inbox)
    <3>1. rest \in Seq(ReplyFrame)  BY <1>1
    <3>2. WireTyped  BY DEF CallInv, CallTyped
    <3> HIDE DEF rest
    <3>3. wire' = [wire EXCEPT !.inbox = rest]  BY <1>6 DEF rest
    <3>4. WireTyped' /\ wire'.cut = wire.cut /\ wire'.inbox = rest
      BY <3>1, <3>2, <3>3 DEF WireTyped
    <3> QED  BY <3>4 DEF rest
  <2>5. Inbox' \subseteq Inbox
    <3>1. \A i \in DOMAIN Tail(wire.inbox) :
            i + 1 \in DOMAIN wire.inbox /\ Tail(wire.inbox)[i] = wire.inbox[i + 1]
      BY <1>1
    <3> QED  BY <2>4, <3>1 DEF Inbox
  <2>6. CallTyped'
    BY <1>1, <1>6, <2>3, <2>4
    DEF CallInv, CallTyped, XrayTyped, InjectionTyped, RequestTyped
  <2>7. CallMatches'
    BY <1>1, <1>6, <2>3 DEF CallInv, CallMatches, NoCall, Call
  <2>8. DoneIsTrue'
    BY <1>1, <1>6, <2>3, <2>5 DEF CallInv, DoneIsTrue, Fulfilled
  <2>9. ASSUME faults' = 0  PROVE Unbroken'
    BY <1>1, <1>6, <2>3, <2>4, <2>5, <2>9 DEF CallInv, Unbroken
  <2> QED  BY <2>6, <2>7, <2>8, <2>9 DEF CallInv
<1> HIDE DEF frame, status
<1> QED  BY <1>3, <1>4, <1>5, <1>6

\* The instance dies with what it holds.
LEMMA DiesKeeps ==
  ASSUME CallInv, XrayDies
  PROVE  CallInv'
<1>1. /\ xray' = [xray EXCEPT !.up = FALSE, !.holds = NoOutbound]
      /\ faults' = faults + 1 /\ faults' \in 0 .. MaxBreaks /\ faults' # 0
      /\ UNCHANGED <<injection, request, injections>> /\ AbandonedTyped'
  BY ControlAssumption DEF XrayDies, CallInv, CallTyped, AbandonedTyped, NoneAbandoned
<1>2. /\ XrayTyped' /\ ~xray'.up /\ xray'.run = xray.run
  BY <1>1 DEF CallInv, CallTyped, XrayTyped
<1>3. /\ WireTyped' /\ Inbox' \subseteq Inbox /\ (wire = NoWire => wire'.inbox = <<>>)
      /\ (wire.inbox = <<>> => wire'.inbox = <<>>)
      /\ (request.via # "grpc" \/ request.at = "new" => wire' = wire)
  <2>1. CASE wire' = wire
    BY <2>1 DEF CallInv, CallTyped, WireTyped, Inbox, NoWire
  <2>2. CASE wire' # wire
    <3>1. PICK n \in 0 .. Len(wire.inbox) :
            wire' = [inbox |-> SubSeq(wire.inbox, 1, n), cut |-> TRUE]
      BY <2>2 DEF XrayDies
    <3>2. wire.inbox \in Seq(ReplyFrame)  BY DEF CallInv, CallTyped, WireTyped
    <3> DEFINE left == SubSeq(wire.inbox, 1, n)
    <3>3. /\ left \in Seq(ReplyFrame) /\ DOMAIN left = 1 .. n
          /\ \A i \in 1 .. n : left[i] = wire.inbox[i] /\ i \in DOMAIN wire.inbox
      BY <3>2
    <3>4. wire.inbox = <<>> => left = <<>>  BY <3>1, <3>2, <3>3
    <3> HIDE DEF left
    <3>5. wire'.inbox = left  BY <3>1 DEF left
    <3>6. WireTyped'  BY <3>1, <3>3 DEF WireTyped, left
    <3>7. Inbox' \subseteq Inbox  BY <3>3, <3>5 DEF Inbox
    <3>8. wire = NoWire => wire'.inbox = <<>>  BY <3>4, <3>5 DEF NoWire
    <3>9. ~(request.via # "grpc" \/ request.at = "new")  BY <2>2 DEF XrayDies
    <3> QED  BY <3>4, <3>5, <3>6, <3>7, <3>8, <3>9
  <2> QED  BY <2>1, <2>2
<1>4. CallTyped'
  BY <1>1, <1>2, <1>3 DEF CallInv, CallTyped, InjectionTyped, RequestTyped
<1>5. CallMatches'
  BY <1>1, <1>3 DEF CallInv, CallMatches, NoCall, Call
<1>6. DoneIsTrue'
  BY <1>1, <1>2, <1>3 DEF CallInv, DoneIsTrue, Fulfilled
<1> QED  BY <1>1, <1>4, <1>5, <1>6 DEF CallInv

\* An instance starts.
LEMMA StartsKeeps ==
  ASSUME CallInv, XrayStarts
  PROVE  CallInv'
<1>1. faults # 0  BY DEF XrayStarts, CallInv, Unbroken
<1>2. xray.run \in Nat /\ injection.run \in Nat /\ injection.run <= xray.run
  BY DEF CallInv, CallTyped, XrayTyped, InjectionTyped, DoneIsTrue
<1>3. /\ UNCHANGED <<injection, request, wire, abandoned, injections, faults>>
      /\ xray' = [up |-> TRUE, holds |-> NoOutbound, run |-> xray.run + 1]
  BY DEF XrayStarts
<1>4. xray'.run # injection.run /\ injection.run <= xray'.run /\ XrayTyped'
  BY <1>2, <1>3 DEF XrayTyped
<1> QED
  BY <1>1, <1>3, <1>4
  DEF CallInv, CallTyped, InjectionTyped, RequestTyped, WireTyped, AbandonedTyped, CallMatches,
      DoneIsTrue, Fulfilled, Inbox

\* A request given up is carried out: an addition finds the tag taken by what the caller
\* was told is there.
LEMMA LateKeeps ==
  ASSUME CallInv, NEW r \in abandoned.pending, CarriedLate(r)
  PROVE  CallInv'
<1>1. faults # 0  BY DEF CallInv, Unbroken
<1>2. /\ xray.up /\ r.op \in {"add", "remove"} /\ r.want \in Outbound
      /\ abandoned' = [pending |-> abandoned.pending \ {r},
                       undone |-> abandoned.undone \/ r.op = "remove"]
      /\ UNCHANGED <<injection, request, wire, injections, faults>>
  BY DEF CarriedLate, CallInv, CallTyped, AbandonedTyped
<1>3. AbandonedTyped'
  BY <1>2 DEF CallInv, CallTyped, AbandonedTyped
<1>4. /\ XrayTyped' /\ xray'.up /\ xray'.run = xray.run
      /\ r.op = "add" /\ xray.holds # NoOutbound => xray' = xray
  BY <1>2 DEF CarriedLate, Refuses, CallInv, CallTyped, XrayTyped
<1>5. ASSUME Fulfilled, injection.want \in Outbound  PROVE Fulfilled'
  <2>1. CASE r.op = "remove"  BY <1>2, <2>1 DEF Fulfilled
  <2>2. CASE r.op = "add"
    BY <1>2, <1>4, <1>5, <2>2, ControlAssumption DEF Fulfilled
  <2> QED  BY <1>2, <2>1, <2>2
<1>6. DoneIsTrue'
  <2>1. injection.at = "held" \/ request.op = "add" => injection.want \in Outbound
    BY DEF CallInv, CallMatches, NoCall, Call
  <2>2. Inbox' = Inbox  BY <1>2 DEF Inbox
  <2> QED  BY <1>2, <1>4, <1>5, <2>1, <2>2 DEF CallInv, DoneIsTrue
<1>7. CallTyped' /\ CallMatches'
  BY <1>2, <1>3, <1>4
  DEF CallInv, CallTyped, InjectionTyped, RequestTyped, WireTyped, CallMatches
<1> QED  BY <1>1, <1>2, <1>6, <1>7 DEF CallInv

\* Every step keeps the invariant.
LEMMA CallStep ==
  ASSUME CallInv, [CallNext]_callVars
  PROVE  CallInv'
<1>1. CASE UNCHANGED callVars
  BY <1>1
  DEF callVars, CallInv, CallTyped, XrayTyped, InjectionTyped, RequestTyped, WireTyped,
      AbandonedTyped, CallMatches, DoneIsTrue, Fulfilled, Inbox, Unbroken
<1>2. CASE \E want \in Outbound, payload \in Payload : Begin(want, payload)
  BY <1>2, BeginKeeps
<1>3. CASE Release  BY <1>3, ReleaseKeeps
<1>4. CASE CallProceeds
  BY <1>4, RejectedKeeps, ConnectKeeps, SendKeeps, SendFailsKeeps, ServeKeeps, ReadKeeps,
     RecvFailsKeeps, ChildCallsKeeps, ChildExitsKeeps, ChildLostKeeps
  DEF CallProceeds
<1>5. CASE XrayDies  BY <1>5, DiesKeeps
<1>6. CASE XrayStarts  BY <1>6, StartsKeeps
<1>7. CASE \E r \in abandoned.pending : CarriedLate(r)  BY <1>7, LateKeeps
<1> QED  BY <1>1, <1>2, <1>3, <1>4, <1>5, <1>6, <1>7 DEF CallNext

\* The invariant of an injection holds throughout (xray::XrayApi).
THEOREM CallInvariant == CallSpec => []CallInv
<1>1. CallInit => CallInv  BY CallInitially
<1>2. CallInv /\ [CallNext]_callVars => CallInv'  BY CallStep
<1> QED  BY <1>1, <1>2, PTL DEF CallSpec

\* The records of an injection, of the connection and of the instance keep their types.
THEOREM CallTypeCorrect == CallSpec => []CallTypeOK
<1>1. CallInv => CallTypeOK
  BY DEF CallInv, CallTyped, XrayTyped, InjectionTyped, RequestTyped, AbandonedTyped,
         CallMatches, CallTypeOK
<1> QED  BY <1>1, CallInvariant, PTL

\* An injection that reports success has put its outbound in, and it stays there until
\* the instance dies or a removal that was given up is carried out; none fails while
\* nothing breaks (addOutboundDirect(), addOutbound() and the child).
THEOREM InjectionIsTrueAlways == CallSpec => []InjectionIsTrue
<1>1. CallInv => InjectionIsTrue
  BY DEF CallInv, DoneIsTrue, Fulfilled, Unbroken, InjectionIsTrue
<1> QED  BY <1>1, CallInvariant, PTL

(*************************** OutboundEncoding ***************************)

\* An outbound is either built, sent or left to the child, and what is built is an
\* encoding or none (ConfigBuilder, XrayApi::addOutboundDirect()).
THEOREM EncodingTypeCorrect == EncodingSpec => []EncodingTypeOK
<1>1. EncodingInit => EncodingTypeOK
  BY DEF EncodingInit, EncodingTypeOK
<1>2. EncodingTypeOK /\ [EncodingNext]_encodingVars => EncodingTypeOK'
  <2> SUFFICES ASSUME EncodingTypeOK, [EncodingNext]_encodingVars
               PROVE  EncodingTypeOK'
    OBVIOUS
  <2>1. CASE BuildOutbound
    <3>1. /\ subject' = subject /\ proto' = proto
          /\ stage = "profile" /\ stage' \in {"failed", "built"}
      BY <2>1 DEF BuildOutbound
    <3> QED  BY <3>1 DEF EncodingTypeOK
  <2>2. CASE addOutboundDirect
    <3>1. /\ subject' = subject
          /\ stage' = IF proto' = NoSettings THEN "child" ELSE "sent"
      BY <2>2 DEF addOutboundDirect
    <3>2. subject' \in Profiles'  BY <3>1 DEF EncodingTypeOK, Profiles
    <3> QED  BY <3>1, <3>2 DEF EncodingTypeOK
  <2>3. CASE UNCHANGED encodingVars
    BY <2>3 DEF encodingVars, EncodingTypeOK
  <2> QED  BY <2>1, <2>2, <2>3 DEF EncodingNext
<1> QED  BY <1>1, <1>2, PTL DEF EncodingSpec

-----------------------------------------------------------------------------
(* What the builders write and the encoder reads.                          *)

\* What ++ puts together: the settings of both, the front one's first.
LEMMA TwoTogether ==
  ASSUME NEW f, NEW g
  PROVE  /\ \A x : x \in DOMAIN (f ++ g) <=> x \in DOMAIN f \/ x \in DOMAIN g
         /\ \A x \in DOMAIN f : (f ++ g)[x] = f[x]
         /\ \A x \in DOMAIN g \ DOMAIN f : (f ++ g)[x] = g[x]
<1> DEFINE pair == [front |-> f, back |-> g]
<1>1. f ++ g = Joint(pair)  BY DEF ++
<1>2. pair.front = f /\ pair.back = g  OBVIOUS
<1> HIDE DEF pair
<1>3. /\ \A x : x \in DOMAIN Joint(pair) <=> x \in DOMAIN f \/ x \in DOMAIN g
      /\ \A x \in DOMAIN f : Joint(pair)[x] = f[x]
      /\ \A x \in DOMAIN g \ DOMAIN f : Joint(pair)[x] = g[x]
  BY <1>2 DEF Joint
<1> QED  BY <1>1, <1>3

LEMMA Together ==
  /\ \A f, g, x : x \in DOMAIN (f ++ g) <=> x \in DOMAIN f \/ x \in DOMAIN g
  /\ \A f, g : \A x \in DOMAIN f : (f ++ g)[x] = f[x]
  /\ \A f, g : \A x \in DOMAIN g \ DOMAIN f : (f ++ g)[x] = g[x]
<1>1. ASSUME NEW f, NEW g, NEW x
      PROVE  x \in DOMAIN (f ++ g) <=> x \in DOMAIN f \/ x \in DOMAIN g
  BY TwoTogether
<1>2. ASSUME NEW f, NEW g, NEW x \in DOMAIN f  PROVE (f ++ g)[x] = f[x]
  BY TwoTogether
<1>3. ASSUME NEW f, NEW g, NEW x \in DOMAIN g \ DOMAIN f  PROVE (f ++ g)[x] = g[x]
  BY TwoTogether
<1> QED  BY <1>1, <1>2, <1>3, Zenon

LEMMA OneSetting ==
  /\ \A path, value, x : x \in DOMAIN Bind(path, value) <=> x = path
  /\ \A path, value : Bind(path, value)[path] = value
BY DEF Bind

\* The tables, row by row.
LEMMA AccountIdentityTable ==
  /\ \A x : x \in DOMAIN AccountIdentity <=>
          x \in {"address", "port", "users.id", "users.flow", "users.user", "users.pass", "user",
                 "pass"}
  /\ AccountIdentity["address"] = "address"
  /\ AccountIdentity["port"] = "port"
  /\ AccountIdentity["users.id"] = "account.id"
  /\ AccountIdentity["users.flow"] = "account.flow"
  /\ AccountIdentity["users.user"] = "account.username"
  /\ AccountIdentity["users.pass"] = "account.password"
  /\ AccountIdentity["user"] = "account.username"
  /\ AccountIdentity["pass"] = "account.password"
BY Together, OneSetting DEF AccountIdentity

LEMMA SecurityIdentityTable ==
  /\ \A x : x \in DOMAIN SecurityIdentity <=>
          x \in {"security", "tlsSettings.allowInsecure", "tlsSettings.serverName",
                 "tlsSettings.alpn", "tlsSettings.fingerprint", "realitySettings.serverName",
                 "realitySettings.publicKey", "realitySettings.shortId",
                 "realitySettings.fingerprint"}
  /\ SecurityIdentity["security"] = "security_type"
  /\ SecurityIdentity["tlsSettings.allowInsecure"] = "tls.allow_insecure"
  /\ SecurityIdentity["tlsSettings.serverName"] = "tls.server_name"
  /\ SecurityIdentity["tlsSettings.alpn"] = "tls.next_protocol"
  /\ SecurityIdentity["tlsSettings.fingerprint"] = "tls.fingerprint"
  /\ SecurityIdentity["realitySettings.serverName"] = "reality.server_name"
  /\ SecurityIdentity["realitySettings.publicKey"] = "reality.public_key"
  /\ SecurityIdentity["realitySettings.shortId"] = "reality.short_id"
  /\ SecurityIdentity["realitySettings.fingerprint"] = "reality.fingerprint"
BY Together, OneSetting DEF SecurityIdentity

LEMMA TransportIdentityTable ==
  /\ \A x : x \in DOMAIN TransportIdentity <=>
          x \in {"wsSettings.path", "wsSettings.host", "grpcSettings.serviceName",
                 "xhttpSettings.path", "xhttpSettings.host", "xhttpSettings.mode"}
  /\ TransportIdentity["wsSettings.path"] = "ws.path"
  /\ TransportIdentity["wsSettings.host"] = "ws.host"
  /\ TransportIdentity["grpcSettings.serviceName"] = "grpc.service_name"
  /\ TransportIdentity["xhttpSettings.path"] = "splithttp.path"
  /\ TransportIdentity["xhttpSettings.host"] = "splithttp.host"
  /\ TransportIdentity["xhttpSettings.mode"] = "splithttp.mode"
BY Together, OneSetting DEF TransportIdentity

LEMMA ProtocolNameTable ==
  /\ \A x : x \in DOMAIN ProtocolName <=>
          x \in {"ws", "kcp", "grpc", "http", "tcp", "splithttp", "hysteria", "xhttp"}
  /\ ProtocolName["ws"] = "websocket"
  /\ ProtocolName["kcp"] = "mkcp"
  /\ ProtocolName["grpc"] = "grpc"
  /\ ProtocolName["http"] = "httpupgrade"
  /\ ProtocolName["tcp"] = "tcp"
  /\ ProtocolName["splithttp"] = "splithttp"
  /\ ProtocolName["hysteria"] = "hysteria"
  /\ ProtocolName["xhttp"] = "splithttp"
BY Together, OneSetting DEF ProtocolName

\* A table with one path to a field sends what it finds under it.
LEMMA Encoded ==
  ASSUME NEW table, NEW j,
         \A x, y \in DOMAIN table : table[x] = table[y] => x = y
  PROVE  /\ \A f : f \in DOMAIN Encode(table, j) <=>
              \E path \in DOMAIN table \cap DOMAIN j : f = table[path]
         /\ \A path \in DOMAIN table \cap DOMAIN j : Encode(table, j)[table[path]] = j[path]
BY DEF Encode

\* There is no setting in the empty document.
NothingSet == \A x : x \notin DOMAIN NoSettings

\* The settings of a stream, by what they belong to.
TlsPath == {"tlsSettings.allowInsecure", "tlsSettings.serverName", "tlsSettings.alpn",
            "tlsSettings.fingerprint", "tlsSettings.echConfigList", "tlsSettings.echForceQuery",
            "tlsSettings.disableSystemRoot", "tlsSettings.pinnedPeerCertSha256"}
RealityPath == {"realitySettings.publicKey", "realitySettings.serverName",
                "realitySettings.shortId", "realitySettings.spiderX", "realitySettings.fingerprint"}
GrpcPath == {"grpcSettings.serviceName", "grpcSettings.multiMode", "grpcSettings.idle_timeout",
             "grpcSettings.health_check_timeout"}
WsPath == {"wsSettings.path", "wsSettings.host", "wsSettings.headers"}
XhttpPath == {"xhttpSettings.path", "xhttpSettings.host", "xhttpSettings.mode"}
KcpPath == {"kcpSettings.mtu", "kcpSettings.tti", "kcpSettings.congestion",
            "kcpSettings.readBufferSize", "kcpSettings.writeBufferSize", "kcpSettings.header"}

LEMMA NoneSet == NothingSet
BY DEF NothingSet, NoSettings

\* What the builders can put into a document.
LEMMA TlsPaths ==
  ASSUME NEW p  PROVE \A x \in DOMAIN TlsJson(p) : x \in TlsPath
BY Together, OneSetting, NoneSet DEF TlsJson, Column, Key, TlsPath, NothingSet

LEMMA RealityPaths ==
  ASSUME NEW p
  PROVE  /\ \A x \in DOMAIN RealityJson(p) : x \in RealityPath
         /\ "realitySettings.shortId" \in DOMAIN RealityJson(p)
<1>1. \A x \in DOMAIN RealityJson(p) : x \in RealityPath
  BY Together, OneSetting, NoneSet DEF RealityJson, Column, Key, RealityPath, NothingSet
<1>2. "realitySettings.shortId" \in DOMAIN RealityJson(p)
  BY Together, OneSetting DEF RealityJson
<1> QED  BY <1>1, <1>2

LEMMA SecurityPaths ==
  ASSUME NEW p, NEW s, s = SecurityJson(p)
  PROVE  /\ \A x \in DOMAIN s :
              \/ x = "security"
              \/ x \in TlsPath /\ p.streamsecurity = "tls"
              \/ x \in RealityPath /\ p.streamsecurity = "reality"
         /\ "security" \in DOMAIN s <=> p.streamsecurity \in {"tls", "reality", "none", "xtls"}
         /\ "security" \in DOMAIN s => s["security"] = p.streamsecurity
         /\ p.streamsecurity = "reality" => "realitySettings.shortId" \in DOMAIN s
<1>1. CASE p.streamsecurity = "tls"
  <2>1. s = Bind("security", "tls") ++ TlsJson(p)  BY <1>1 DEF SecurityJson
  <2> QED  BY <1>1, <2>1, Together, OneSetting, TlsPaths
<1>2. CASE p.streamsecurity = "reality"
  <2>1. s = Bind("security", "reality") ++ RealityJson(p)  BY <1>2 DEF SecurityJson
  <2> QED  BY <1>2, <2>1, Together, OneSetting, RealityPaths
<1>3. CASE p.streamsecurity \in {"none", "xtls"}
  <2>1. s = Bind("security", p.streamsecurity)  BY <1>3 DEF SecurityJson
  <2> QED  BY <1>3, <2>1, OneSetting
<1>4. CASE p.streamsecurity \notin {"tls", "reality", "none", "xtls"}
  <2>1. s = NoSettings  BY <1>4 DEF SecurityJson
  <2> QED  BY <1>4, <2>1, NoneSet DEF NothingSet
<1> QED  BY <1>1, <1>2, <1>3, <1>4

LEMMA TransportPaths ==
  ASSUME NEW p
  PROVE  \A x \in DOMAIN TransportJson(p) :
           \/ x \in GrpcPath /\ p.network = "grpc"
           \/ x \in WsPath /\ p.network = "ws"
           \/ x \in XhttpPath /\ p.network = "xhttp"
           \/ x \in KcpPath /\ p.network = "kcp"
<1>1. CASE p.network = "grpc"
  <2>1. TransportJson(p) =
             Bind("grpcSettings.serviceName", Value(p, "path", Blank))
          ++ Bind("grpcSettings.multiMode", "false")
          ++ Bind("grpcSettings.idle_timeout", "60")
          ++ Bind("grpcSettings.health_check_timeout", "20")
    BY <1>1 DEF TransportJson
  <2>2. \A x \in DOMAIN TransportJson(p) : x \in GrpcPath
    BY <2>1, Together, OneSetting DEF GrpcPath
  <2> QED  BY <1>1, <2>2
<1>2. CASE p.network = "ws"
  BY <1>2, Together, OneSetting, NoneSet DEF TransportJson, Column, Key, WsPath, NothingSet
<1>3. CASE p.network = "xhttp"
  BY <1>3, Together, OneSetting, NoneSet DEF TransportJson, Column, Key, XhttpPath, NothingSet
<1>4. CASE p.network = "kcp"
  <2>1. TransportJson(p) =
             Bind("kcpSettings.mtu", "1350") ++ Bind("kcpSettings.tti", "50")
          ++ Bind("kcpSettings.congestion", "false")
          ++ Bind("kcpSettings.readBufferSize", "2") ++ Bind("kcpSettings.writeBufferSize", "2")
          ++ Key(Has(p, "headertype"), "kcpSettings.header", "none")
    BY <1>4 DEF TransportJson
  <2>2. \A x \in DOMAIN TransportJson(p) : x \in KcpPath
    BY <2>1, Together, OneSetting, NoneSet DEF Key, KcpPath, NothingSet
  <2> QED  BY <1>4, <2>2
<1>5. CASE p.network \notin {"grpc", "ws", "xhttp", "kcp"}
  BY <1>5, NoneSet DEF TransportJson, NothingSet
<1> QED  BY <1>1, <1>2, <1>3, <1>4, <1>5

\* A setting that the stream of a profile may have.
StreamPath(x, p) ==
  \/ x = "network" /\ p.network # Blank
  \/ x = "security" /\ p.streamsecurity \in {"tls", "reality", "none", "xtls"}
  \/ x \in TlsPath /\ p.streamsecurity = "tls"
  \/ x \in RealityPath /\ p.streamsecurity = "reality"
  \/ x \in GrpcPath /\ p.network = "grpc"
  \/ x \in WsPath /\ p.network = "ws"
  \/ x \in XhttpPath /\ p.network = "xhttp"
  \/ x \in KcpPath /\ p.network = "kcp"

\* The settings of the stream are in the document.
HasStream(j, p) ==
  /\ p.network # Blank => "network" \in DOMAIN j /\ j["network"] = p.network
  /\ p.streamsecurity \in {"tls", "reality", "none", "xtls"} =>
       "security" \in DOMAIN j /\ j["security"] = p.streamsecurity
  /\ p.streamsecurity = "reality" => "realitySettings.shortId" \in DOMAIN j

LEMMA StreamPaths ==
  ASSUME NEW p
  PROVE  HasStream(StreamJson(p), p) /\ \A x \in DOMAIN StreamJson(p) : StreamPath(x, p)
<1> DEFINE n == Key(p.network # Blank, "network", p.network)
<1>1. /\ \A x : x \in DOMAIN n <=> x = "network" /\ p.network # Blank
      /\ p.network # Blank => n["network"] = p.network
  BY OneSetting, NoneSet DEF Key, NothingSet
<1>2. StreamJson(p) = n ++ SecurityJson(p) ++ TransportJson(p)
  BY DEF StreamJson
<1> HIDE DEF n
<1>3. \A x \in DOMAIN StreamJson(p) : StreamPath(x, p)
  BY <1>1, <1>2, Together, SecurityPaths, TransportPaths DEF StreamPath
<1>4. HasStream(StreamJson(p), p)
  BY <1>1, <1>2, Together, SecurityPaths DEF HasStream
<1> QED  BY <1>3, <1>4

\* The settings that the builders add to the stream.
BasePath == {"protocol", "address", "port", "mux.enabled"}
VLESSPath == {"users.id", "users.encryption", "users.flow", "users.security"}
VMessPath == {"users.id", "users.security"}
ServerPath == {"password", "method"}
SOCKSPath == {"users.user", "users.pass", "headers"}
HTTPPath == {"user", "pass", "headers"}
SocksTlsPath == {"security", "tlsSettings.allowInsecure", "tlsSettings.serverName"}

\* A setting that the document of a profile may have, by the kind of the profile.
Allowed(x, p) ==
  \/ x \in BasePath
  \/ p.type \in UsesStream /\ StreamPath(x, p)
  \/ p.type = "vless" /\ x \in VLESSPath
  \/ p.type = "vmess" /\ x \in VMessPath
  \/ p.type \in {"trojan", "shadowsocks"} /\ x \in ServerPath
  \/ p.type = "socks" /\ x \in SOCKSPath
  \/ p.type = "http" /\ x \in HTTPPath
  \/ p.type \in {"socks", "http"} /\ x \in SocksTlsPath /\ p.streamsecurity \in {"tls", "reality"}

\* The kinds that the encoder knows.
Encodable == UsesStream \cup {"socks", "http"}

\* What the encoder may rely on.
Shaped(j, p) ==
  /\ "protocol" \in DOMAIN j /\ j["protocol"] = p.type
  /\ p.type \in Encodable => \A x \in DOMAIN j : Allowed(x, p)
  /\ p.type \in UsesStream => HasStream(j, p)
  /\ p.type \in {"socks", "http"} /\ p.streamsecurity \in {"tls", "reality"} =>
       "security" \in DOMAIN j /\ j["security"] = p.streamsecurity

LEMMA Bases ==
  /\ \A x : x \in DOMAIN Endpoint <=> x \in {"address", "port"}
  /\ \A x : x \in DOMAIN Mux <=> x = "mux.enabled"
BY Together, OneSetting DEF Endpoint, Mux

\* The settings of a stream under what the builder of the protocol adds.
LEMMA StreamUnder ==
  ASSUME NEW p, NEW type, NEW own, NEW j,
         j = Bind("protocol", type) ++ (Proxied(p) ++ own)
  PROVE  /\ "protocol" \in DOMAIN j /\ j["protocol"] = type
         /\ HasStream(j, p)
         /\ \A x \in DOMAIN j : x \in BasePath \/ StreamPath(x, p) \/ x \in DOMAIN own
<1>1. "protocol" \in DOMAIN j /\ j["protocol"] = type
  BY Together, OneSetting
<1>2. \A x \in DOMAIN j : x \in BasePath \/ StreamPath(x, p) \/ x \in DOMAIN own
  BY Together, OneSetting, Bases, StreamPaths DEF BasePath, Proxied
<1>3. HasStream(j, p)
  BY Together, OneSetting, Bases, StreamPaths DEF HasStream, Proxied
<1> QED  BY <1>1, <1>2, <1>3

LEMMA OwnPaths ==
  ASSUME NEW p
  PROVE  /\ \A x \in DOMAIN VLESSUser(p) : x \in VLESSPath
         /\ \A x \in DOMAIN VMessUser(p) : x \in VMessPath
         /\ \A x \in DOMAIN TrojanServer(p) : x \in ServerPath
         /\ \A x \in DOMAIN SSServer(p) : x \in ServerPath
<1>1. \A x \in DOMAIN VLESSUser(p) : x \in VLESSPath
  BY Together, OneSetting, NoneSet DEF VLESSUser, Column, Key, VLESSPath, NothingSet
<1>2. \A x \in DOMAIN VMessUser(p) : x \in VMessPath
  BY Together, OneSetting, NoneSet DEF VMessUser, Column, Key, VMessPath, NothingSet
<1>3. \A x \in DOMAIN TrojanServer(p) : x \in ServerPath
  BY Together, OneSetting DEF TrojanServer, ServerPath
<1>4. \A x \in DOMAIN SSServer(p) : x \in ServerPath
  BY Together, OneSetting DEF SSServer, ServerPath
<1> QED  BY <1>1, <1>2, <1>3, <1>4

LEMMA SocksPaths ==
  ASSUME NEW p, NEW user, NEW pass, NEW j,
         j = Bind("protocol", p.type)
               ++ (Endpoint ++ Login(p, user, pass) ++ SocksTls(p)
                   ++ Column(p, "requesthost", "headers")),
         "protocol" \notin {user, pass}, "security" \notin {user, pass}
  PROVE  /\ "protocol" \in DOMAIN j /\ j["protocol"] = p.type
         /\ \A x \in DOMAIN j :
              \/ x \in BasePath \/ x \in {user, pass, "headers"}
              \/ x \in SocksTlsPath /\ p.streamsecurity \in {"tls", "reality"}
         /\ p.streamsecurity \in {"tls", "reality"} =>
              "security" \in DOMAIN j /\ j["security"] = p.streamsecurity
<1> DEFINE l == Login(p, user, pass)
           t == SocksTls(p)
           h == Column(p, "requesthost", "headers")
<1>1. \A x \in DOMAIN l : x \in {user, pass}
  BY Together, OneSetting, NoneSet DEF Login, NothingSet
<1>2. /\ \A x \in DOMAIN t : x \in SocksTlsPath /\ p.streamsecurity \in {"tls", "reality"}
      /\ p.streamsecurity \in {"tls", "reality"} =>
           "security" \in DOMAIN t /\ t["security"] = p.streamsecurity
  BY Together, OneSetting, NoneSet DEF SocksTls, Key, Column, SocksTlsPath, NothingSet
<1>3. \A x \in DOMAIN h : x = "headers"
  BY OneSetting, NoneSet DEF Column, Key, NothingSet
<1> HIDE DEF l, t, h
<1>4. j = Bind("protocol", p.type) ++ (Endpoint ++ l ++ t ++ h)  BY DEF l, t, h
<1>5. "protocol" \in DOMAIN j /\ j["protocol"] = p.type
  BY <1>4, Together, OneSetting
<1>6. \A x \in DOMAIN j :
        \/ x \in BasePath \/ x \in {user, pass, "headers"}
        \/ x \in SocksTlsPath /\ p.streamsecurity \in {"tls", "reality"}
  BY <1>1, <1>2, <1>3, <1>4, Together, OneSetting, Bases DEF BasePath
<1>7. p.streamsecurity \in {"tls", "reality"} =>
        "security" \in DOMAIN j /\ j["security"] = p.streamsecurity
  BY <1>1, <1>2, <1>3, <1>4, Together, OneSetting, Bases
<1> QED  BY <1>5, <1>6, <1>7

\* The document of a profile has the settings of its kind and no other.
LEMMA JsonShape ==
  ASSUME NEW p, NEW j, j = OutboundJson(p), p.type \in Supported
  PROVE  Shaped(j, p)
<1>1. CASE p.type = "vless"
  <2>1. j = Bind("protocol", "vless") ++ (Proxied(p) ++ VLESSUser(p))
    BY <1>1 DEF OutboundJson, VLESSJson
  <2> QED  BY <1>1, <2>1, StreamUnder, OwnPaths DEF Shaped, Allowed, UsesStream, Encodable
<1>2. CASE p.type = "vmess"
  <2>1. j = Bind("protocol", "vmess") ++ (Proxied(p) ++ VMessUser(p))
    BY <1>2 DEF OutboundJson, VMessJson
  <2> QED  BY <1>2, <2>1, StreamUnder, OwnPaths DEF Shaped, Allowed, UsesStream, Encodable
<1>3. CASE p.type = "trojan"
  <2>1. j = Bind("protocol", "trojan") ++ (Proxied(p) ++ TrojanServer(p))
    BY <1>3 DEF OutboundJson, TrojanJson
  <2> QED  BY <1>3, <2>1, StreamUnder, OwnPaths DEF Shaped, Allowed, UsesStream, Encodable
<1>4. CASE p.type = "shadowsocks"
  <2>1. j = Bind("protocol", "shadowsocks") ++ (Proxied(p) ++ SSServer(p))
    BY <1>4 DEF OutboundJson, SSJson
  <2> QED  BY <1>4, <2>1, StreamUnder, OwnPaths DEF Shaped, Allowed, UsesStream, Encodable
<1>5. CASE p.type = "socks"
  <2>1. j = Bind("protocol", p.type)
              ++ (Endpoint ++ Login(p, "users.user", "users.pass") ++ SocksTls(p)
                  ++ Column(p, "requesthost", "headers"))
    BY <1>5 DEF OutboundJson, SOCKSJson
  <2> QED  BY <1>5, <2>1, SocksPaths DEF Shaped, Allowed, UsesStream, Encodable, SOCKSPath
<1>6. CASE p.type = "http"
  <2>1. j = Bind("protocol", p.type)
              ++ (Endpoint ++ Login(p, "user", "pass") ++ SocksTls(p)
                  ++ Column(p, "requesthost", "headers"))
    BY <1>6 DEF OutboundJson, HTTPJson
  <2> QED  BY <1>6, <2>1, SocksPaths DEF Shaped, Allowed, UsesStream, Encodable, HTTPPath
<1>7. CASE p.type \in {"hysteria", "tuic", "wireguard"}
  <2>1. PICK rest : j = Bind("protocol", p.type) ++ rest
    BY <1>7 DEF OutboundJson
  <2>2. "protocol" \in DOMAIN j /\ j["protocol"] = p.type
    BY <2>1, Together, OneSetting
  <2> QED  BY <1>7, <2>2 DEF Shaped, UsesStream, Encodable
<1> QED  BY <1>1, <1>2, <1>3, <1>4, <1>5, <1>6, <1>7 DEF Supported, UsesStream

\* A setting of the document is a field of the message.
SentAs(path, field, j, m) ==
  path \in DOMAIN j => field \in DOMAIN m /\ m[field] = j[path]

\* What each table sends.
LEMMA WebSocketConfigSent ==
  ASSUME NEW j, NEW m, m = Encode(WebSocketConfig, j)
  PROVE  /\ \A f \in DOMAIN m : f \in {"ws.host", "ws.path", "ws.header"}
         /\ SentAs("wsSettings.host", "ws.host", j, m)
         /\ SentAs("wsSettings.path", "ws.path", j, m)
         /\ SentAs("wsSettings.headers", "ws.header", j, m)
<1>1. /\ \A x :
           x \in DOMAIN WebSocketConfig <=>
                   x \in {"wsSettings.host", "wsSettings.path", "wsSettings.headers"}
      /\ WebSocketConfig["wsSettings.host"] = "ws.host"
      /\ WebSocketConfig["wsSettings.path"] = "ws.path"
      /\ WebSocketConfig["wsSettings.headers"] = "ws.header"
  BY Together, OneSetting DEF WebSocketConfig
<1>2. \A x, y \in DOMAIN WebSocketConfig : WebSocketConfig[x] = WebSocketConfig[y] => x = y  BY <1>1
<1> QED  BY <1>1, <1>2, Encoded DEF SentAs

LEMMA GRPCSettingsSent ==
  ASSUME NEW j, NEW m, m = Encode(GRPCSettings, j)
  PROVE  /\ \A f \in DOMAIN m : f \in {"grpc.service_name", "grpc.multi_mode"}
         /\ SentAs("grpcSettings.serviceName", "grpc.service_name", j, m)
         /\ SentAs("grpcSettings.multiMode", "grpc.multi_mode", j, m)
<1>1. /\ \A x :
           x \in DOMAIN GRPCSettings <=>
                   x \in {"grpcSettings.serviceName", "grpcSettings.multiMode"}
      /\ GRPCSettings["grpcSettings.serviceName"] = "grpc.service_name"
      /\ GRPCSettings["grpcSettings.multiMode"] = "grpc.multi_mode"
  BY Together, OneSetting DEF GRPCSettings
<1>2. \A x, y \in DOMAIN GRPCSettings : GRPCSettings[x] = GRPCSettings[y] => x = y  BY <1>1
<1> QED  BY <1>1, <1>2, Encoded DEF SentAs

LEMMA KCPSettingsSent ==
  ASSUME NEW j, NEW m, m = Encode(KCPSettings, j)
  PROVE  /\ \A f \in DOMAIN m : f \in {"kcp.congestion"}
         /\ SentAs("kcpSettings.congestion", "kcp.congestion", j, m)
<1>1. /\ \A x :
           x \in DOMAIN KCPSettings <=> x \in {"kcpSettings.congestion"}
      /\ KCPSettings["kcpSettings.congestion"] = "kcp.congestion"
  BY Together, OneSetting DEF KCPSettings
<1>2. \A x, y \in DOMAIN KCPSettings : KCPSettings[x] = KCPSettings[y] => x = y  BY <1>1
<1> QED  BY <1>1, <1>2, Encoded DEF SentAs

LEMMA SplitHTTPSettingsSent ==
  ASSUME NEW j, NEW m, m = Encode(SplitHTTPSettings, j)
  PROVE  /\ \A f \in DOMAIN m : f \in {"splithttp.host", "splithttp.path", "splithttp.mode"}
         /\ SentAs("xhttpSettings.host", "splithttp.host", j, m)
         /\ SentAs("xhttpSettings.path", "splithttp.path", j, m)
         /\ SentAs("xhttpSettings.mode", "splithttp.mode", j, m)
<1>1. /\ \A x :
           x \in DOMAIN SplitHTTPSettings <=>
                   x \in {"xhttpSettings.host", "xhttpSettings.path", "xhttpSettings.mode"}
      /\ SplitHTTPSettings["xhttpSettings.host"] = "splithttp.host"
      /\ SplitHTTPSettings["xhttpSettings.path"] = "splithttp.path"
      /\ SplitHTTPSettings["xhttpSettings.mode"] = "splithttp.mode"
  BY Together, OneSetting DEF SplitHTTPSettings
<1>2. \A x, y \in DOMAIN SplitHTTPSettings : SplitHTTPSettings[x] = SplitHTTPSettings[y] => x = y
  BY <1>1
<1> QED  BY <1>1, <1>2, Encoded DEF SentAs

LEMMA TLSSettingsSent ==
  ASSUME NEW j, NEW m, m = Encode(TLSSettings, j)
  PROVE  /\ \A f \in DOMAIN m : f \in {"tls.allow_insecure", "tls.server_name",
                                       "tls.next_protocol", "tls.fingerprint"}
         /\ SentAs("tlsSettings.allowInsecure", "tls.allow_insecure", j, m)
         /\ SentAs("tlsSettings.serverName", "tls.server_name", j, m)
         /\ SentAs("tlsSettings.alpn", "tls.next_protocol", j, m)
         /\ SentAs("tlsSettings.fingerprint", "tls.fingerprint", j, m)
<1>1. /\ \A x :
           x \in DOMAIN TLSSettings <=>
                   x \in {"tlsSettings.allowInsecure", "tlsSettings.serverName",
                          "tlsSettings.alpn", "tlsSettings.fingerprint"}
      /\ TLSSettings["tlsSettings.allowInsecure"] = "tls.allow_insecure"
      /\ TLSSettings["tlsSettings.serverName"] = "tls.server_name"
      /\ TLSSettings["tlsSettings.alpn"] = "tls.next_protocol"
      /\ TLSSettings["tlsSettings.fingerprint"] = "tls.fingerprint"
  BY Together, OneSetting DEF TLSSettings
<1>2. \A x, y \in DOMAIN TLSSettings : TLSSettings[x] = TLSSettings[y] => x = y  BY <1>1
<1> QED  BY <1>1, <1>2, Encoded DEF SentAs

LEMMA RealityTableSent ==
  ASSUME NEW j, NEW m, m = Encode(RealityTable, j)
  PROVE  /\ \A f \in DOMAIN m : f \in {"reality.server_name", "reality.public_key",
                                       "reality.short_id", "reality.fingerprint",
                                       "reality.spider_x"}
         /\ SentAs("realitySettings.serverName", "reality.server_name", j, m)
         /\ SentAs("realitySettings.publicKey", "reality.public_key", j, m)
         /\ SentAs("realitySettings.shortId", "reality.short_id", j, m)
         /\ SentAs("realitySettings.fingerprint", "reality.fingerprint", j, m)
         /\ SentAs("realitySettings.spiderX", "reality.spider_x", j, m)
<1>1. /\ \A x :
           x \in DOMAIN RealityTable <=>
                   x \in {"realitySettings.serverName", "realitySettings.publicKey",
                          "realitySettings.shortId", "realitySettings.fingerprint",
                          "realitySettings.spiderX"}
      /\ RealityTable["realitySettings.serverName"] = "reality.server_name"
      /\ RealityTable["realitySettings.publicKey"] = "reality.public_key"
      /\ RealityTable["realitySettings.shortId"] = "reality.short_id"
      /\ RealityTable["realitySettings.fingerprint"] = "reality.fingerprint"
      /\ RealityTable["realitySettings.spiderX"] = "reality.spider_x"
  BY Together, OneSetting DEF RealityTable
<1>2. \A x, y \in DOMAIN RealityTable : RealityTable[x] = RealityTable[y] => x = y  BY <1>1
<1> QED  BY <1>1, <1>2, Encoded DEF SentAs

LEMMA MultiplexConfigSent ==
  ASSUME NEW j, NEW m, m = Encode(MultiplexConfig, j)
  PROVE  /\ \A f \in DOMAIN m : f \in {"mux.enabled"}
         /\ SentAs("mux.enabled", "mux.enabled", j, m)
<1>1. /\ \A x :
           x \in DOMAIN MultiplexConfig <=> x \in {"mux.enabled"}
      /\ MultiplexConfig["mux.enabled"] = "mux.enabled"
  BY Together, OneSetting DEF MultiplexConfig
<1>2. \A x, y \in DOMAIN MultiplexConfig : MultiplexConfig[x] = MultiplexConfig[y] => x = y  BY <1>1
<1> QED  BY <1>1, <1>2, Encoded DEF SentAs

LEMMA SocksUserSent ==
  ASSUME NEW j, NEW m, m = Encode(SocksUser, j)
  PROVE  /\ \A f \in DOMAIN m : f \in {"account.username", "account.password"}
         /\ SentAs("users.user", "account.username", j, m)
         /\ SentAs("users.pass", "account.password", j, m)
<1>1. /\ \A x :
           x \in DOMAIN SocksUser <=> x \in {"users.user", "users.pass"}
      /\ SocksUser["users.user"] = "account.username"
      /\ SocksUser["users.pass"] = "account.password"
  BY Together, OneSetting DEF SocksUser
<1>2. \A x, y \in DOMAIN SocksUser : SocksUser[x] = SocksUser[y] => x = y  BY <1>1
<1> QED  BY <1>1, <1>2, Encoded DEF SentAs

LEMMA HTTPUserSent ==
  ASSUME NEW j, NEW m, m = Encode(HTTPUser, j)
  PROVE  /\ \A f \in DOMAIN m : f \in {"account.username", "account.password"}
         /\ SentAs("user", "account.username", j, m)
         /\ SentAs("pass", "account.password", j, m)
<1>1. /\ \A x :
           x \in DOMAIN HTTPUser <=> x \in {"user", "pass"}
      /\ HTTPUser["user"] = "account.username"
      /\ HTTPUser["pass"] = "account.password"
  BY Together, OneSetting DEF HTTPUser
<1>2. \A x, y \in DOMAIN HTTPUser : HTTPUser[x] = HTTPUser[y] => x = y  BY <1>1
<1> QED  BY <1>1, <1>2, Encoded DEF SentAs

LEMMA ServerEndpointSent ==
  ASSUME NEW j, NEW m, m = Encode(ServerEndpoint, j)
  PROVE  /\ \A f \in DOMAIN m : f \in {"address", "port"}
         /\ SentAs("address", "address", j, m)
         /\ SentAs("port", "port", j, m)
<1>1. /\ \A x :
           x \in DOMAIN ServerEndpoint <=> x \in {"address", "port"}
      /\ ServerEndpoint["address"] = "address"
      /\ ServerEndpoint["port"] = "port"
  BY Together, OneSetting DEF ServerEndpoint
<1>2. \A x, y \in DOMAIN ServerEndpoint : ServerEndpoint[x] = ServerEndpoint[y] => x = y  BY <1>1
<1> QED  BY <1>1, <1>2, Encoded DEF SentAs

\* The fields of a message, by the part that they come from.
TransportField ==
  {"ws.host", "ws.path", "ws.header", "grpc.service_name", "grpc.multi_mode", "kcp.congestion",
   "splithttp.host", "splithttp.path", "splithttp.mode"}
SecurityField ==
  {"security_type", "tls.allow_insecure", "tls.server_name", "tls.next_protocol",
   "tls.fingerprint", "reality.server_name", "reality.public_key", "reality.short_id",
   "reality.fingerprint", "reality.spider_x", "reality.spider_y"}
AccountField ==
  {"account.id", "account.security", "account.encryption", "account.flow", "account.password",
   "account.cipher", "account.username", "key", "method"}

LEMMA TransportSent ==
  ASSUME NEW j
  PROVE  /\ \A f \in DOMAIN Transport(j) : f \in TransportField
         /\ At(j, "network") = "ws" =>
              /\ SentAs("wsSettings.path", "ws.path", j, Transport(j))
              /\ SentAs("wsSettings.host", "ws.host", j, Transport(j))
         /\ At(j, "network") = "grpc" =>
              SentAs("grpcSettings.serviceName", "grpc.service_name", j, Transport(j))
         /\ At(j, "network") = "xhttp" =>
              /\ SentAs("xhttpSettings.path", "splithttp.path", j, Transport(j))
              /\ SentAs("xhttpSettings.host", "splithttp.host", j, Transport(j))
              /\ SentAs("xhttpSettings.mode", "splithttp.mode", j, Transport(j))
<1> DEFINE n == At(j, "network")
<1>1. /\ n = "ws" => Transport(j) = Encode(WebSocketConfig, j)
      /\ n = "grpc" => Transport(j) = Encode(GRPCSettings, j)
      /\ n = "kcp" => Transport(j) = Encode(KCPSettings, j)
      /\ n = "xhttp" => Transport(j) = Encode(SplitHTTPSettings, j)
      /\ n \notin {"ws", "grpc", "kcp", "xhttp"} => Transport(j) = NoSettings
  BY DEF Transport
<1> HIDE DEF n
<1>2. CASE n = "ws"  BY <1>1, <1>2, WebSocketConfigSent DEF TransportField, n
<1>3. CASE n = "grpc"  BY <1>1, <1>3, GRPCSettingsSent DEF TransportField, n
<1>4. CASE n = "kcp"  BY <1>1, <1>4, KCPSettingsSent DEF TransportField, n
<1>5. CASE n = "xhttp"  BY <1>1, <1>5, SplitHTTPSettingsSent DEF TransportField, n
<1>6. CASE n \notin {"ws", "grpc", "kcp", "xhttp"}
  BY <1>1, <1>6, NoneSet DEF NothingSet, n
<1> QED  BY <1>2, <1>3, <1>4, <1>5, <1>6

\* A setting that is not empty is a field of the message.
SentIfSet(path, field, j, m) ==
  path \in DOMAIN j /\ j[path] # Blank => field \in DOMAIN m /\ m[field] = j[path]

\* The short id is left out of what is sent if it is empty.
LEMMA RealityKept ==
  ASSUME NEW sent
  PROVE  /\ \A f : f \in DOMAIN Spared(sent) <=> f \in DOMAIN sent /\ ~SparesShortId(sent, f)
         /\ \A f \in DOMAIN Spared(sent) : Spared(sent)[f] = sent[f]
BY DEF Spared

LEMMA RealitySent ==
  ASSUME NEW j
  PROVE  /\ \A f \in DOMAIN RealitySettings(j) : f \in SecurityField
         /\ "security_type" \notin DOMAIN RealitySettings(j)
         /\ SentIfSet("realitySettings.serverName", "reality.server_name", j, RealitySettings(j))
         /\ SentIfSet("realitySettings.publicKey", "reality.public_key", j, RealitySettings(j))
         /\ SentIfSet("realitySettings.shortId", "reality.short_id", j, RealitySettings(j))
         /\ SentIfSet("realitySettings.fingerprint", "reality.fingerprint", j, RealitySettings(j))
<1> DEFINE sent == Encode(RealityTable, j)
           r == RealitySettings(j)
<1>1. /\ \A f \in DOMAIN Spared(sent) : f \in SecurityField
      /\ "security_type" \notin DOMAIN Spared(sent)
      /\ SentIfSet("realitySettings.serverName", "reality.server_name", j, Spared(sent))
      /\ SentIfSet("realitySettings.publicKey", "reality.public_key", j, Spared(sent))
      /\ SentIfSet("realitySettings.shortId", "reality.short_id", j, Spared(sent))
      /\ SentIfSet("realitySettings.fingerprint", "reality.fingerprint", j, Spared(sent))
  BY RealityKept, RealityTableSent DEF SecurityField, SparesShortId, SentAs, SentIfSet
<1>2. r = Spared(sent) ++ Bind("reality.spider_y", "ten_numbers")
  BY DEF RealitySettings
<1> HIDE DEF r, sent
<1>3. /\ \A f \in DOMAIN r : f \in DOMAIN Spared(sent) \/ f = "reality.spider_y"
      /\ \A f \in DOMAIN Spared(sent) : f \in DOMAIN r /\ r[f] = Spared(sent)[f]
  BY <1>2, Together, OneSetting
<1>4. \A f \in DOMAIN r : f \in SecurityField /\ f # "security_type"
  BY <1>1, <1>3 DEF SecurityField
<1>5. /\ SentIfSet("realitySettings.serverName", "reality.server_name", j, r)
      /\ SentIfSet("realitySettings.publicKey", "reality.public_key", j, r)
      /\ SentIfSet("realitySettings.shortId", "reality.short_id", j, r)
      /\ SentIfSet("realitySettings.fingerprint", "reality.fingerprint", j, r)
  BY <1>1, <1>3 DEF SentIfSet
<1> QED  BY <1>4, <1>5 DEF r

LEMMA SecuritySent ==
  ASSUME NEW j
  PROVE  /\ \A f \in DOMAIN Security(j) : f \in SecurityField
         /\ At(j, "security") \in {"tls", "reality"} =>
              "security_type" \in DOMAIN Security(j)
              /\ Security(j)["security_type"] = At(j, "security")
         /\ At(j, "security") = "tls" =>
              /\ SentAs("tlsSettings.allowInsecure", "tls.allow_insecure", j, Security(j))
              /\ SentAs("tlsSettings.serverName", "tls.server_name", j, Security(j))
              /\ SentAs("tlsSettings.alpn", "tls.next_protocol", j, Security(j))
              /\ SentAs("tlsSettings.fingerprint", "tls.fingerprint", j, Security(j))
         /\ At(j, "security") = "reality" /\ "realitySettings.shortId" \in DOMAIN j =>
              /\ SentIfSet("realitySettings.serverName", "reality.server_name", j, Security(j))
              /\ SentIfSet("realitySettings.publicKey", "reality.public_key", j, Security(j))
              /\ SentIfSet("realitySettings.shortId", "reality.short_id", j, Security(j))
              /\ SentIfSet("realitySettings.fingerprint", "reality.fingerprint", j, Security(j))
<1> DEFINE s == At(j, "security")
           r == IF "realitySettings.shortId" \in DOMAIN j THEN RealitySettings(j) ELSE NoSettings
<1>1. /\ s = "tls" => Security(j) = Bind("security_type", "tls") ++ Encode(TLSSettings, j)
      /\ s = "reality" => Security(j) = Bind("security_type", "reality") ++ r
      /\ s \notin {"tls", "reality"} => Security(j) = NoSettings
  BY DEF Security
<1>2. /\ "realitySettings.shortId" \in DOMAIN j => r = RealitySettings(j)
      /\ "realitySettings.shortId" \notin DOMAIN j => r = NoSettings
  OBVIOUS
<1> HIDE DEF r, s
<1>3. CASE s = "tls"
  <2>1. \A f \in DOMAIN Security(j) : f \in SecurityField
    BY <1>1, <1>3, TLSSettingsSent, Together, OneSetting DEF SecurityField
  <2> QED
    BY <1>1, <1>3, <2>1, TLSSettingsSent, Together, OneSetting DEF s, SentAs
<1>4. CASE s = "reality"
  <2>1. \A f \in DOMAIN Security(j) : f \in SecurityField
    BY <1>1, <1>2, <1>4, RealitySent, NoneSet, Together, OneSetting DEF SecurityField, NothingSet
  <2>2. "security_type" \in DOMAIN Security(j) /\ Security(j)["security_type"] = "reality"
    BY <1>1, <1>4, Together, OneSetting
  <2>3. "realitySettings.shortId" \in DOMAIN j =>
          /\ SentIfSet("realitySettings.serverName", "reality.server_name", j, Security(j))
          /\ SentIfSet("realitySettings.publicKey", "reality.public_key", j, Security(j))
          /\ SentIfSet("realitySettings.shortId", "reality.short_id", j, Security(j))
          /\ SentIfSet("realitySettings.fingerprint", "reality.fingerprint", j, Security(j))
    BY <1>1, <1>2, <1>4, RealitySent, Together, OneSetting DEF SentIfSet
  <2> QED  BY <1>4, <2>1, <2>2, <2>3 DEF s
<1>5. CASE s \notin {"tls", "reality"}
  BY <1>1, <1>5, NoneSet DEF s, NothingSet
<1> QED  BY <1>3, <1>4, <1>5

\* The part is in the message as it was made.
Keeps(m, part) == \A f \in DOMAIN part : f \in DOMAIN m /\ m[f] = part[f]

LEMMA BlankIsNoName ==
  /\ Blank \notin {"tcp", "ws", "grpc", "kcp", "xhttp"}
  /\ Blank \notin {"tls", "reality"}
BY Zenon DEF Blank

\* The sender's settings hold the transport, the security and the network's name.
LEMMA SenderSent ==
  ASSUME NEW j, NEW m, m = SenderSettings(j)
  PROVE  /\ \A f \in DOMAIN m :
              f \in TransportField \/ f \in SecurityField \/ f \in {"protocol_name", "mux.enabled"}
         /\ Keeps(m, Transport(j)) /\ Keeps(m, Security(j))
         /\ At(j, "network") \in DOMAIN ProtocolName =>
              "protocol_name" \in DOMAIN m /\ m["protocol_name"] = ProtocolName[At(j, "network")]
<1> DEFINE n == At(j, "network")
           k == Key(n \in DOMAIN ProtocolName, "protocol_name", ProtocolName[n])
           t == Transport(j)
           s == Security(j)
           x == Encode(MultiplexConfig, j)
<1>1. m = (k ++ t ++ s) ++ x
  BY DEF SenderSettings, StreamConfig
<1>2. /\ \A f \in DOMAIN k : f = "protocol_name"
      /\ n \in DOMAIN ProtocolName =>
           "protocol_name" \in DOMAIN k /\ k["protocol_name"] = ProtocolName[n]
  BY OneSetting, NoneSet DEF Key, NothingSet
<1>3. /\ \A f \in DOMAIN t : f \in TransportField
      /\ \A f \in DOMAIN s : f \in SecurityField
      /\ \A f \in DOMAIN x : f = "mux.enabled"
  BY TransportSent, SecuritySent, MultiplexConfigSent
<1> HIDE DEF n, k, t, s, x
<1>4. \A f \in DOMAIN m :
        f \in TransportField \/ f \in SecurityField \/ f \in {"protocol_name", "mux.enabled"}
  BY <1>1, <1>2, <1>3, Together
<1>5. Keeps(m, t)
  BY <1>1, <1>2, <1>3, Together DEF Keeps, TransportField
<1>6. Keeps(m, s)
  <2>1. \A f \in DOMAIN s : f \notin DOMAIN k /\ f \notin DOMAIN t
    BY <1>2, <1>3 DEF TransportField, SecurityField
  <2> QED  BY <1>1, <2>1, Together DEF Keeps
<1>7. n \in DOMAIN ProtocolName =>
        "protocol_name" \in DOMAIN m /\ m["protocol_name"] = ProtocolName[n]
  BY <1>1, <1>2, Together
<1> QED  BY <1>4, <1>5, <1>6, <1>7 DEF n, t, s

\* A cipher is sent under its code, or it has none.
LEMMA VMessCoded ==
  ASSUME NEW name
  PROVE  StandsFor(Coded(VMessSecurity, name), name, SecurityName)
<1>1. /\ \A x : x \in DOMAIN VMessSecurity <=> x \in {"auto", "aes-128-gcm", "chacha20-poly1305"}
      /\ VMessSecurity["auto"] = "AUTO"
      /\ VMessSecurity["aes-128-gcm"] = "AES128_GCM"
      /\ VMessSecurity["chacha20-poly1305"] = "CHACHA20_POLY1305"
  BY Together, OneSetting DEF VMessSecurity
<1>2. /\ \A x : x \in DOMAIN SecurityName <=> x \in {"AUTO", "AES128_GCM", "CHACHA20_POLY1305"}
      /\ SecurityName["AUTO"] = "auto"
      /\ SecurityName["AES128_GCM"] = "aes-128-gcm"
      /\ SecurityName["CHACHA20_POLY1305"] = "chacha20-poly1305"
  BY Together, OneSetting DEF SecurityName
<1> QED  BY <1>1, <1>2 DEF StandsFor, Coded

LEMMA ShadowsocksCoded ==
  ASSUME NEW name
  PROVE  StandsFor(Coded(ShadowsocksCipher, name), name, CipherName)
<1>1. /\ \A x : x \in DOMAIN ShadowsocksCipher <=>
              x \in {"aes-128-gcm", "aes-256-gcm", "chacha20-ietf-poly1305",
                     "xchacha20-ietf-poly1305", "none"}
      /\ ShadowsocksCipher["aes-128-gcm"] = "AES_128_GCM"
      /\ ShadowsocksCipher["aes-256-gcm"] = "AES_256_GCM"
      /\ ShadowsocksCipher["chacha20-ietf-poly1305"] = "CHACHA20_IETF_POLY1305"
      /\ ShadowsocksCipher["xchacha20-ietf-poly1305"] = "XCHACHA20_IETF_POLY1305"
      /\ ShadowsocksCipher["none"] = "NONE"
  BY Together, OneSetting DEF ShadowsocksCipher
<1>2. /\ \A x : x \in DOMAIN CipherName <=>
              x \in {"AES_128_GCM", "AES_256_GCM", "CHACHA20_IETF_POLY1305",
                     "XCHACHA20_IETF_POLY1305", "NONE"}
      /\ CipherName["AES_128_GCM"] = "aes-128-gcm"
      /\ CipherName["AES_256_GCM"] = "aes-256-gcm"
      /\ CipherName["CHACHA20_IETF_POLY1305"] = "chacha20-ietf-poly1305"
      /\ CipherName["XCHACHA20_IETF_POLY1305"] = "xchacha20-ietf-poly1305"
      /\ CipherName["NONE"] = "none"
  BY Together, OneSetting DEF CipherName
<1> QED  BY <1>1, <1>2 DEF StandsFor, Coded

\* The field has the code of a cipher.
SentCoded(field, name, names, m) ==
  field \in DOMAIN m /\ StandsFor(m[field], name, names)

LEMMA VMessSent ==
  ASSUME NEW j
  PROVE  /\ \A f \in DOMAIN VMessAccount(j) : f \in AccountField
         /\ SentAs("users.id", "account.id", j, VMessAccount(j))
         /\ SentCoded("account.security", j["users.security"], SecurityName, VMessAccount(j))
<1> DEFINE i == IF "users.id" \in DOMAIN j THEN j["users.id"] ELSE "zero uuid"
<1>1. VMessAccount(j) =
        Bind("account.id", i) ++ Bind("account.security", Coded(VMessSecurity, j["users.security"]))
  BY DEF VMessAccount
<1>2. "users.id" \in DOMAIN j => i = j["users.id"]
  OBVIOUS
<1> HIDE DEF i
<1>3. \A f \in DOMAIN VMessAccount(j) : f \in AccountField
  BY <1>1, Together, OneSetting DEF AccountField
<1>4. SentAs("users.id", "account.id", j, VMessAccount(j))
  BY <1>1, <1>2, Together, OneSetting DEF SentAs
<1>5. /\ "account.security" \in DOMAIN VMessAccount(j)
      /\ VMessAccount(j)["account.security"] = Coded(VMessSecurity, j["users.security"])
  BY <1>1, Together, OneSetting
<1> QED  BY <1>3, <1>4, <1>5, VMessCoded DEF SentCoded

LEMMA VLESSSent ==
  ASSUME NEW j
  PROVE  /\ \A f \in DOMAIN VLESSAccount(j) : f \in AccountField
         /\ SentAs("users.id", "account.id", j, VLESSAccount(j))
         /\ SentIfSet("users.flow", "account.flow", j, VLESSAccount(j))
<1> DEFINE k == Key(At(j, "users.flow") # Blank, "account.flow", At(j, "users.flow"))
           i == At(j, "users.id")
<1>1. VLESSAccount(j) =
        Bind("account.id", i) ++ Bind("account.encryption", j["users.encryption"]) ++ k
  BY DEF VLESSAccount
<1>2. /\ \A f \in DOMAIN k : f = "account.flow"
      /\ "users.flow" \in DOMAIN j /\ j["users.flow"] # Blank =>
           "account.flow" \in DOMAIN k /\ k["account.flow"] = j["users.flow"]
  BY OneSetting, NoneSet DEF Key, NothingSet, At
<1>3. "users.id" \in DOMAIN j => i = j["users.id"]
  BY DEF At
<1> HIDE DEF k, i
<1>4. \A f \in DOMAIN VLESSAccount(j) : f \in AccountField
  BY <1>1, <1>2, Together, OneSetting DEF AccountField
<1>5. SentAs("users.id", "account.id", j, VLESSAccount(j))
  BY <1>1, <1>3, Together, OneSetting DEF SentAs
<1>6. SentIfSet("users.flow", "account.flow", j, VLESSAccount(j))
  BY <1>1, <1>2, Together, OneSetting DEF SentIfSet
<1> QED  BY <1>4, <1>5, <1>6

\* An account says what the document says of it.
LEMMA AccountSent ==
  ASSUME NEW j, Account(j) # NoSettings
  PROVE  /\ TypeUrl(j) \in {"vmess", "vless", "trojan", "shadowsocks", "shadowsocks_2022", "socks",
                            "http"}
         /\ \A f \in DOMAIN Account(j) : f \in AccountField
         /\ TypeUrl(j) \in {"vmess", "vless"} => SentAs("users.id", "account.id", j, Account(j))
         /\ TypeUrl(j) = "vless" => SentIfSet("users.flow", "account.flow", j, Account(j))
         /\ TypeUrl(j) = "socks" =>
              /\ SentAs("users.user", "account.username", j, Account(j))
              /\ SentAs("users.pass", "account.password", j, Account(j))
         /\ TypeUrl(j) = "http" =>
              /\ SentAs("user", "account.username", j, Account(j))
              /\ SentAs("pass", "account.password", j, Account(j))
         /\ TypeUrl(j) \in {"trojan", "shadowsocks", "shadowsocks_2022"} =>
              \E f \in {"account.password", "key"} \cap DOMAIN Account(j) :
                Account(j)[f] = j["password"]
         /\ TypeUrl(j) = "vmess" =>
              SentCoded("account.security", j["users.security"], SecurityName, Account(j))
         /\ TypeUrl(j) = "shadowsocks" =>
              SentCoded("account.cipher", j["method"], CipherName, Account(j))
         /\ TypeUrl(j) = "shadowsocks_2022" =>
              "method" \in DOMAIN Account(j) /\ Account(j)["method"] = j["method"]
<1> DEFINE u == TypeUrl(j)
           a == Account(j)
<1>1. /\ u = "vmess" => a = VMessAccount(j)
      /\ u = "vless" => a = VLESSAccount(j)
      /\ u = "trojan" => a = TrojanAccount(j)
      /\ u = "shadowsocks" => a = ShadowsocksAccount(j)
      /\ u = "shadowsocks_2022" => a = Shadowsocks2022(j)
      /\ u = "socks" => a = SocksAccount(j)
      /\ u = "http" => a = HTTPAccount(j)
      /\ u \notin {"vmess", "vless", "trojan", "shadowsocks", "shadowsocks_2022", "socks",
                   "http"} =>
           a = NoSettings
  BY DEF Account
<1> HIDE DEF u, a
<1>2. CASE u = "vmess"  BY <1>1, <1>2, VMessSent DEF u, a
<1>3. CASE u = "vless"  BY <1>1, <1>3, VLESSSent DEF u, a
<1>4. CASE u = "trojan"
  <2>1. a = Bind("account.password", j["password"])  BY <1>1, <1>4 DEF TrojanAccount
  <2>2. \A f \in DOMAIN a : f \in AccountField  BY <2>1, OneSetting DEF AccountField
  <2>3. "account.password" \in DOMAIN a /\ a["account.password"] = j["password"]
    BY <2>1, OneSetting
  <2> QED  BY <1>4, <2>2, <2>3 DEF u, a
<1>5. CASE u = "shadowsocks"
  <2>1. a = Bind("account.password", j["password"])
              ++ Bind("account.cipher", Coded(ShadowsocksCipher, j["method"]))
    BY <1>1, <1>5 DEF ShadowsocksAccount
  <2>2. \A f \in DOMAIN a : f \in AccountField
    BY <2>1, Together, OneSetting DEF AccountField
  <2>3. "account.password" \in DOMAIN a /\ a["account.password"] = j["password"]
    BY <2>1, Together, OneSetting
  <2>4. /\ "account.cipher" \in DOMAIN a
        /\ a["account.cipher"] = Coded(ShadowsocksCipher, j["method"])
    BY <2>1, Together, OneSetting
  <2>5. SentCoded("account.cipher", j["method"], CipherName, a)
    BY <2>4, ShadowsocksCoded DEF SentCoded
  <2> QED  BY <1>5, <2>2, <2>3, <2>5 DEF u, a
<1>6. CASE u = "shadowsocks_2022"
  <2>1. a = Bind("key", j["password"]) ++ Bind("method", j["method"])
    BY <1>1, <1>6 DEF Shadowsocks2022, a
  <2>2. \A f \in DOMAIN a : f \in AccountField
    BY <2>1, Together, OneSetting DEF AccountField
  <2>3. "key" \in DOMAIN a /\ a["key"] = j["password"]
    BY <2>1, Together, OneSetting
  <2>4. "method" \in DOMAIN a /\ a["method"] = j["method"]
    BY <2>1, Together, OneSetting
  <2> QED  BY <1>6, <2>2, <2>3, <2>4 DEF u, a
<1>7. CASE u = "socks"
  BY <1>1, <1>7, SocksUserSent DEF SocksAccount, AccountField, u, a
<1>8. CASE u = "http"
  BY <1>1, <1>8, HTTPUserSent DEF HTTPAccount, AccountField, u, a
<1> QED  BY <1>1, <1>2, <1>3, <1>4, <1>5, <1>6, <1>7, <1>8 DEF a, u

\* The fields of the parts of a message do not overlap, and all are kept.
LEMMA MessageSent ==
  ASSUME NEW j, NEW m, m = Message(j), m # NoSettings
  PROVE  /\ Account(j) # NoSettings
         /\ m["type"] = TypeUrl(j)
         /\ Keeps(m, Account(j)) /\ Keeps(m, Encode(ServerEndpoint, j))
         /\ Keeps(m, SenderSettings(j))
<1> DEFINE a == Account(j)
           e == Encode(ServerEndpoint, j)
           s == SenderSettings(j)
<1>1. /\ a # NoSettings
      /\ m = Bind("type", TypeUrl(j)) ++ a ++ e ++ s
  BY DEF Message
<1>2. /\ \A f \in DOMAIN a : f \in AccountField
      /\ \A f \in DOMAIN e : f \in {"address", "port"}
      /\ \A f \in DOMAIN s :
           f \in TransportField \/ f \in SecurityField \/ f \in {"protocol_name", "mux.enabled"}
  BY <1>1, AccountSent, ServerEndpointSent, SenderSent
<1> HIDE DEF a, e, s
<1>3. /\ \A f \in DOMAIN a : f # "type"
      /\ \A f \in DOMAIN e : f # "type" /\ f \notin DOMAIN a
      /\ \A f \in DOMAIN s : f # "type" /\ f \notin DOMAIN a /\ f \notin DOMAIN e
  BY <1>2 DEF AccountField, TransportField, SecurityField
<1>4. m["type"] = TypeUrl(j)
  BY <1>1, Together, OneSetting
<1>5. Keeps(m, a)  BY <1>1, <1>3, Together, OneSetting DEF Keeps
<1>6. Keeps(m, e)  BY <1>1, <1>3, Together, OneSetting DEF Keeps
<1>7. Keeps(m, s)  BY <1>1, <1>3, Together, OneSetting DEF Keeps
<1> QED  BY <1>1, <1>4, <1>5, <1>6, <1>7 DEF a, e, s

\* A profile on the first way, and on one that is meant to agree with the other.
OnTheWay(p, j, m) ==
  /\ p.type \in Supported
  /\ j = OutboundJson(p)
  /\ m = Message(j) /\ m # NoSettings
  /\ At(j, "network") \in {Blank, "tcp", "ws", "grpc", "kcp", "xhttp"}
  /\ At(j, "security") # "xtls"
  /\ ~ (p.type \in {"socks", "http"} /\ p.streamsecurity = "reality")

\* Only a protocol with an encoder is on the way, under its own name.
LEMMA ProtocolAgrees ==
  ASSUME NEW p, NEW j, NEW m, OnTheWay(p, j, m)
  PROVE  /\ p.type \in Encodable
         /\ m["type"] = TypeUrl(j)
         /\ TypeUrl(j) = IF p.type = "shadowsocks" /\ Is2022(j["method"])
                           THEN "shadowsocks_2022" ELSE p.type
<1>1. Account(j) # NoSettings /\ m["type"] = TypeUrl(j)
  BY MessageSent DEF OnTheWay
<1>2. TypeUrl(j) \in {"vmess", "vless", "trojan", "shadowsocks", "shadowsocks_2022", "socks",
                      "http"}
  BY <1>1, AccountSent
<1>3. j["protocol"] = p.type
  BY JsonShape DEF OnTheWay, Shaped
<1> QED  BY <1>1, <1>2, <1>3 DEF TypeUrl, Encodable, UsesStream

\* The address, the port and the account are in the message.
LEMMA AccountAgrees ==
  ASSUME NEW p, NEW j, NEW m, OnTheWay(p, j, m),
         NEW path \in DOMAIN AccountIdentity, path \in DOMAIN j, j[path] # Blank
  PROVE  AccountIdentity[path] \in DOMAIN m /\ m[AccountIdentity[path]] = j[path]
<1> DEFINE a == Account(j)
<1>1. /\ a # NoSettings
      /\ Keeps(m, a) /\ Keeps(m, Encode(ServerEndpoint, j))
  BY MessageSent DEF OnTheWay
<1>2. /\ p.type \in Encodable
      /\ TypeUrl(j) = IF p.type = "shadowsocks" /\ Is2022(j["method"])
                        THEN "shadowsocks_2022" ELSE p.type
      /\ Allowed(path, p)
  BY ProtocolAgrees, JsonShape DEF OnTheWay, Shaped
<1>3. path \in {"address", "port", "users.id", "users.flow", "users.user", "users.pass", "user",
                "pass"}
  BY AccountIdentityTable
<1> HIDE DEF a
<1>4. CASE path \in {"address", "port"}
  BY <1>1, <1>4, ServerEndpointSent, AccountIdentityTable DEF Keeps, SentAs
<1>5. CASE path = "users.id"
  <2>1. p.type \in {"vless", "vmess"}
    BY <1>2, <1>5 DEF Allowed, BasePath, StreamPath, TlsPath, RealityPath, GrpcPath, WsPath,
         XhttpPath,
         KcpPath, ServerPath, SOCKSPath, HTTPPath, SocksTlsPath
  <2> QED  BY <1>1, <1>2, <1>5, <2>1, AccountSent, AccountIdentityTable DEF Keeps, SentAs, a
<1>6. CASE path = "users.flow"
  <2>1. p.type = "vless"
    BY <1>2, <1>6 DEF Allowed, BasePath, StreamPath, TlsPath, RealityPath, GrpcPath, WsPath,
         XhttpPath,
         KcpPath, ServerPath, SOCKSPath, HTTPPath, SocksTlsPath, VMessPath
  <2> QED  BY <1>1, <1>2, <1>6, <2>1, AccountSent, AccountIdentityTable DEF Keeps, SentIfSet, a
<1>7. CASE path \in {"users.user", "users.pass"}
  <2>1. p.type = "socks"
    BY <1>2, <1>7 DEF Allowed, BasePath, StreamPath, TlsPath, RealityPath, GrpcPath, WsPath,
         XhttpPath,
         KcpPath, ServerPath, HTTPPath, SocksTlsPath, VMessPath, VLESSPath
  <2> QED  BY <1>1, <1>2, <1>7, <2>1, AccountSent, AccountIdentityTable DEF Keeps, SentAs, a
<1>8. CASE path \in {"user", "pass"}
  <2>1. p.type = "http"
    BY <1>2, <1>8 DEF Allowed, BasePath, StreamPath, TlsPath, RealityPath, GrpcPath, WsPath,
         XhttpPath,
         KcpPath, ServerPath, SOCKSPath, SocksTlsPath, VMessPath, VLESSPath
  <2> QED  BY <1>1, <1>2, <1>8, <2>1, AccountSent, AccountIdentityTable DEF Keeps, SentAs, a
<1> QED  BY <1>3, <1>4, <1>5, <1>6, <1>7, <1>8

\* What a part of the message keeps of a part of it is in the message.
LEMMA KeptThrough ==
  ASSUME NEW m, NEW whole, NEW part, Keeps(m, whole), Keeps(whole, part)
  PROVE  Keeps(m, part)
BY DEF Keeps

\* The security, and the names and keys that go with it, are in the message.
LEMMA SecurityAgrees ==
  ASSUME NEW p, NEW j, NEW m, OnTheWay(p, j, m),
         NEW path \in DOMAIN SecurityIdentity, path \in DOMAIN j, j[path] \notin Unset
  PROVE  SecurityIdentity[path] \in DOMAIN m /\ m[SecurityIdentity[path]] = j[path]
<1> DEFINE s == Security(j)
<1>1. Keeps(m, s)
  BY MessageSent, SenderSent, KeptThrough DEF OnTheWay
<1>2. Shaped(j, p) /\ p.type \in Encodable /\ Allowed(path, p)
  BY ProtocolAgrees, JsonShape DEF OnTheWay, Shaped
<1>3. path \in {"security", "tlsSettings.allowInsecure", "tlsSettings.serverName",
                "tlsSettings.alpn", "tlsSettings.fingerprint", "realitySettings.serverName",
                "realitySettings.publicKey", "realitySettings.shortId",
                "realitySettings.fingerprint"}
  BY SecurityIdentityTable
<1>4. j[path] # Blank  BY DEF Unset
<1> HIDE DEF s
<1>5. p.type \in UsesStream \/ p.type \in {"socks", "http"}
  BY <1>2 DEF Encodable
<1>6. CASE path = "security"
  <2>1. /\ p.streamsecurity \in {"tls", "reality", "none", "xtls"}
        /\ j["security"] = p.streamsecurity
    BY <1>2, <1>5, <1>6 DEF Shaped, HasStream, Allowed, BasePath, StreamPath, TlsPath, RealityPath,
         GrpcPath, WsPath, XhttpPath, KcpPath, ServerPath, SOCKSPath, HTTPPath, VMessPath, VLESSPath
  <2>2. At(j, "security") = j["security"]  BY <1>6 DEF At
  <2>3. At(j, "security") \in {"tls", "reality"}
    BY <1>6, <2>1, <2>2 DEF OnTheWay, Unset
  <2> QED  BY <1>1, <1>6, <2>2, <2>3, SecuritySent, SecurityIdentityTable DEF Keeps, s
<1>7. CASE path \in {"tlsSettings.allowInsecure", "tlsSettings.serverName",
                     "tlsSettings.alpn", "tlsSettings.fingerprint"}
  <2>1. p.streamsecurity = "tls"
    BY <1>2, <1>7 DEF OnTheWay, Allowed, BasePath, StreamPath, RealityPath, UsesStream,
         GrpcPath, WsPath, XhttpPath, KcpPath, ServerPath, SOCKSPath, HTTPPath, VMessPath, VLESSPath
  <2>2. At(j, "security") = "tls"
    BY <1>2, <1>5, <2>1 DEF Shaped, HasStream, At
  <2> QED  BY <1>1, <1>7, <2>2, SecuritySent, SecurityIdentityTable DEF Keeps, SentAs, s
<1>8. CASE path \in {"realitySettings.serverName", "realitySettings.publicKey",
                     "realitySettings.shortId", "realitySettings.fingerprint"}
  <2>1. p.type \in UsesStream /\ p.streamsecurity = "reality"
    BY <1>2, <1>8 DEF Allowed, BasePath, StreamPath, TlsPath, SocksTlsPath,
         GrpcPath, WsPath, XhttpPath, KcpPath, ServerPath, SOCKSPath, HTTPPath, VMessPath, VLESSPath
  <2>2. At(j, "security") = "reality" /\ "realitySettings.shortId" \in DOMAIN j
    BY <1>2, <2>1 DEF Shaped, HasStream, At
  <2> QED  BY <1>1, <1>4, <1>8, <2>2, SecuritySent, SecurityIdentityTable DEF Keeps, SentIfSet, s
<1> QED  BY <1>3, <1>6, <1>7, <1>8

\* The path, the host and the name of the service are in the message.
LEMMA TransportAgrees ==
  ASSUME NEW p, NEW j, NEW m, OnTheWay(p, j, m),
         NEW path \in DOMAIN TransportIdentity, path \in DOMAIN j
  PROVE  TransportIdentity[path] \in DOMAIN m /\ m[TransportIdentity[path]] = j[path]
<1> DEFINE t == Transport(j)
<1>1. Keeps(m, t)
  BY MessageSent, SenderSent, KeptThrough DEF OnTheWay
<1>2. Shaped(j, p) /\ p.type \in Encodable /\ Allowed(path, p)
  BY ProtocolAgrees, JsonShape DEF OnTheWay, Shaped
<1>3. path \in {"wsSettings.path", "wsSettings.host", "grpcSettings.serviceName",
                "xhttpSettings.path", "xhttpSettings.host", "xhttpSettings.mode"}
  BY TransportIdentityTable
<1> HIDE DEF t
<1>4. CASE path \in {"wsSettings.path", "wsSettings.host"}
  <2>1. p.type \in UsesStream /\ p.network = "ws"
    BY <1>2, <1>4 DEF Allowed, BasePath, StreamPath, TlsPath, RealityPath, SocksTlsPath,
         GrpcPath, XhttpPath, KcpPath, ServerPath, SOCKSPath, HTTPPath, VMessPath, VLESSPath
  <2>2. At(j, "network") = "ws"
    BY <1>2, <2>1, BlankIsNoName DEF Shaped, HasStream, At
  <2> QED  BY <1>1, <1>4, <2>2, TransportSent, TransportIdentityTable DEF Keeps, SentAs, t
<1>5. CASE path = "grpcSettings.serviceName"
  <2>1. p.type \in UsesStream /\ p.network = "grpc"
    BY <1>2, <1>5 DEF Allowed, BasePath, StreamPath, TlsPath, RealityPath, SocksTlsPath,
         WsPath, XhttpPath, KcpPath, ServerPath, SOCKSPath, HTTPPath, VMessPath, VLESSPath
  <2>2. At(j, "network") = "grpc"
    BY <1>2, <2>1, BlankIsNoName DEF Shaped, HasStream, At
  <2> QED  BY <1>1, <1>5, <2>2, TransportSent, TransportIdentityTable DEF Keeps, SentAs, t
<1>6. CASE path \in {"xhttpSettings.path", "xhttpSettings.host", "xhttpSettings.mode"}
  <2>1. p.type \in UsesStream /\ p.network = "xhttp"
    BY <1>2, <1>6 DEF Allowed, BasePath, StreamPath, TlsPath, RealityPath, SocksTlsPath,
         GrpcPath, WsPath, KcpPath, ServerPath, SOCKSPath, HTTPPath, VMessPath, VLESSPath
  <2>2. At(j, "network") = "xhttp"
    BY <1>2, <2>1, BlankIsNoName DEF Shaped, HasStream, At
  <2> QED  BY <1>1, <1>6, <2>2, TransportSent, TransportIdentityTable DEF Keeps, SentAs, t
<1> QED  BY <1>3, <1>4, <1>5, <1>6

\* The document has nothing that the encoder has no field for, but what is tolerated.
LEMMA NothingForgotten ==
  ASSUME NEW p, NEW j, NEW m, OnTheWay(p, j, m), NEW path \in DOMAIN j
  PROVE  path \in DOMAIN Identity \cup Tolerated \cup Reshaped
<1>1. Allowed(path, p)
  BY ProtocolAgrees, JsonShape DEF OnTheWay, Shaped
<1>2. \A x : x \in DOMAIN Identity <=>
        \/ x \in DOMAIN AccountIdentity \/ x \in DOMAIN SecurityIdentity
        \/ x \in DOMAIN TransportIdentity
  BY Together DEF Identity
<1>3. \/ path \in BasePath
      \/ path \in {"network", "security"}
      \/ path \in TlsPath \/ path \in RealityPath
      \/ path \in GrpcPath \/ path \in WsPath \/ path \in XhttpPath \/ path \in KcpPath
      \/ path \in VLESSPath \/ path \in VMessPath \/ path \in ServerPath
      \/ path \in SOCKSPath \/ path \in HTTPPath \/ path \in SocksTlsPath
  BY <1>1 DEF Allowed, StreamPath
<1>4. CASE path \in BasePath \/ path \in {"network", "security"}
  BY <1>2, <1>4, AccountIdentityTable, SecurityIdentityTable DEF BasePath, Reshaped
<1>5. CASE path \in TlsPath \/ path \in RealityPath \/ path \in SocksTlsPath
  BY <1>2, <1>5, SecurityIdentityTable DEF TlsPath, RealityPath, SocksTlsPath, Tolerated, Reshaped
<1>6. CASE path \in GrpcPath \/ path \in WsPath \/ path \in XhttpPath
  BY <1>2, <1>6, TransportIdentityTable DEF GrpcPath, WsPath, XhttpPath, Tolerated, Reshaped
<1>7. CASE path \in KcpPath  BY <1>7 DEF KcpPath, Tolerated, Reshaped
<1>8. CASE path \in VLESSPath \/ path \in VMessPath \/ path \in ServerPath
  BY <1>2, <1>8, AccountIdentityTable DEF VLESSPath, VMessPath, ServerPath, Tolerated, Reshaped
<1>9. CASE path \in SOCKSPath \/ path \in HTTPPath
  BY <1>2, <1>9, AccountIdentityTable DEF SOCKSPath, HTTPPath, Tolerated, Reshaped
<1> QED  BY <1>3, <1>4, <1>5, <1>6, <1>7, <1>8, <1>9

\* What makes the server reachable is in the message.
LEMMA IdentityAgrees ==
  ASSUME NEW p, NEW j, NEW m, OnTheWay(p, j, m),
         NEW path \in DOMAIN Identity, path \in DOMAIN j, j[path] \notin Unset
  PROVE  Identity[path] \in DOMAIN m /\ m[Identity[path]] = j[path]
<1>1. j[path] # Blank  BY DEF Unset
<1>2. CASE path \in DOMAIN AccountIdentity
  <2>1. Identity[path] = AccountIdentity[path]  BY <1>2, Together DEF Identity
  <2> QED  BY <1>1, <1>2, <2>1, AccountAgrees
<1>3. CASE path \in DOMAIN SecurityIdentity
  <2>1. path \notin DOMAIN AccountIdentity
    BY <1>3, AccountIdentityTable, SecurityIdentityTable
  <2>2. Identity[path] = SecurityIdentity[path]  BY <1>3, <2>1, Together DEF Identity
  <2> QED  BY <1>3, <2>2, SecurityAgrees
<1>4. CASE path \in DOMAIN TransportIdentity
  <2>1. path \notin DOMAIN AccountIdentity /\ path \notin DOMAIN SecurityIdentity
    BY <1>4, AccountIdentityTable, SecurityIdentityTable, TransportIdentityTable
  <2>2. Identity[path] = TransportIdentity[path]  BY <1>4, <2>1, Together DEF Identity
  <2> QED  BY <1>4, <2>2, TransportAgrees
<1>5. \/ path \in DOMAIN AccountIdentity \/ path \in DOMAIN SecurityIdentity
      \/ path \in DOMAIN TransportIdentity
  BY Together DEF Identity
<1> QED  BY <1>2, <1>3, <1>4, <1>5

\* The password is in the message, in one field or another.
LEMMA PasswordAgrees ==
  ASSUME NEW p, NEW j, NEW m, OnTheWay(p, j, m), "password" \in DOMAIN j
  PROVE  \E f \in {"account.password", "key"} \cap DOMAIN m : m[f] = j["password"]
<1>1. Account(j) # NoSettings /\ Keeps(m, Account(j))
  BY MessageSent DEF OnTheWay
<1>2. /\ Allowed("password", p)
      /\ TypeUrl(j) = IF p.type = "shadowsocks" /\ Is2022(j["method"])
                        THEN "shadowsocks_2022" ELSE p.type
  BY ProtocolAgrees, JsonShape DEF OnTheWay, Shaped
<1>3. p.type \in {"trojan", "shadowsocks"}
  BY <1>2 DEF Allowed, BasePath, StreamPath, TlsPath, RealityPath, SocksTlsPath,
       WsPath, GrpcPath, XhttpPath, KcpPath, SOCKSPath, HTTPPath, VMessPath, VLESSPath
<1>4. TypeUrl(j) \in {"trojan", "shadowsocks", "shadowsocks_2022"}
  BY <1>2, <1>3
<1> QED  BY <1>1, <1>4, AccountSent DEF Keeps

\* The cipher of VMess and of Shadowsocks is in the message, or it has no code.
LEMMA CipherIsSent ==
  ASSUME NEW p, NEW j, NEW m, OnTheWay(p, j, m)
  PROVE  /\ p.type = "vmess" =>
              SentCoded("account.security", j["users.security"], SecurityName, m)
         /\ p.type = "shadowsocks" /\ ~Is2022(j["method"]) =>
              SentCoded("account.cipher", j["method"], CipherName, m)
         /\ p.type = "shadowsocks" /\ Is2022(j["method"]) =>
              "method" \in DOMAIN m /\ m["method"] = j["method"]
<1>1. Account(j) # NoSettings /\ Keeps(m, Account(j))
  BY MessageSent DEF OnTheWay
<1>2. TypeUrl(j) = IF p.type = "shadowsocks" /\ Is2022(j["method"])
                     THEN "shadowsocks_2022" ELSE p.type
  BY ProtocolAgrees
<1> QED  BY <1>1, <1>2, AccountSent DEF Keeps, SentCoded

\* The network is sent under xray's name for it.
LEMMA NetworkAgrees ==
  ASSUME NEW p, NEW j, NEW m, OnTheWay(p, j, m), "network" \in DOMAIN j, j["network"] # Blank
  PROVE  m["protocol_name"] = TransportName[j["network"]]
<1>1. At(j, "network") = j["network"]  BY DEF At
<1>2. j["network"] \in {"tcp", "ws", "grpc", "kcp", "xhttp"}
  BY <1>1 DEF OnTheWay
<1>3. /\ j["network"] \in DOMAIN ProtocolName
      /\ ProtocolName[j["network"]] = TransportName[j["network"]]
  <2>1. /\ TransportName["tcp"] = "tcp" /\ TransportName["ws"] = "websocket"
        /\ TransportName["grpc"] = "grpc" /\ TransportName["kcp"] = "mkcp"
        /\ TransportName["xhttp"] = "splithttp"
    BY Together, OneSetting DEF TransportName
  <2> QED  BY <1>2, <2>1, ProtocolNameTable
<1>4. Keeps(m, SenderSettings(j))  BY MessageSent DEF OnTheWay
<1> QED  BY <1>1, <1>3, <1>4, SenderSent DEF Keeps

\* Where the document and the message come from.
Origin ==
  /\ stage \in {"built", "sent", "child"} =>
       \E p \in {subject, Normalized(subject)} : ~Throws(p) /\ json = OutboundJson(p)
  /\ stage = "sent" => proto = Message(json)

EncodingInv == EncodingTypeOK /\ Origin

\* A step builds the document from the profile, or the message from the document.
LEMMA OriginInvariant == EncodingInv /\ [EncodingNext]_encodingVars => Origin'
<1> SUFFICES ASSUME EncodingInv, [EncodingNext]_encodingVars  PROVE Origin'
  OBVIOUS
<1> USE DEF EncodingInv, Origin
<1>1. CASE BuildOutbound
  <2>1. PICK p \in {subject, Normalized(subject)} :
          IF Throws(p)
            THEN stage' = "failed" /\ UNCHANGED json
            ELSE stage' = "built" /\ json' = OutboundJson(p)
    BY <1>1 DEF BuildOutbound
  <2>2. subject' = subject  BY <1>1 DEF BuildOutbound
  <2>3. CASE Throws(p)  BY <2>1, <2>3
  <2>4. CASE ~Throws(p)  BY <2>1, <2>2, <2>4
  <2> QED  BY <2>3, <2>4
<1>2. CASE addOutboundDirect
  BY <1>2 DEF addOutboundDirect
<1>3. CASE UNCHANGED encodingVars
  BY <1>3 DEF encodingVars
<1> QED  BY <1>1, <1>2, <1>3 DEF EncodingNext

\* Normalizing changes the network and nothing else.
LEMMA NormalizedKeeps ==
  ASSUME subject \in Profiles, NEW p \in {subject, Normalized(subject)}
  PROVE  p.type = subject.type /\ p.streamsecurity = subject.streamsecurity
BY DEF Profiles, Normalized

\* From where they come from, the document and the message agree.
LEMMA AgreeByOrigin == EncodingInv => BothWaysAgree
<1> SUFFICES ASSUME EncodingInv, stage = "sent", Comparable  PROVE
      /\ proto["type"] = IF subject.type = "shadowsocks" /\ Is2022(json["method"])
                          THEN "shadowsocks_2022" ELSE subject.type
      /\ \A path \in DOMAIN Identity \cap DOMAIN json :
           json[path] \notin Unset =>
             Identity[path] \in DOMAIN proto /\ proto[Identity[path]] = json[path]
      /\ DOMAIN json \subseteq DOMAIN Identity \cup Tolerated \cup Reshaped
      /\ "password" \in DOMAIN json =>
           \E field \in {"account.password",
                         "key"} \cap DOMAIN proto : proto[field] = json["password"]
      /\ CipherAgrees
      /\ "network" \in DOMAIN json /\ json["network"] # Blank =>
           proto["protocol_name"] = TransportName[json["network"]]
  BY DEF BothWaysAgree
<1>1. PICK p \in {subject, Normalized(subject)} : ~Throws(p) /\ json = OutboundJson(p)
  BY DEF EncodingInv, Origin
<1>2. p.type = subject.type /\ p.streamsecurity = subject.streamsecurity
  BY <1>1, NormalizedKeeps DEF EncodingInv, EncodingTypeOK
<1>3. proto = Message(json) /\ proto # NoSettings
  BY DEF EncodingInv, EncodingTypeOK, Origin
<1>4. OnTheWay(p, json, proto)
  BY <1>1, <1>2, <1>3 DEF OnTheWay, Comparable, Throws
<1>5. proto["type"] = IF subject.type = "shadowsocks" /\ Is2022(json["method"])
                        THEN "shadowsocks_2022" ELSE subject.type
  BY <1>2, <1>4, ProtocolAgrees
<1>6. \A path \in DOMAIN Identity \cap DOMAIN json :
        json[path] \notin Unset =>
          Identity[path] \in DOMAIN proto /\ proto[Identity[path]] = json[path]
  BY <1>4, IdentityAgrees
<1>7. DOMAIN json \subseteq DOMAIN Identity \cup Tolerated \cup Reshaped
  BY <1>4, NothingForgotten
<1>8. "password" \in DOMAIN json =>
        \E field \in {"account.password", "key"} \cap DOMAIN proto : proto[field] = json["password"]
  BY <1>4, PasswordAgrees
<1>9. "network" \in DOMAIN json /\ json["network"] # Blank =>
        proto["protocol_name"] = TransportName[json["network"]]
  BY <1>4, NetworkAgrees
<1>10. CipherAgrees
  BY <1>2, <1>4, CipherIsSent DEF CipherAgrees, SentCoded
<1> QED  BY <1>5, <1>6, <1>7, <1>8, <1>9, <1>10

\* Whichever way an outbound of any profile takes, xray hears of the same server, account,
\* cipher, security and transport, but for a cipher without a code, and nothing but the
\* tolerated settings is left out
\* (ConfigBuilder's builders, XrayApi::parseOutboundJson() and jsonConfigToProtobuf()).
THEOREM BothWaysAgreeAlways == EncodingSpec => []BothWaysAgree
<1>1. EncodingInit => Origin
  BY DEF EncodingInit, Origin
<1>2. EncodingTypeOK /\ Origin /\ [EncodingNext]_encodingVars => Origin'
  BY OriginInvariant DEF EncodingInv
<1>3. EncodingTypeOK /\ Origin => BothWaysAgree
  BY AgreeByOrigin DEF EncodingInv
<1> QED  BY <1>1, <1>2, <1>3, EncodingTypeCorrect, PTL DEF EncodingSpec

(*************************** ShareLinks ***************************)

-----------------------------------------------------------------------------
(* Texts: what the builders and the parser make of a text is a text.        *)

IsText(t) == \E S : t \in Seq(S)
AreTexts(ts) == IsText(ts) /\ \A i \in DOMAIN ts : IsText(ts[i])

\* The positions of a text.
LEMMA TextIsNumbered ==
  ASSUME NEW t, IsText(t)
  PROVE  Len(t) \in Nat /\ DOMAIN t = 1 .. Len(t)
BY DEF IsText

\* Some words are a text.
LEMMA SmallTexts ==
  /\ IsText(<<>>)
  /\ \A x : IsText(<<x>>)
  /\ \A x, y : IsText(<<x, y>>)
  /\ \A x, y, z : IsText(<<x, y, z>>)
<1>1. IsText(<<>>)
  <2>1. <<>> \in Seq({})  OBVIOUS
  <2> QED  BY <2>1 DEF IsText
<1>2. ASSUME NEW x  PROVE IsText(<<x>>)
  <2>1. <<x>> \in Seq({x})  OBVIOUS
  <2> QED  BY <2>1 DEF IsText
<1>3. ASSUME NEW x, NEW y  PROVE IsText(<<x, y>>)
  <2>1. <<x, y>> \in Seq({x, y})  OBVIOUS
  <2> QED  BY <2>1 DEF IsText
<1>4. ASSUME NEW x, NEW y, NEW z  PROVE IsText(<<x, y, z>>)
  <2>1. <<x, y, z>> \in Seq({x, y, z})  OBVIOUS
  <2> QED  BY <2>1 DEF IsText
<1> QED  BY <1>1, <1>2, <1>3, <1>4

\* Two texts, one behind the other.
LEMMA JoinedTexts ==
  ASSUME NEW s, NEW t, IsText(s), IsText(t)
  PROVE  /\ IsText(s \o t)
         /\ Len(s \o t) = Len(s) + Len(t)
         /\ \A i \in DOMAIN (s \o t) :
              (s \o t)[i] = IF i <= Len(s) THEN s[i] ELSE t[i - Len(s)]
<1>1. PICK S : s \in Seq(S)  BY DEF IsText
<1>2. PICK T : t \in Seq(T)  BY DEF IsText
<1>3. s \in Seq(S \cup T) /\ t \in Seq(S \cup T)
  <2>1. \A i \in 1 .. Len(s) : s[i] \in S \cup T  BY <1>1
  <2>2. \A i \in 1 .. Len(t) : t[i] \in S \cup T  BY <1>2
  <2>3. s = [i \in 1 .. Len(s) |-> s[i]] /\ Len(s) \in Nat  BY <1>1
  <2>4. t = [i \in 1 .. Len(t) |-> t[i]] /\ Len(t) \in Nat  BY <1>2
  <2> QED  BY <1>1, <1>2, <2>1, <2>2, <2>3, <2>4
<1>4. s \o t \in Seq(S \cup T)  BY <1>3
<1>5. Len(s \o t) = Len(s) + Len(t)  BY <1>3
<1>6. ASSUME NEW i \in DOMAIN (s \o t)
      PROVE  (s \o t)[i] = IF i <= Len(s) THEN s[i] ELSE t[i - Len(s)]
  BY <1>3, <1>4, <1>5
<1> QED  BY <1>4, <1>5, <1>6 DEF IsText

\* A text with one more word at its end.
LEMMA LongerText ==
  ASSUME NEW s, NEW x, IsText(s)
  PROVE  /\ IsText(Append(s, x)) /\ Len(Append(s, x)) = Len(s) + 1
         /\ \A i \in DOMAIN Append(s, x) :
              Append(s, x)[i] = IF i <= Len(s) THEN s[i] ELSE x
<1>1. PICK S : s \in Seq(S)  BY DEF IsText
<1>2. s \in Seq(S \cup {x})
  <2>1. s = [i \in 1 .. Len(s) |-> s[i]] /\ Len(s) \in Nat  BY <1>1
  <2>2. \A i \in 1 .. Len(s) : s[i] \in S \cup {x}  BY <1>1
  <2> QED  BY <2>1, <2>2
<1>3. Append(s, x) \in Seq(S \cup {x})  BY <1>2
<1>4. Len(Append(s, x)) = Len(s) + 1  BY <1>2
<1>5. \A i \in DOMAIN Append(s, x) : Append(s, x)[i] = IF i <= Len(s) THEN s[i] ELSE x
  BY <1>2
<1> QED  BY <1>3, <1>4, <1>5 DEF IsText

\* A part of a text.
LEMMA PartOfText ==
  ASSUME NEW s, IsText(s), NEW m \in Nat \ {0}, NEW n \in Int, n <= Len(s)
  PROVE  /\ IsText(SubSeq(s, m, n))
         /\ \A i \in DOMAIN SubSeq(s, m, n) : \E j \in DOMAIN s : SubSeq(s, m, n)[i] = s[j]
<1>1. PICK S : s \in Seq(S)  BY DEF IsText
<1>2. Len(s) \in Nat /\ DOMAIN s = 1 .. Len(s)  BY <1>1
<1> DEFINE r == [i \in 1 .. (1 + n - m) |-> s[i + m - 1]]
<1>3. SubSeq(s, m, n) = r  OBVIOUS
<1>4. \A i \in 1 .. (1 + n - m) : i + m - 1 \in DOMAIN s  BY <1>2
<1>5. r \in Seq(S)
  <2>1. CASE 1 + n - m \in Nat
    <3>1. \A i \in 1 .. (1 + n - m) : s[i + m - 1] \in S  BY <1>1, <1>4
    <3> QED  BY <2>1, <3>1
  <2>2. CASE 1 + n - m \notin Nat
    <3>1. 1 .. (1 + n - m) = {} /\ 1 .. 0 = {}  BY <2>2
    <3>2. r = <<>>  BY <3>1
    <3> QED  BY <3>2
  <2> QED  BY <2>1, <2>2
<1>6. \A i \in DOMAIN r : \E j \in DOMAIN s : r[i] = s[j]  BY <1>4
<1> HIDE DEF r
<1> QED  BY <1>3, <1>5, <1>6 DEF IsText

\* A text without its last word.
LEMMA EndsOfText ==
  ASSUME NEW s, IsText(s)
  PROVE  /\ IsText(Front(s))
         /\ \A i \in DOMAIN Front(s) : \E j \in DOMAIN s : Front(s)[i] = s[j]
<1>1. Len(s) - 1 \in Int /\ Len(s) - 1 <= Len(s)  BY TextIsNumbered
<1> QED  BY <1>1, PartOfText, 1 \in Nat \ {0} DEF Front

PutPiece(c, ps, x) ==
  IF x = c THEN Append(ps, <<>>) ELSE Append(Front(ps), Append(Last(ps), x))
SomePieces(c, ps) == AreTexts(ps) /\ Len(ps) >= 1

Cutting == INSTANCE FoldTheory WITH op <- PutPiece, Good <- SomePieces

Hits(t, c) == {i \in DOMAIN t : t[i] = c}
FirstHit(t, c) == CHOOSE i \in Hits(t, c) : \A j \in Hits(t, c) : i <= j
CutAt(t, at) ==
  [found |-> TRUE, front |-> SubSeq(t, 1, at - 1), back |-> SubSeq(t, at + 1, Len(t))]
Uncut(t) == [found |-> FALSE, front |-> t, back |-> <<>>]

\* A text is cut into two.
LEMMA CutTexts ==
  ASSUME NEW t, NEW c, IsText(t)
  PROVE  /\ IsText(Cut(t, c).front) /\ IsText(Cut(t, c).back)
         /\ Cut(t, c).found \in BOOLEAN
<1>1. Cut(t, c) = IF Hits(t, c) = {} THEN Uncut(t) ELSE CutAt(t, FirstHit(t, c))
  BY Zenon DEF Cut, Hits, FirstHit, CutAt, Uncut
<1>2. CASE Hits(t, c) = {}
  <2>1. Cut(t, c) = Uncut(t)  BY <1>1, <1>2
  <2> QED  BY <2>1, SmallTexts DEF Uncut
<1>3. CASE Hits(t, c) # {}
  <2> DEFINE at == FirstHit(t, c)
  <2>1. Cut(t, c) = CutAt(t, at)  BY <1>1, <1>3
  <2>2. Hits(t, c) \subseteq 1 .. Len(t) /\ Len(t) \in Nat  BY TextIsNumbered DEF Hits
  <2>3. Hits(t, c) \subseteq Nat  BY <2>2
  <2>4. \E i \in Hits(t, c) : \A j \in Hits(t, c) : i <= j  BY <1>3, <2>3, Cutting!FoldLeast
  <2>5. at \in Hits(t, c)  BY <2>4 DEF FirstHit
  <2> HIDE DEF at
  <2>6. at \in 1 .. Len(t)  BY <2>2, <2>5
  <2>7. IsText(SubSeq(t, 1, at - 1))
    <3>1. at - 1 \in Int /\ at - 1 <= Len(t)  BY <2>2, <2>6
    <3> QED  BY <3>1, PartOfText, 1 \in Nat \ {0}
  <2>8. IsText(SubSeq(t, at + 1, Len(t)))
    <3>1. at + 1 \in Nat \ {0} /\ Len(t) \in Int /\ Len(t) <= Len(t)  BY <2>2, <2>6
    <3> QED  BY <3>1, PartOfText
  <2> QED  BY <2>1, <2>7, <2>8 DEF CutAt
<1> QED  BY <1>2, <1>3

-----------------------------------------------------------------------------
(* The folds over texts.                                                    *)

\* Texts with one more.
LEMMA MoreTexts ==
  ASSUME NEW ps, NEW p, AreTexts(ps), IsText(p)
  PROVE  AreTexts(Append(ps, p)) /\ Len(Append(ps, p)) = Len(ps) + 1
<1>1. /\ IsText(Append(ps, p)) /\ Len(Append(ps, p)) = Len(ps) + 1
      /\ \A i \in DOMAIN Append(ps, p) : Append(ps, p)[i] = IF i <= Len(ps) THEN ps[i] ELSE p
  BY LongerText DEF AreTexts
<1>2. /\ DOMAIN ps = 1 .. Len(ps) /\ Len(ps) \in Nat
      /\ DOMAIN Append(ps, p) = 1 .. (Len(ps) + 1)
  BY <1>1, TextIsNumbered DEF AreTexts
<1>3. ASSUME NEW i \in DOMAIN Append(ps, p)  PROVE IsText(Append(ps, p)[i])
  <2>1. CASE i <= Len(ps)
    <3>1. i \in DOMAIN ps /\ Append(ps, p)[i] = ps[i]  BY <1>1, <1>2, <2>1
    <3> QED  BY <3>1 DEF AreTexts
  <2>2. CASE ~ (i <= Len(ps))
    <3>1. Append(ps, p)[i] = p  BY <1>1, <2>2
    <3> QED  BY <3>1
  <2> QED  BY <2>1, <2>2
<1> QED  BY <1>1, <1>3 DEF AreTexts

\* getline() yields texts, at least one.
LEMMA PiecesAreTexts ==
  ASSUME NEW t, NEW c, IsText(t)
  PROVE  AreTexts(Pieces(t, c))
<1> DEFINE n == Len(t)
<1>1. n \in Nat /\ DOMAIN t = 1 .. n  BY TextIsNumbered
<1>2. SomePieces(c, <<<<>>>>)
  <2>1. IsText(<<<<>>>>) /\ IsText(<<>>)  BY SmallTexts
  <2>2. Len(<<<<>>>>) = 1 /\ DOMAIN <<<<>>>> = {1} /\ <<<<>>>>[1] = <<>>  OBVIOUS
  <2> QED  BY <2>1, <2>2 DEF SomePieces, AreTexts
<1>3. ASSUME NEW ps, NEW x, SomePieces(c, ps)
      PROVE  SomePieces(c, PutPiece(c, ps, x))
  <2>1. AreTexts(ps) /\ Len(ps) >= 1 /\ Len(ps) \in Nat /\ DOMAIN ps = 1 .. Len(ps)
    BY <1>3, TextIsNumbered DEF SomePieces, AreTexts
  <2>2. CASE x = c
    <3>1. AreTexts(Append(ps, <<>>)) /\ Len(Append(ps, <<>>)) >= 1
      BY <2>1, MoreTexts, SmallTexts
    <3> QED  BY <2>2, <3>1 DEF SomePieces, PutPiece
  <2>3. CASE x # c
    <3>1. IsText(Last(ps))  BY <2>1 DEF AreTexts, Last
    <3>2. IsText(Append(Last(ps), x))  BY <3>1, LongerText
    <3>3. AreTexts(Front(ps))
      <4>1. /\ IsText(Front(ps))
            /\ \A i \in DOMAIN Front(ps) : \E j \in DOMAIN ps : Front(ps)[i] = ps[j]
        BY <2>1, EndsOfText DEF AreTexts
      <4> QED  BY <2>1, <4>1 DEF AreTexts
    <3>4. Len(Front(ps)) \in Nat  BY <3>3, TextIsNumbered DEF AreTexts
    <3> DEFINE qs == Append(Front(ps), Append(Last(ps), x))
    <3>5. AreTexts(qs) /\ Len(qs) = Len(Front(ps)) + 1  BY <3>2, <3>3, MoreTexts
    <3> HIDE DEF qs
    <3>6. SomePieces(c, qs)  BY <3>4, <3>5 DEF SomePieces
    <3>7. PutPiece(c, ps, x) = qs  BY <2>3, Zenon DEF PutPiece, qs
    <3> QED  BY <3>6, <3>7
  <2> QED  BY <2>2, <2>3
<1> HIDE DEF n
<1>4. SomePieces(c, Cutting!Result(c, <<<<>>>>, t))
  BY <1>1, <1>2, <1>3, Cutting!FoldKeeps
<1>5. Pieces(t, c) = Cutting!Result(c, <<<<>>>>, t)
  BY Zenon DEF Pieces, FoldLeft, MapThenFoldSet, Max, Cutting!Result,
               Cutting!MapThenFoldSet, Cutting!Greatest, PutPiece
<1> QED  BY <1>4, <1>5 DEF SomePieces

JoinParam(k, t, p) == IF t = <<>> THEN p ELSE t \o <<"&">> \o p
EscapeNext(chars, t, x) == IF x \in chars THEN t \o <<"%", Code[x]>> ELSE Append(t, x)
EqualsEscaped(k, t, x) == t \o (IF x = "=" THEN <<"\\", "=">> ELSE <<x>>)
UnescapeNext(k, acc, x) ==
  CASE acc.open /\ x \in Codes ->
         [text |-> Append(Front(acc.text), Decoded(x)), open |-> FALSE]
    [] acc.open /\ x \in DOMAIN HexWord ->
         [text |-> Front(acc.text) \o <<"byte", HexWord[x]>>, open |-> FALSE]
    [] OTHER -> [text |-> Append(acc.text, x), open |-> x = "%"]
StaysText(k, t) == IsText(t)
HoldsText(k, acc) == IsText(acc.text)

Joining == INSTANCE FoldTheory WITH op <- JoinParam, Good <- StaysText
Escaping == INSTANCE FoldTheory WITH op <- EscapeNext, Good <- StaysText
Backslashed == INSTANCE FoldTheory WITH op <- EqualsEscaped, Good <- StaysText
Unescaping == INSTANCE FoldTheory WITH op <- UnescapeNext, Good <- HoldsText

\* Parameters joined to a query.
LEMMA JoinedIsText ==
  ASSUME NEW ps, AreTexts(ps)
  PROVE  IsText(Joined(ps))
<1>1. Len(ps) \in Nat /\ DOMAIN ps = 1 .. Len(ps)  BY TextIsNumbered DEF AreTexts
<1>2. StaysText(0, <<>>)  BY SmallTexts DEF StaysText
<1>3. ASSUME NEW t, NEW i \in 1 .. Len(ps), StaysText(0, t)
      PROVE  StaysText(0, JoinParam(0, t, ps[i]))
  <2>1. IsText(t) /\ IsText(ps[i])  BY <1>1, <1>3 DEF StaysText, AreTexts
  <2>2. IsText(t \o <<"&">>)  BY <2>1, SmallTexts, JoinedTexts
  <2>3. IsText(t \o <<"&">> \o ps[i])  BY <2>1, <2>2, JoinedTexts
  <2> QED  BY <2>1, <2>3 DEF StaysText, JoinParam
<1>4. StaysText(0, Joining!Result(0, <<>>, ps))
  BY <1>1, <1>2, <1>3, Joining!FoldKeeps
<1>5. Joined(ps) = Joining!Result(0, <<>>, ps)
  BY Zenon DEF Joined, FoldLeft, MapThenFoldSet, Max, Joining!Result,
               Joining!MapThenFoldSet, Joining!Greatest, JoinParam
<1> QED  BY <1>4, <1>5 DEF StaysText

\* A text whose special characters are escaped.
LEMMA EscapedIsText ==
  ASSUME NEW t, NEW chars, IsText(t)
  PROVE  IsText(Escaped(t, chars))
<1>1. Len(t) \in Nat /\ DOMAIN t = 1 .. Len(t)  BY TextIsNumbered
<1>2. StaysText(chars, <<>>)  BY SmallTexts DEF StaysText
<1>3. ASSUME NEW r, NEW x, StaysText(chars, r)
      PROVE  StaysText(chars, EscapeNext(chars, r, x))
  <2>1. IsText(r)  BY <1>3 DEF StaysText
  <2>2. IsText(r \o <<"%", Code[x]>>)  BY <2>1, SmallTexts, JoinedTexts
  <2>3. IsText(Append(r, x))  BY <2>1, LongerText
  <2> QED  BY <2>2, <2>3 DEF StaysText, EscapeNext
<1>4. StaysText(chars, Escaping!Result(chars, <<>>, t))
  BY <1>1, <1>2, <1>3, Escaping!FoldKeeps
<1>5. Escaped(t, chars) = Escaping!Result(chars, <<>>, t)
  BY Zenon DEF Escaped, FoldLeft, MapThenFoldSet, Max, Escaping!Result,
               Escaping!MapThenFoldSet, Escaping!Greatest, EscapeNext
<1> QED  BY <1>4, <1>5 DEF StaysText

\* The encodings of a URL.
LEMMA EncodedIsText ==
  ASSUME NEW t, IsText(t)
  PROVE  IsText(urlEncodeRemarksOrPath(t)) /\ IsText(urlEncodeStandard(t))
BY EscapedIsText DEF urlEncodeRemarksOrPath, urlEncodeStandard

\* One round of decoding.
LEMMA UnescapedIsText ==
  ASSUME NEW t, IsText(t)
  PROVE  IsText(Unescaped(t))
<1> DEFINE none == [text |-> <<>>, open |-> FALSE]
<1>1. Len(t) \in Nat /\ DOMAIN t = 1 .. Len(t)  BY TextIsNumbered
<1>2. HoldsText(0, none)  BY SmallTexts DEF HoldsText
<1>3. ASSUME NEW acc, NEW x, HoldsText(0, acc)
      PROVE  HoldsText(0, UnescapeNext(0, acc, x))
  <2>1. IsText(acc.text)  BY <1>3 DEF HoldsText
  <2>2. IsText(Append(Front(acc.text), Decoded(x)))  BY <2>1, EndsOfText, LongerText
  <2>3. IsText(Append(acc.text, x))  BY <2>1, LongerText
  <2>4. IsText(Front(acc.text) \o <<"byte", HexWord[x]>>)
    BY <2>1, EndsOfText, SmallTexts, JoinedTexts
  <2>5. UnescapeNext(0, acc, x) \in
          {[text |-> Append(Front(acc.text), Decoded(x)), open |-> FALSE],
           [text |-> Front(acc.text) \o <<"byte", HexWord[x]>>, open |-> FALSE],
           [text |-> Append(acc.text, x), open |-> x = "%"]}
    BY Zenon DEF UnescapeNext
  <2>6. UnescapeNext(0, acc, x).text \in
          {Append(Front(acc.text), Decoded(x)), Front(acc.text) \o <<"byte", HexWord[x]>>,
           Append(acc.text, x)}
    BY <2>5
  <2> QED  BY <2>2, <2>3, <2>4, <2>6, Zenon DEF HoldsText
<1>4. HoldsText(0, Unescaping!Result(0, none, t))
  <2> HIDE DEF none
  <2> QED  BY <1>1, <1>2, <1>3, Unescaping!FoldKeeps
<1>5. Unescaped(t) = Unescaping!Result(0, none, t).text
  BY Zenon DEF Unescaped, FoldLeft, MapThenFoldSet, Max, Unescaping!Result,
               Unescaping!MapThenFoldSet, Unescaping!Greatest, UnescapeNext
<1> QED  BY <1>4, <1>5 DEF HoldsText

\* urlDecode() of a text.
LEMMA DecodedIsText ==
  ASSUME NEW t, IsText(t)
  PROVE  IsText(urlDecode(t))
<1> DEFINE r == [i \in DOMAIN t |-> IF t[i] = "+" THEN " " ELSE t[i]]
<1>1. Len(t) \in Nat /\ DOMAIN t = 1 .. Len(t)  BY TextIsNumbered
<1>2. r \in Seq({r[i] : i \in 1 .. Len(t)})
  <2>1. r = [i \in 1 .. Len(t) |-> r[i]]  BY <1>1
  <2> HIDE DEF r
  <2> QED  BY <1>1, <2>1
<1>3. IsText(r)  BY <1>2 DEF IsText
<1>4. urlDecode(t) = Unescaped(Unescaped(r))  BY Zenon DEF urlDecode
<1> HIDE DEF r
<1> QED  BY <1>3, <1>4, UnescapedIsText

-----------------------------------------------------------------------------
(* Proxies: each column of one that is exported holds a text.               *)

IsProxy(p) == DOMAIN p = LinkColumn /\ \A c \in LinkColumn : IsText(p[c])

\* A proxy with another text in a column.
LEMMA ColumnChanged ==
  ASSUME NEW p, IsProxy(p), NEW c, NEW t, IsText(t)
  PROVE  IsProxy([p EXCEPT ![c] = t])
<1> DEFINE q == [p EXCEPT ![c] = t]
<1>1. DOMAIN q = LinkColumn  BY DEF IsProxy
<1>2. ASSUME NEW k \in LinkColumn  PROVE IsText(q[k])
  <2>1. IsText(p[k]) /\ k \in DOMAIN p  BY DEF IsProxy
  <2>2. CASE k = c
    <3>1. q[k] = t  BY <2>1, <2>2
    <3> QED  BY <3>1
  <2>3. CASE k # c
    <3>1. q[k] = p[k]  BY <2>1, <2>3
    <3> QED  BY <2>1, <3>1
  <2> QED  BY <2>2, <2>3
<1> HIDE DEF q
<1>3. IsProxy(q)  BY <1>1, <1>2 DEF IsProxy
<1> QED  BY <1>3 DEF q

\* Every column of a plain proxy is a word or empty.
LEMMA PlainIsProxy ==
  ASSUME NEW type, NEW network, NEW tls
  PROVE  IsProxy(Plain(type, network, tls))
<1>1. DOMAIN Plain(type, network, tls) = LinkColumn  BY Zenon DEF Plain
<1>2. ASSUME NEW c \in LinkColumn  PROVE IsText(Plain(type, network, tls)[c])
  <2>1. Plain(type, network, tls)[c] \in {<<>>, <<type>>, <<network>>, <<tls>>, <<c>>}
    BY Zenon DEF Plain
  <2> QED  BY <2>1, SmallTexts
<1> QED  BY <1>1, <1>2 DEF IsProxy

\* The columns may all be empty.
LEMMA NoProxyIsProxy == IsProxy(NoProxy)
BY SmallTexts DEF IsProxy, NoProxy

Variants(p) ==
       {p} \cup {[p EXCEPT ![c] = <<>>] : c \in Filled}
  \cup {[p EXCEPT ![c] = <<>> , !["requesthost"] = <<"sni">>] : c \in {"path", "sni"}}
  \cup {[p EXCEPT ![c] = <<c>> \o odd \o <<c>>] : c \in OddColumn, odd \in Oddity}
  \cup {[p EXCEPT !["address"] = a] : a \in AddressForm}

\* What differs from a proxy in a column is one.
LEMMA VariantsAreProxies ==
  ASSUME NEW p, IsProxy(p), NEW q \in Variants(p)
  PROVE  IsProxy(q)
<1> DEFINE Mixed(c, odd) == [p EXCEPT ![c] = <<c>> \o odd \o <<c>>]
<1>1. CASE q = p  BY <1>1
<1>2. ASSUME NEW c \in Filled, q = [p EXCEPT ![c] = <<>>]  PROVE IsProxy(q)
  BY <1>2, ColumnChanged, SmallTexts
<1>3. ASSUME NEW c, q = [p EXCEPT ![c] = <<>> , !["requesthost"] = <<"sni">>]
      PROVE  IsProxy(q)
  <2> DEFINE r == [p EXCEPT ![c] = <<>>]
  <2>1. IsProxy(r)  BY ColumnChanged, SmallTexts
  <2>2. q = [r EXCEPT !["requesthost"] = <<"sni">>]  BY <1>3
  <2> HIDE DEF r
  <2> QED  BY <2>1, <2>2, ColumnChanged, SmallTexts
<1>4. ASSUME NEW c \in OddColumn, NEW odd \in Oddity,
             q = Mixed(c, odd)
      PROVE  IsProxy(q)
  <2>1. IsText(odd)  BY SmallTexts DEF Oddity
  <2>2. IsText(<<c>> \o odd)  BY <2>1, SmallTexts, JoinedTexts
  <2>3. IsText(<<c>> \o odd \o <<c>>)  BY <2>2, SmallTexts, JoinedTexts
  <2> QED  BY <1>4, <2>3, ColumnChanged
<1>5. ASSUME NEW a \in AddressForm, q = [p EXCEPT !["address"] = a]  PROVE IsProxy(q)
  <2>1. IsText(<<"2001", ":", "1">>)  BY SmallTexts
  <2>2. IsText(<<"[", "2001", ":", "1", "]">>)
    <3>1. <<"[", "2001", ":", "1", "]">> \in Seq({"[", "2001", ":", "1", "]"})  OBVIOUS
    <3> QED  BY <3>1 DEF IsText
  <2>3. IsText(a)  BY <2>1, <2>2 DEF AddressForm
  <2> QED  BY <1>5, <2>3, ColumnChanged
<1> DEFINE Fill == {[p EXCEPT ![c] = <<>>] : c \in Filled}
           Pair == {[p EXCEPT ![c] = <<>> , !["requesthost"] = <<"sni">>] : c \in {"path", "sni"}}
           Odd == {Mixed(c, odd) : c \in OddColumn, odd \in Oddity}
           Form == {[p EXCEPT !["address"] = a] : a \in AddressForm}
<1>6. \/ q = p
      \/ \E c \in Filled : q = [p EXCEPT ![c] = <<>>]
      \/ \E c \in {"path", "sni"} : q = [p EXCEPT ![c] = <<>> , !["requesthost"] = <<"sni">>]
      \/ \E c \in OddColumn, odd \in Oddity : q = Mixed(c, odd)
      \/ \E a \in AddressForm : q = [p EXCEPT !["address"] = a]
  <2>1. Variants(p) = {p} \cup Fill \cup Pair \cup Odd \cup Form  BY SMT DEF Variants
  <2>2. q \in Fill => \E c \in Filled : q = [p EXCEPT ![c] = <<>>]  OBVIOUS
  <2>3. q \in Pair => \E c \in {"path", "sni"} : q = [p EXCEPT ![c] = <<>> , !["requesthost"] = <<"sni">>]
    BY SMT
  <2>4. q \in Odd => \E c \in OddColumn, odd \in Oddity : q = Mixed(c, odd)
    <3> HIDE DEF Mixed
    <3> QED  OBVIOUS
  <2>5. q \in Form => \E a \in AddressForm : q = [p EXCEPT !["address"] = a]  OBVIOUS
  <2> HIDE DEF Fill, Pair, Mixed, Odd, Form
  <2>6. q = p \/ q \in Fill \/ q \in Pair \/ q \in Odd \/ q \in Form  BY <2>1
  <2> QED  BY <2>2, <2>3, <2>4, <2>5, <2>6, Zenon
<1> HIDE DEF Mixed
<1> QED  BY <1>1, <1>2, <1>3, <1>4, <1>5, <1>6

\* Whatever is exported has a text in each column.
LEMMA SharedAreProxies ==
  ASSUME NEW p \in SharedProxies
  PROVE  IsProxy(p)
<1>1. SharedProxies = UNION {Variants(Plain(type, network, tls)) :
                             type \in LinkType, network \in LinkNetwork, tls \in LinkTls}
  BY DEF SharedProxies, Variants
<1>2. PICK type \in LinkType, network \in LinkNetwork, tls \in LinkTls :
         p \in Variants(Plain(type, network, tls))
  BY <1>1
<1> QED  BY <1>2, PlainIsProxy, VariantsAreProxies, Zenon

-----------------------------------------------------------------------------
(* Links: what a builder writes into a link is a text.                      *)

IsLine(l) == IsText(l.text) /\ (l.scheme = "ss" => IsText(l.coded.base64))

\* A link with a text is a line.
LEMMA LinkIsLine ==
  ASSUME NEW scheme, NEW plain, NEW text, IsText(text),
         scheme = "ss" => IsText(plain)
  PROVE  IsLine(Link(scheme, plain, text))
<1>1. /\ Link(scheme, plain, text).text = text /\ Link(scheme, plain, text).scheme = scheme
      /\ Link(scheme, plain, text).coded.base64 = plain
  BY DEF Link, base64Encode
<1> QED  BY <1>1, Zenon DEF IsLine

\* Texts, and more texts behind them.
LEMMA JoinedAreTexts ==
  ASSUME NEW ps, NEW qs, AreTexts(ps), AreTexts(qs)
  PROVE  AreTexts(ps \o qs)
<1>1. /\ IsText(ps \o qs) /\ Len(ps \o qs) = Len(ps) + Len(qs)
      /\ \A i \in DOMAIN (ps \o qs) :
           (ps \o qs)[i] = IF i <= Len(ps) THEN ps[i] ELSE qs[i - Len(ps)]
  BY JoinedTexts DEF AreTexts
<1>2. /\ DOMAIN ps = 1 .. Len(ps) /\ Len(ps) \in Nat /\ DOMAIN qs = 1 .. Len(qs) /\ Len(qs) \in Nat
      /\ DOMAIN (ps \o qs) = 1 .. Len(ps \o qs)
  BY <1>1, TextIsNumbered DEF AreTexts
<1>3. ASSUME NEW i \in DOMAIN (ps \o qs)  PROVE IsText((ps \o qs)[i])
  <2>1. CASE i <= Len(ps)
    <3>1. i \in DOMAIN ps /\ (ps \o qs)[i] = ps[i]  BY <1>1, <1>2, <2>1
    <3> QED  BY <3>1 DEF AreTexts
  <2>2. CASE ~ (i <= Len(ps))
    <3>1. i - Len(ps) \in DOMAIN qs /\ (ps \o qs)[i] = qs[i - Len(ps)]  BY <1>1, <1>2, <2>2
    <3> QED  BY <3>1 DEF AreTexts
  <2> QED  BY <2>1, <2>2
<1> QED  BY <1>1, <1>3 DEF AreTexts

\* No text, or one.
LEMMA FewTexts ==
  /\ AreTexts(<<>>)
  /\ \A t : IsText(t) => AreTexts(<<t>>)
<1>1. AreTexts(<<>>)  BY SmallTexts DEF AreTexts
<1>2. ASSUME NEW t, IsText(t)  PROVE AreTexts(<<t>>)
  <2>1. IsText(<<t>>) /\ DOMAIN <<t>> = {1} /\ <<t>>[1] = t  BY SmallTexts
  <2> QED  BY <1>2, <2>1 DEF AreTexts
<1> QED  BY <1>1, <1>2

\* What the builders write of a proxy.
LEMMA ParamsAreTexts ==
  ASSUME NEW p, IsProxy(p)
  PROVE  /\ \A c \in LinkColumn : \A key : AreTexts(Given(p, c, key))
         /\ AreTexts(GivenPath(p)) /\ AreTexts(SecurityParam(p))
         /\ IsText(NetworkOut(p)) /\ IsText(HostPort(p))
         /\ \A t : IsText(t) => IsText(Fragment(p, t))
         /\ \A c \in LinkColumn : IsText(p[c])
<1>1. \A c \in LinkColumn : IsText(p[c])  BY DEF IsProxy
<1>2. ASSUME NEW c \in LinkColumn, NEW key  PROVE AreTexts(Given(p, c, key))
  <2>1. IsText(<<key, "=">> \o p[c])  BY <1>1, SmallTexts, JoinedTexts
  <2> QED  BY <2>1, FewTexts DEF Given
<1>3. AreTexts(GivenPath(p))
  <2>1. IsText(p["path"])  BY <1>1 DEF LinkColumn
  <2>2. IsText(<<"path", "=">> \o urlEncodeRemarksOrPath(p["path"]))
    BY <2>1, EncodedIsText, SmallTexts, JoinedTexts
  <2> QED  BY <2>2, FewTexts DEF GivenPath
<1>4. AreTexts(SecurityParam(p))
  <2>1. AreTexts(Given(p, "streamsecurity", "security"))  BY <1>2 DEF LinkColumn
  <2> QED  BY <2>1, FewTexts DEF SecurityParam
<1>5. IsText(NetworkOut(p))
  <2>1. IsText(p["network"])  BY <1>1 DEF LinkColumn
  <2> QED  BY <2>1, SmallTexts DEF NetworkOut
<1>6. IsText(HostPort(p))
  <2>1. IsText(p["address"]) /\ IsText(p["port"])  BY <1>1 DEF LinkColumn
  <2>2. IsText(<<"@">> \o p["address"])  BY <2>1, SmallTexts, JoinedTexts
  <2>3. IsText(<<"@">> \o p["address"] \o <<":">>)  BY <2>2, SmallTexts, JoinedTexts
  <2>4. IsText(<<"@">> \o p["address"] \o <<":">> \o p["port"])  BY <2>1, <2>3, JoinedTexts
  <2> QED  BY <2>4 DEF HostPort
<1>7. ASSUME NEW t, IsText(t)  PROVE IsText(Fragment(p, t))
  <2>1. IsText(<<"#">> \o t)  BY <1>7, SmallTexts, JoinedTexts
  <2> QED  BY <2>1, SmallTexts DEF Fragment
<1> QED  BY <1>1, <1>2, <1>3, <1>4, <1>5, <1>6, <1>7

\* The text of a link with a query.
LEMMA QueriedLink ==
  ASSUME NEW p, IsProxy(p), NEW query, IsText(query), NEW rest, IsText(rest)
  PROVE  IsText(p["id"] \o HostPort(p) \o <<"?">> \o query \o Fragment(p, rest))
<1>1. IsText(p["id"]) /\ IsText(HostPort(p)) /\ IsText(Fragment(p, rest))
  BY ParamsAreTexts DEF LinkColumn
<1>2. IsText(p["id"] \o HostPort(p))  BY <1>1, JoinedTexts
<1>3. IsText(p["id"] \o HostPort(p) \o <<"?">>)  BY <1>2, SmallTexts, JoinedTexts
<1>4. IsText(p["id"] \o HostPort(p) \o <<"?">> \o query)  BY <1>3, JoinedTexts
<1> QED  BY <1>1, <1>4, JoinedTexts

\* The builder of VLESS and TUIC.
LEMMA VLESSIsLine ==
  ASSUME NEW p, IsProxy(p)
  PROVE  IsLine(VLESSLink(p))
<1> DEFINE a == <<<<"encryption", "=", "none">>>> \o SecurityParam(p)
           b == a \o Given(p, "sni", "sni") \o Given(p, "publickey", "pbk")
           c == b \o Given(p, "shortid", "sid") \o Given(p, "flow", "flow")
           d == c \o <<<<"type", "=">> \o NetworkOut(p)>>
           e == d \o Given(p, "requesthost", "host") \o GivenPath(p)
           rest == urlEncodeRemarksOrPath(p["remarks"])
<1>1. VLESSLink(p) = Link("vless", <<>>, p["id"] \o HostPort(p) \o <<"?">> \o Joined(e)
                                         \o Fragment(p, rest))
  BY Zenon DEF VLESSLink
<1>2. AreTexts(a)
  <2>1. AreTexts(<<<<"encryption", "=", "none">>>>)  BY SmallTexts, FewTexts
  <2> QED  BY <2>1, ParamsAreTexts, JoinedAreTexts
<1> HIDE DEF a
<1>3. AreTexts(b)
  <2>1. AreTexts(Given(p, "sni", "sni")) /\ AreTexts(Given(p, "publickey", "pbk"))
    BY ParamsAreTexts DEF LinkColumn
  <2>2. AreTexts(a \o Given(p, "sni", "sni"))  BY <1>2, <2>1, JoinedAreTexts
  <2> QED  BY <2>1, <2>2, JoinedAreTexts
<1> HIDE DEF b
<1>4. AreTexts(c)
  <2>1. AreTexts(Given(p, "shortid", "sid")) /\ AreTexts(Given(p, "flow", "flow"))
    BY ParamsAreTexts DEF LinkColumn
  <2>2. AreTexts(b \o Given(p, "shortid", "sid"))  BY <1>3, <2>1, JoinedAreTexts
  <2> QED  BY <2>1, <2>2, JoinedAreTexts
<1> HIDE DEF c
<1>5. AreTexts(d)
  <2>1. IsText(<<"type", "=">> \o NetworkOut(p))  BY ParamsAreTexts, SmallTexts, JoinedTexts
  <2>2. AreTexts(<<<<"type", "=">> \o NetworkOut(p)>>)  BY <2>1, FewTexts
  <2> QED  BY <1>4, <2>2, JoinedAreTexts
<1> HIDE DEF d
<1>6. AreTexts(e)
  <2>1. AreTexts(Given(p, "requesthost", "host")) /\ AreTexts(GivenPath(p))
    BY ParamsAreTexts DEF LinkColumn
  <2>2. AreTexts(d \o Given(p, "requesthost", "host"))  BY <1>5, <2>1, JoinedAreTexts
  <2> QED  BY <2>1, <2>2, JoinedAreTexts
<1> HIDE DEF e
<1>7. IsText(rest)
  <2>1. IsText(p["remarks"])  BY ParamsAreTexts DEF LinkColumn
  <2> QED  BY <2>1, EncodedIsText
<1> HIDE DEF rest
<1>8. IsText(p["id"] \o HostPort(p) \o <<"?">> \o Joined(e) \o Fragment(p, rest))
  BY <1>6, <1>7, JoinedIsText, QueriedLink
<1> QED  BY <1>1, <1>8, LinkIsLine

\* The builder of Trojan.
LEMMA TrojanIsLine ==
  ASSUME NEW p, IsProxy(p)
  PROVE  IsLine(TrojanLink(p))
<1> DEFINE type == IF NetworkOut(p) = <<"tcp">> THEN <<>> ELSE Given(p, "network", "type")
           a == SecurityParam(p) \o Given(p, "sni", "sni") \o <<<<"insecure", "=", "0">>>>
           b == a \o type
           c == b \o Given(p, "requesthost", "host") \o GivenPath(p)
           rest == urlEncodeRemarksOrPath(p["remarks"])
<1>1. TrojanLink(p) = Link("trojan", <<>>, p["id"] \o HostPort(p) \o <<"?">> \o Joined(c)
                                           \o Fragment(p, rest))
  BY Zenon DEF TrojanLink
<1>2. AreTexts(a)
  <2>1. AreTexts(SecurityParam(p)) /\ AreTexts(Given(p, "sni", "sni"))
    BY ParamsAreTexts DEF LinkColumn
  <2>2. AreTexts(<<<<"insecure", "=", "0">>>>)  BY SmallTexts, FewTexts
  <2>3. AreTexts(SecurityParam(p) \o Given(p, "sni", "sni"))  BY <2>1, JoinedAreTexts
  <2> QED  BY <2>2, <2>3, JoinedAreTexts
<1>3. AreTexts(type)
  <2>1. AreTexts(Given(p, "network", "type"))  BY ParamsAreTexts DEF LinkColumn
  <2> QED  BY <2>1, FewTexts
<1> HIDE DEF a, type
<1>4. AreTexts(b)  BY <1>2, <1>3, JoinedAreTexts
<1> HIDE DEF b
<1>5. AreTexts(c)
  <2>1. AreTexts(Given(p, "requesthost", "host")) /\ AreTexts(GivenPath(p))
    BY ParamsAreTexts DEF LinkColumn
  <2>2. AreTexts(b \o Given(p, "requesthost", "host"))  BY <1>4, <2>1, JoinedAreTexts
  <2> QED  BY <2>1, <2>2, JoinedAreTexts
<1> HIDE DEF c
<1>6. IsText(rest)
  <2>1. IsText(p["remarks"])  BY ParamsAreTexts DEF LinkColumn
  <2> QED  BY <2>1, EncodedIsText
<1> HIDE DEF rest
<1>7. IsText(p["id"] \o HostPort(p) \o <<"?">> \o Joined(c) \o Fragment(p, rest))
  BY <1>5, <1>6, JoinedIsText, QueriedLink
<1> QED  BY <1>1, <1>7, LinkIsLine

\* The builder of Hysteria2.
LEMMA Hysteria2IsLine ==
  ASSUME NEW p, IsProxy(p)
  PROVE  IsLine(Hysteria2Link(p))
<1> DEFINE path == IF p["path"] = <<>> THEN <<>>
                   ELSE <<<<"path", "=">> \o urlEncodeStandard(p["path"])>>
           sni == IF p["sni"] = <<>> THEN <<>>
                  ELSE <<<<"sni", "=">> \o urlEncodeStandard(p["sni"])>>
           query == Joined(path \o sni)
           asked == IF query = <<>> THEN <<>> ELSE <<"?">> \o query
           rest == urlEncodeStandard(p["remarks"])
<1>1. Hysteria2Link(p) = Link("hy2", <<>>, p["id"] \o HostPort(p) \o asked \o Fragment(p, rest))
  BY Zenon DEF Hysteria2Link
<1>2. IsText(p["path"]) /\ IsText(p["sni"]) /\ IsText(p["remarks"]) /\ IsText(p["id"])
  BY ParamsAreTexts DEF LinkColumn
<1>3. AreTexts(path)
  <2>1. IsText(<<"path", "=">> \o urlEncodeStandard(p["path"]))
    BY <1>2, EncodedIsText, SmallTexts, JoinedTexts
  <2> QED  BY <2>1, FewTexts
<1>4. AreTexts(sni)
  <2>1. IsText(<<"sni", "=">> \o urlEncodeStandard(p["sni"]))
    BY <1>2, EncodedIsText, SmallTexts, JoinedTexts
  <2> QED  BY <2>1, FewTexts
<1> HIDE DEF path, sni
<1>5. IsText(query)  BY <1>3, <1>4, JoinedAreTexts, JoinedIsText
<1> HIDE DEF query
<1>6. IsText(asked)
  <2>1. IsText(<<"?">> \o query)  BY <1>5, SmallTexts, JoinedTexts
  <2> QED  BY <2>1, SmallTexts
<1>7. IsText(Fragment(p, rest))  BY <1>2, EncodedIsText, ParamsAreTexts
<1> HIDE DEF asked, rest
<1>8. IsText(p["id"] \o HostPort(p) \o asked \o Fragment(p, rest))
  <2>1. IsText(p["id"] \o HostPort(p))  BY <1>2, ParamsAreTexts, JoinedTexts
  <2>2. IsText(p["id"] \o HostPort(p) \o asked)  BY <1>6, <2>1, JoinedTexts
  <2> QED  BY <1>7, <2>2, JoinedTexts
<1> QED  BY <1>1, <1>8, LinkIsLine

\* The path of a plugin, with its backslashes.
LEMMA SSPathIsText ==
  ASSUME NEW p, IsProxy(p)
  PROVE  IsText(SSPath(p))
<1> DEFINE t == p["path"]
<1>1. IsText(t)  BY ParamsAreTexts DEF LinkColumn
<1>2. Len(t) \in Nat /\ DOMAIN t = 1 .. Len(t)  BY <1>1, TextIsNumbered
<1>3. StaysText(0, <<>>)  BY SmallTexts DEF StaysText
<1>4. ASSUME NEW r, NEW x, StaysText(0, r)
      PROVE  StaysText(0, EqualsEscaped(0, r, x))
  <2>1. IsText(r)  BY <1>4 DEF StaysText
  <2>2. IsText(r \o (IF x = "=" THEN <<"\\", "=">> ELSE <<x>>))
    BY <2>1, SmallTexts, JoinedTexts
  <2> QED  BY <2>2 DEF StaysText, EqualsEscaped
<1>5. StaysText(0, Backslashed!Result(0, <<>>, t))
  <2> HIDE DEF t
  <2> QED  BY <1>2, <1>3, <1>4, Backslashed!FoldKeeps
<1>6. SSPath(p) = urlEncodeRemarksOrPath(Backslashed!Result(0, <<>>, t))
  BY Zenon DEF SSPath, FoldLeft, MapThenFoldSet, Max, Backslashed!Result,
               Backslashed!MapThenFoldSet, Backslashed!Greatest, EqualsEscaped
<1> QED  BY <1>5, <1>6, EncodedIsText DEF StaysText

\* An option of a plugin.
LEMMA OptionIsText ==
  ASSUME NEW key, NEW text, IsText(key), IsText(text)
  PROVE  IsText(PluginOption(key, text))
<1>1. IsText(<<"%", "3B">> \o key)  BY SmallTexts, JoinedTexts
<1>2. IsText(<<"%", "3B">> \o key \o <<"%", "3D">>)  BY <1>1, SmallTexts, JoinedTexts
<1>3. IsText(<<"%", "3B">> \o key \o <<"%", "3D">> \o text)  BY <1>2, JoinedTexts
<1> QED  BY <1>3 DEF PluginOption

\* Shadowsocks' query, for each network.
LEMMA SSQueryIsText ==
  ASSUME NEW p, IsProxy(p)
  PROVE  IsText(SSQuery(p))
<1> DEFINE host == IF p["sni"] = <<>> THEN <<>> ELSE PluginOption(<<"host">>, p["sni"])
           path == IF p["path"] = <<>> THEN <<>> ELSE PluginOption(<<"path">>, SSPath(p))
           tls == IF p["streamsecurity"] = <<"tls">> THEN <<"%", "3B", "tls">> ELSE <<>>
           plugin == <<"plugin", "=", "v2ray-plugin">> \o PluginOption(<<"mode">>, <<"websocket">>)
                     \o host \o path \o tls \o PluginOption(<<"mux">>, <<"0">>)
           obfspath == IF p["path"] = <<>> THEN <<>>
                       ELSE <<<<"obfs-path", "=">> \o urlEncodeRemarksOrPath(p["path"])>>
           obfs == Joined(<<<<"obfs", "=">> \o p["network"]>> \o obfspath)
<1>1. SSQuery(p) \in {plugin, <<>>, obfs}
  BY Zenon DEF SSQuery
<1>2. IsText(p["path"]) /\ IsText(p["sni"]) /\ IsText(p["network"])
  BY ParamsAreTexts DEF LinkColumn
<1>3. IsText(host) /\ IsText(path) /\ IsText(tls)
  <2>1. IsText(PluginOption(<<"host">>, p["sni"]))  BY <1>2, SmallTexts, OptionIsText
  <2>2. IsText(PluginOption(<<"path">>, SSPath(p)))  BY SSPathIsText, SmallTexts, OptionIsText
  <2> QED  BY <2>1, <2>2, SmallTexts
<1>4. AreTexts(obfspath)
  <2>1. IsText(<<"obfs-path", "=">> \o urlEncodeRemarksOrPath(p["path"]))
    BY <1>2, EncodedIsText, SmallTexts, JoinedTexts
  <2> QED  BY <2>1, FewTexts
<1> HIDE DEF host, path, tls, obfspath
<1>5. IsText(plugin)
  <2>1. IsText(PluginOption(<<"mode">>, <<"websocket">>))  BY SmallTexts, OptionIsText
  <2>2. IsText(PluginOption(<<"mux">>, <<"0">>))  BY SmallTexts, OptionIsText
  <2> DEFINE a == <<"plugin", "=", "v2ray-plugin">> \o PluginOption(<<"mode">>, <<"websocket">>)
  <2>3. IsText(a)  BY <2>1, SmallTexts, JoinedTexts
  <2> HIDE DEF a
  <2>4. IsText(a \o host)  BY <1>3, <2>3, JoinedTexts
  <2>5. IsText(a \o host \o path)  BY <1>3, <2>4, JoinedTexts
  <2>6. IsText(a \o host \o path \o tls)  BY <1>3, <2>5, JoinedTexts
  <2>7. IsText(a \o host \o path \o tls \o PluginOption(<<"mux">>, <<"0">>))
    BY <2>2, <2>6, JoinedTexts
  <2> QED  BY <2>7 DEF a
<1>6. IsText(obfs)
  <2>1. IsText(<<"obfs", "=">> \o p["network"])  BY <1>2, SmallTexts, JoinedTexts
  <2>2. AreTexts(<<<<"obfs", "=">> \o p["network"]>>)  BY <2>1, FewTexts
  <2> QED  BY <1>4, <2>2, JoinedAreTexts, JoinedIsText
<1> HIDE DEF plugin, obfs
<1> QED  BY <1>1, <1>5, <1>6, SmallTexts

\* The builder of Shadowsocks.
LEMMA SSIsLine ==
  ASSUME NEW p, IsProxy(p)
  PROVE  IsLine(SSLink(p))
<1> DEFINE asked == IF SSQuery(p) = <<>> THEN <<>> ELSE <<"?">> \o SSQuery(p)
           rest == Escaped(p["remarks"], {" ", "|"})
<1>1. SSLink(p) = Link("ss", p["security"] \o <<":">> \o p["id"],
                       HostPort(p) \o asked \o Fragment(p, rest))
  BY Zenon DEF SSLink
<1>2. IsText(p["security"]) /\ IsText(p["id"]) /\ IsText(p["remarks"])
  BY ParamsAreTexts DEF LinkColumn
<1>3. IsText(p["security"] \o <<":">> \o p["id"])
  <2>1. IsText(p["security"] \o <<":">>)  BY <1>2, SmallTexts, JoinedTexts
  <2> QED  BY <1>2, <2>1, JoinedTexts
<1>4. IsText(asked)
  <2>1. IsText(<<"?">> \o SSQuery(p))  BY SSQueryIsText, SmallTexts, JoinedTexts
  <2> QED  BY <2>1, SmallTexts
<1>5. IsText(Fragment(p, rest))  BY <1>2, EscapedIsText, ParamsAreTexts
<1> HIDE DEF asked, rest
<1>6. IsText(HostPort(p) \o asked \o Fragment(p, rest))
  <2>1. IsText(HostPort(p) \o asked)  BY <1>4, ParamsAreTexts, JoinedTexts
  <2> QED  BY <1>5, <2>1, JoinedTexts
<1> QED  BY <1>1, <1>3, <1>6, LinkIsLine

\* The builder of VMess.
LEMMA VMessIsLine ==
  ASSUME NEW p
  PROVE  IsLine(VMessLink(p))
<1> DEFINE plain == [key \in {JsonKey[c] : c \in DOMAIN JsonKey} |->
                       jsonEncode(p[CHOOSE c \in DOMAIN JsonKey : JsonKey[c] = key])]
<1>1. VMessLink(p) = Link("vmess", plain, <<>>)  BY Zenon DEF VMessLink
<1> HIDE DEF plain
<1> QED  BY <1>1, SmallTexts, LinkIsLine

\* A proxy gives at most one link.
LEMMA ShareIsLine ==
  ASSUME NEW p, IsProxy(p)
  PROVE  \/ toShareUri(p) = <<>>
         \/ \E l : IsLine(l) /\ toShareUri(p) = <<l>>
<1>1. toShareUri(p) \in {<<VMessLink(p)>>, <<SSLink(p)>>, <<VLESSLink(p)>>, <<TrojanLink(p)>>,
                         <<Hysteria2Link(p)>>, <<>>}
  BY Zenon DEF toShareUri
<1> QED
  BY <1>1, VMessIsLine, SSIsLine, VLESSIsLine, TrojanIsLine, Hysteria2IsLine

-----------------------------------------------------------------------------
(* Reading: what the parser makes of a line has every column.               *)

HasColumns(p) == DOMAIN p = LinkColumn
KeepsColumns(k, p) == HasColumns(p)

AssignParam(keys, q, param) ==
  LET kv == Cut(param, "=")
      key == IF Len(kv.front) = 1 THEN kv.front[1] ELSE ""
  IN  IF kv.found /\ key \in DOMAIN keys THEN [q EXCEPT ![keys[key]] = urlDecode(kv.back)]
      ELSE q

TakeOption(k, q, option) ==
  LET kv == Cut(option, "=") IN
  CASE kv.front = <<"mode">> /\ kv.back = <<"websocket">> -> [q EXCEPT !["network"] = <<"ws">>]
    [] kv.found /\ kv.front = <<"path">> -> [q EXCEPT !["path"] = kv.back]
    [] kv.found /\ kv.front = <<"host">> -> [q EXCEPT !["requesthost"] = kv.back]
    [] kv.found /\ kv.front = <<"sni">> -> [q EXCEPT !["sni"] = kv.back]
    [] kv.found /\ kv.front = <<"tls">> -> [q EXCEPT !["streamsecurity"] = <<"tls">>]
    [] OTHER -> q

Assigning == INSTANCE FoldTheory WITH op <- AssignParam, Good <- KeepsColumns
TakingOptions == INSTANCE FoldTheory WITH op <- TakeOption, Good <- KeepsColumns

\* A column is assigned.
LEMMA ChangedHasColumns ==
  ASSUME NEW p, HasColumns(p), NEW c, NEW t
  PROVE  HasColumns([p EXCEPT ![c] = t])
BY DEF HasColumns

\* The parameters of a query are assigned one by one.
LEMMA AssignedHasColumns ==
  ASSUME NEW p, HasColumns(p), NEW keys, NEW query, IsText(query)
  PROVE  HasColumns(Assigned(p, keys, query))
<1> DEFINE ps == Pieces(query, "&")
<1>1. Len(ps) \in Nat /\ DOMAIN ps = 1 .. Len(ps)
  BY PiecesAreTexts, TextIsNumbered DEF AreTexts
<1>2. KeepsColumns(keys, p)  BY DEF KeepsColumns
<1>3. ASSUME NEW q, NEW param, KeepsColumns(keys, q)
      PROVE  KeepsColumns(keys, AssignParam(keys, q, param))
  <2>1. \/ AssignParam(keys, q, param) = q
        \/ \E c, t : AssignParam(keys, q, param) = [q EXCEPT ![c] = t]
    BY Zenon DEF AssignParam
  <2>2. HasColumns(q)  BY <1>3 DEF KeepsColumns
  <2>3. HasColumns(AssignParam(keys, q, param))  BY <2>1, <2>2, ChangedHasColumns
  <2> QED  BY <2>3 DEF KeepsColumns
<1>4. KeepsColumns(keys, Assigning!Result(keys, p, ps))
  <2> HIDE DEF ps
  <2> QED  BY <1>1, <1>2, <1>3, Assigning!FoldKeeps
<1>5. Assigned(p, keys, query) = Assigning!Result(keys, p, ps)
  BY Zenon DEF Assigned, FoldLeft, MapThenFoldSet, Max, Assigning!Result,
               Assigning!MapThenFoldSet, Assigning!Greatest, AssignParam
<1> QED  BY <1>4, <1>5 DEF KeepsColumns

\* The options of a plugin are assigned one by one.
LEMMA PluginHasColumns ==
  ASSUME NEW p, HasColumns(p), NEW options, IsText(options)
  PROVE  HasColumns(PluginRead(p, options))
<1> DEFINE ps == Pieces(options, ";")
<1>1. Len(ps) \in Nat /\ DOMAIN ps = 1 .. Len(ps)
  BY PiecesAreTexts, TextIsNumbered DEF AreTexts
<1>2. KeepsColumns(0, p)  BY DEF KeepsColumns
<1>3. ASSUME NEW q, NEW option, KeepsColumns(0, q)
      PROVE  KeepsColumns(0, TakeOption(0, q, option))
  <2> DEFINE back == Cut(option, "=").back
  <2>1. TakeOption(0, q, option) \in
          {[q EXCEPT !["network"] = <<"ws">>], [q EXCEPT !["path"] = back],
           [q EXCEPT !["requesthost"] = back], [q EXCEPT !["sni"] = back],
           [q EXCEPT !["streamsecurity"] = <<"tls">>], q}
    BY Zenon DEF TakeOption
  <2>2. HasColumns(q)  BY <1>3 DEF KeepsColumns
  <2> HIDE DEF back
  <2>3. HasColumns(TakeOption(0, q, option))  BY <2>1, <2>2, ChangedHasColumns
  <2> QED  BY <2>3 DEF KeepsColumns
<1>4. KeepsColumns(0, TakingOptions!Result(0, p, ps))
  <2> HIDE DEF ps
  <2> QED  BY <1>1, <1>2, <1>3, TakingOptions!FoldKeeps
<1>5. PluginRead(p, options) = TakingOptions!Result(0, p, ps)
  BY Zenon DEF PluginRead, FoldLeft, MapThenFoldSet, Max, TakingOptions!Result,
               TakingOptions!MapThenFoldSet, TakingOptions!Greatest, TakeOption
<1> QED  BY <1>4, <1>5 DEF KeepsColumns

\* A proxy before its query is read.
LEMMA EnteredHasColumns ==
  ASSUME NEW type, NEW network, NEW id, NEW target
  PROVE  HasColumns(Entered(type, network, id, target))
BY DEF HasColumns, Entered, NoProxy

\* A server name makes a proxy secure.
LEMMA TlsHasColumns ==
  ASSUME NEW p, HasColumns(p)
  PROVE  HasColumns(TlsBySni(p))
BY DEF HasColumns, TlsBySni

\* The parts of a link are texts.
LEMMA UriIsText ==
  ASSUME NEW text, IsText(text)
  PROVE  IsText(Uri(text).query) /\ IsText(Uri(text).target)
<1> DEFINE at == Cut(text, "@")
           host == Cut(at.back, "?")
           query == Cut(host.back, "#")
<1>1. Uri(text).query = query.front /\ Uri(text).target = host.front
  BY DEF Uri
<1>2. IsText(at.back)  BY CutTexts
<1>3. IsText(host.front) /\ IsText(host.back)  BY <1>2, CutTexts
<1>4. IsText(query.front)  BY <1>3, CutTexts
<1> QED  BY <1>1, <1>3, <1>4, Zenon

\* A proxy after its query is read.
LEMMA QueriedHasColumns ==
  ASSUME NEW p, HasColumns(p), NEW keys, NEW text, IsText(text)
  PROVE  HasColumns(Queried(p, keys, Uri(text)))
<1>1. IsText(Uri(text).query)  BY UriIsText
<1>2. HasColumns(Assigned(p, keys, Uri(text).query))  BY <1>1, AssignedHasColumns
<1> QED  BY <1>2 DEF HasColumns, Queried

Refusals == {"empty", "comment", "unrecognized", "malformed", "skipEmpty", "failParse"}

IsOutcome(r) ==
  \/ \E c \in Refusals : r = Counted(c)
  \/ \E p : HasColumns(p) /\ (r = Read("vmessOk", p) \/ r = Read("otherOk", p))

\* What becomes of a line of VLESS.
LEMMA VLESSOutcome ==
  ASSUME NEW text, IsText(text)
  PROVE  IsOutcome(VLESSRead(text))
<1> DEFINE uri == Uri(text)
           e == Entered("5", <<"tcp">>, uri.id, parseAddressPort(uri.target))
           p == Queried(e, VLESSKeys, Uri(text))
<1>1. VLESSRead(text) \in {Counted("malformed"), Read("otherOk", p)}
  BY Zenon DEF VLESSRead
<1>2. HasColumns(e)  BY EnteredHasColumns
<1> HIDE DEF e
<1>3. HasColumns(p)  BY <1>2, QueriedHasColumns
<1> HIDE DEF p
<1> QED  BY <1>1, <1>3 DEF IsOutcome, Refusals

\* What becomes of a line of Trojan.
LEMMA TrojanOutcome ==
  ASSUME NEW text, IsText(text)
  PROVE  IsOutcome(TrojanRead(text))
<1> DEFINE uri == Uri(text)
           e == Entered("6", <<>>, uri.id, parseAddressPort(uri.target))
           p == Queried(e, TrojanKeys, Uri(text))
<1>1. TrojanRead(text) \in {Counted("malformed"), Read("otherOk", TlsBySni(p))}
  BY Zenon DEF TrojanRead
<1>2. HasColumns(e)  BY EnteredHasColumns
<1> HIDE DEF e
<1>3. HasColumns(p)  BY <1>2, QueriedHasColumns
<1> HIDE DEF p
<1>4. HasColumns(TlsBySni(p))  BY <1>3, TlsHasColumns
<1> QED  BY <1>1, <1>4 DEF IsOutcome, Refusals

\* What becomes of a line of Hysteria2.
LEMMA Hysteria2Outcome ==
  ASSUME NEW text, IsText(text)
  PROVE  IsOutcome(Hysteria2Read(text))
<1> DEFINE uri == Uri(text)
           colon == Cut(uri.target, ":")
           target == [address |-> colon.front, port |-> NoSlash(colon.back)]
           e == Entered("7", <<>>, uri.id, target)
           p == Queried(e, Hysteria2Keys, Uri(text))
           q == [p EXCEPT !["network"] = <<>>]
<1>1. Hysteria2Read(text) \in {Counted("malformed"), Read("otherOk", TlsBySni(q))}
  BY Zenon DEF Hysteria2Read
<1>2. HasColumns(e)  BY EnteredHasColumns
<1> HIDE DEF e
<1>3. HasColumns(p)  BY <1>2, QueriedHasColumns
<1> HIDE DEF p
<1>4. HasColumns(TlsBySni(q))  BY <1>3, TlsHasColumns, ChangedHasColumns
<1> HIDE DEF q
<1> QED  BY <1>1, <1>4 DEF IsOutcome, Refusals

\* A text without its first word.
LEMMA ShorterText ==
  ASSUME NEW s, IsText(s), s # <<>>
  PROVE  /\ IsText(Tail(s)) /\ Len(Tail(s)) = Len(s) - 1 /\ Len(s) >= 1
         /\ \A i \in DOMAIN Tail(s) : Tail(s)[i] = s[i + 1] /\ i + 1 \in DOMAIN s
<1>1. PICK S : s \in Seq(S)  BY DEF IsText
<1>2. /\ Tail(s) \in Seq(S) /\ Len(Tail(s)) = Len(s) - 1 /\ Len(s) >= 1
      /\ \A i \in DOMAIN Tail(s) : Tail(s)[i] = s[i + 1] /\ i + 1 \in DOMAIN s
  BY <1>1
<1> QED  BY <1>2 DEF IsText

\* The port that parseAddressPort() finds.
LEMMA PortIsText ==
  ASSUME NEW text, IsText(text)
  PROVE  IsText(parseAddressPort(text).port)
<1> DEFINE bracket == Cut(text, "]")
           colon == Cut(text, ":")
<1>1. \/ bracket.back # <<>> /\ parseAddressPort(text).port = NoSlash(Tail(bracket.back))
      \/ parseAddressPort(text).port = NoSlash(colon.back)
  BY DEF parseAddressPort
<1>2. IsText(bracket.back) /\ IsText(colon.back)  BY CutTexts
<1>3. ASSUME NEW t, IsText(t)  PROVE IsText(NoSlash(t))
  BY <1>3, EndsOfText DEF NoSlash
<1> HIDE DEF bracket, colon
<1>4. bracket.back # <<>> => IsText(Tail(bracket.back))  BY <1>2, ShorterText
<1> QED  BY <1>1, <1>2, <1>3, <1>4

ParamsOf(query, name) ==
  {i \in DOMAIN Pieces(query, "&") : Cut(Pieces(query, "&")[i], "=").front = <<name>>}
OptionsOf(query) ==
  urlDecode(Cut(Pieces(query, "&")[CHOOSE i \in ParamsOf(query, "plugin") : TRUE], "=").back)
Plugged(p, query) ==
  IF ParamsOf(query, "plugin") = {} THEN Assigned(p, SSKeys, query)
  ELSE PluginRead(Assigned(p, SSKeys, query), OptionsOf(query))
OnWeb(q, query) ==
  IF ParamsOf(query, "plugin") = {} /\ ParamsOf(query, "obfs") = {} /\ q["path"] # <<>>
  THEN [q EXCEPT !["network"] = <<"ws">>] ELSE q
NamedByHost(tls) ==
  IF tls["streamsecurity"] = <<"tls">> /\ tls["sni"] = <<>>
  THEN [tls EXCEPT !["sni"] = tls["requesthost"]] ELSE tls

\* The steps in which Shadowsocks' parameters are read.
LEMMA SSParamsInSteps ==
  ASSUME NEW p, NEW query
  PROVE  SSParams(p, query) = NamedByHost(TlsBySni(OnWeb(Plugged(p, query), query)))
BY Zenon DEF SSParams, NamedByHost, OnWeb, Plugged, OptionsOf, ParamsOf

\* None of these steps takes a column away.
LEMMA SSParamsHasColumns ==
  ASSUME NEW p, HasColumns(p), NEW query, IsText(query)
  PROVE  HasColumns(SSParams(p, query))
<1>1. HasColumns(Assigned(p, SSKeys, query))  BY AssignedHasColumns
<1>2. ParamsOf(query, "plugin") # {} => IsText(OptionsOf(query))
  <2>1. SUFFICES ASSUME ParamsOf(query, "plugin") # {}  PROVE IsText(OptionsOf(query))
    OBVIOUS
  <2> DEFINE i == CHOOSE i \in ParamsOf(query, "plugin") : TRUE
  <2>2. i \in ParamsOf(query, "plugin")  BY <2>1
  <2>3. i \in DOMAIN Pieces(query, "&")  BY <2>2 DEF ParamsOf
  <2>4. OptionsOf(query) = urlDecode(Cut(Pieces(query, "&")[i], "=").back)  BY DEF OptionsOf
  <2> HIDE DEF i
  <2>5. IsText(Pieces(query, "&")[i])  BY <2>3, PiecesAreTexts DEF AreTexts
  <2>6. IsText(Cut(Pieces(query, "&")[i], "=").back)  BY <2>5, CutTexts
  <2> QED  BY <2>4, <2>6, DecodedIsText
<1>3. HasColumns(Plugged(p, query))
  <2>1. CASE ParamsOf(query, "plugin") = {}
    <3>1. Plugged(p, query) = Assigned(p, SSKeys, query)  BY <2>1 DEF Plugged
    <3> QED  BY <1>1, <3>1
  <2>2. CASE ParamsOf(query, "plugin") # {}
    <3>1. Plugged(p, query) = PluginRead(Assigned(p, SSKeys, query), OptionsOf(query))
      BY <2>2 DEF Plugged
    <3> QED  BY <1>1, <1>2, <2>2, <3>1, PluginHasColumns
  <2> QED  BY <2>1, <2>2
<1>4. ASSUME NEW q, HasColumns(q)  PROVE HasColumns(OnWeb(q, query))
  BY <1>4 DEF OnWeb, HasColumns
<1>5. ASSUME NEW q, HasColumns(q)  PROVE HasColumns(NamedByHost(q))
  BY <1>5 DEF NamedByHost, HasColumns
<1>6. HasColumns(TlsBySni(OnWeb(Plugged(p, query), query)))  BY <1>3, <1>4, TlsHasColumns
<1> QED  BY <1>5, <1>6, SSParamsInSteps

SSPort(whole, text) == Cut(Cut(SSTarget(whole, text).port, "/").front, "?")
SSNode(whole, text) ==
  [Entered("3", <<>>, SSUser(whole, text).back,
           [SSTarget(whole, text) EXCEPT !.port = SSPort(whole, text).front])
     EXCEPT !["security"] = SSUser(whole, text).front,
            !["remarks"] = urlDecode(Cut(text, "#").back)]

\* What becomes of a line of Shadowsocks.
LEMMA SSOutcome ==
  ASSUME NEW whole, NEW text, IsText(whole), IsText(text)
  PROVE  IsOutcome(SSRead(whole, text))
<1> DEFINE p == SSNode(whole, text)
           port == SSPort(whole, text)
<1>1. SSRead(whole, text) \in
        {Counted("malformed"), Read("otherOk", p), Read("otherOk", SSParams(p, port.back))}
  BY Zenon DEF SSRead, SSNode, SSPort
<1>2. HasColumns(p)
  <2> DEFINE e == Entered("3", <<>>, SSUser(whole, text).back,
                          [SSTarget(whole, text) EXCEPT !.port = SSPort(whole, text).front])
             r == Cut(text, "#").back
             u == SSUser(whole, text).front
  <2>1. HasColumns(e)  BY EnteredHasColumns
  <2>2. p = [e EXCEPT !["security"] = u, !["remarks"] = urlDecode(r)]  BY Zenon DEF SSNode
  <2> HIDE DEF e, r, u, p
  <2> QED  BY <2>1, <2>2 DEF HasColumns
<1>3. IsText(port.back)
  <2> DEFINE t == IF IsLegacy(whole, text) THEN Cut(whole, "@").back
                  ELSE Cut(Cut(text, "#").front, "@").back
  <2>1. SSTarget(whole, text) = parseAddressPort(t)  BY Zenon DEF SSTarget
  <2>2. IsText(t)  BY CutTexts
  <2> HIDE DEF t
  <2>3. IsText(SSTarget(whole, text).port)  BY <2>1, <2>2, PortIsText
  <2>4. IsText(Cut(SSTarget(whole, text).port, "/").front)  BY <2>3, CutTexts
  <2> QED  BY <2>4, CutTexts DEF SSPort
<1> HIDE DEF p, port
<1>4. HasColumns(SSParams(p, port.back))  BY <1>2, <1>3, SSParamsHasColumns
<1> QED  BY <1>1, <1>2, <1>4 DEF IsOutcome, Refusals

VMessValue(document, column) == jsonDecode(document[JsonKey[column]])
VMessSome(document) ==
  [NoProxy EXCEPT !["configtype"] = <<"1">>, !["network"] = <<"tcp">>,
     !["address"] = VMessValue(document, "address"), !["id"] = VMessValue(document, "id"),
     !["security"] = VMessValue(document, "security"),
     !["remarks"] = VMessValue(document, "remarks")]
VMessAll(document) ==
  [c \in LinkColumn |-> IF c \in DOMAIN JsonKey THEN VMessValue(document, c)
                        ELSE VMessSome(document)[c]]
VMessNode(document) ==
  [VMessAll(document) EXCEPT
     !["network"] = sanitizeNetwork(@),
     !["sni"] = IF VMessAll(document)["sni"] = <<>> /\ VMessAll(document)["streamsecurity"] = <<"tls">>
                THEN VMessAll(document)["requesthost"] ELSE @]

\* What becomes of a line of VMess.
LEMMA VMessOutcome ==
  ASSUME NEW document
  PROVE  IsOutcome(VMessRead(document))
<1>1. VMessRead(document) \in
        {Counted("skipEmpty"), Counted("failParse"), Read("vmessOk", VMessSome(document)),
         Read("vmessOk", VMessNode(document))}
  BY Zenon DEF VMessRead, VMessNode, VMessAll, VMessSome, VMessValue
<1>2. HasColumns(VMessSome(document))  BY DEF HasColumns, VMessSome, NoProxy
<1>3. HasColumns(VMessNode(document))
  <2>1. HasColumns(VMessAll(document))  BY DEF HasColumns, VMessAll
  <2> QED  BY <2>1 DEF HasColumns, VMessNode
<1> QED  BY <1>1, <1>2, <1>3 DEF IsOutcome, Refusals

-----------------------------------------------------------------------------
(* The parser goes through the lines.                                       *)

\* The lines that no builder writes.
LEMMA JunkIsLine ==
  ASSUME NEW l \in JunkLine
  PROVE  IsLine(l)
<1>1. IsText(<<"id", "@", "address", ":", "port", "#", "remarks">>)
  <2>1. <<"id", "@", "address", ":", "port", "#", "remarks">>
          \in Seq({"id", "@", "address", ":", "port", "#", "remarks"})  OBVIOUS
  <2> QED  BY <2>1 DEF IsText
<1>2. IsText(<<"@", "address", ":", "port">>)
  <2>1. <<"@", "address", ":", "port">> \in Seq({"@", "address", ":", "port"})  OBVIOUS
  <2> QED  BY <2>1 DEF IsText
<1>3. IsText(<<"security", ":", "id", "@", "address", ":", "port">>)
  <2>1. <<"security", ":", "id", "@", "address", ":", "port">>
          \in Seq({"security", ":", "id", "@", "address", "port"})  OBVIOUS
  <2> QED  BY <2>1 DEF IsText
<1>4. IsText(<<"@", "address", ":", "port", "?", "sni", "=", "sni", "&", "path", "=", "path">>)
  <2>1. <<"@", "address", ":", "port", "?", "sni", "=", "sni", "&", "path", "=", "path">>
          \in Seq({"@", "address", ":", "port", "?", "sni", "=", "&", "path"})  OBVIOUS
  <2> QED  BY <2>1 DEF IsText
<1>5. /\ IsText(<<"id", "@", "address", ":", "beyond">>)
      /\ IsText(<<"id", "@", "address", ":", "huge", "?", "sni">>)
  <2>1. <<"id", "@", "address", ":", "beyond">> \in Seq({"id", "@", "address", ":", "beyond"})
    OBVIOUS
  <2>2. <<"id", "@", "address", ":", "huge", "?", "sni">>
          \in Seq({"id", "@", "address", ":", "huge", "?", "sni"})  OBVIOUS
  <2> QED  BY <2>1, <2>2 DEF IsText
<1>6. \E scheme, plain, text : l = Link(scheme, plain, text) /\ IsText(text)
                               /\ (scheme = "ss" => IsText(plain))
  <2> DEFINE Fine(m) == \E scheme, plain, text :
               m = Link(scheme, plain, text) /\ IsText(text) /\ (scheme = "ss" => IsText(plain))
  <2>1. ASSUME NEW scheme, NEW plain, NEW text, IsText(text), scheme = "ss" => IsText(plain)
        PROVE  Fine(Link(scheme, plain, text))
    BY <2>1, Zenon
  <2> HIDE DEF Fine
  <2>2. Fine(l)  BY <1>1, <1>2, <1>3, <1>4, <1>5, <2>1, SmallTexts DEF JunkLine
  <2> QED  BY <2>2 DEF Fine
<1> QED  BY <1>6, LinkIsLine

\* The lines of a subscription.
LEMMA SomeIsLine ==
  ASSUME NEW l \in SomeLine
  PROVE  IsLine(l)
<1> DEFINE p == Plain("1", "ws", "tls")
           q == Plain("6", "tcp", "tls")
<1>1. \/ l \in JunkLine \/ l = VMessLink(p) \/ l = Tailed(p) \/ l = TrojanLink(q)
  BY DEF SomeLine
<1>2. IsProxy(q)  BY PlainIsProxy
<1> HIDE DEF p, q
<1>3. IsLine(Tailed(p))
  <2> DEFINE link == VMessLink(p)
             t == "tail" :> <<"text">> @@ link.coded.base64
  <2>1. Tailed(p) = [link EXCEPT !.coded.base64 = t]  BY Zenon DEF Tailed
  <2>2. link = Link("vmess", link.coded.base64, <<>>)
    BY Zenon DEF VMessLink, Link, base64Encode
  <2> HIDE DEF t
  <2>3. Tailed(p).scheme = "vmess" /\ Tailed(p).text = <<>>
    <3> HIDE DEF link
    <3> QED  BY <2>1, <2>2 DEF Link
  <2> QED  BY <2>3, SmallTexts DEF IsLine
<1> QED  BY <1>1, <1>2, <1>3, JunkIsLine, VMessIsLine, TrojanIsLine

CountsAdd(n, ns) ==
  /\ n.lines = n.empty + n.comment + n.unrecognized + n.malformed + n.skipEmpty
               + n.failParse + n.vmessOk + n.otherOk
  /\ Len(ns) = n.vmessOk + n.otherOk

\* The line that throws is in no bucket.
OneUncounted(n) ==
  n.lines = n.empty + n.comment + n.unrecognized + n.malformed + n.skipEmpty
            + n.failParse + n.vmessOk + n.otherOk + 1

AreLines(ls) == IsText(ls) /\ \A i \in DOMAIN ls : IsLine(ls[i])
AreNodes(ns) == IsText(ns) /\ \A i \in DOMAIN ns : HasColumns(ns[i])

LinkInv ==
  /\ IsProxy(shared)
  /\ AreLines(lines) /\ Len(lines) <= MaxLines
  /\ wrapped \in BOOLEAN
  /\ reading.at \in {"export", "body", "lines", "thrown"}
  /\ reading = [at |-> reading.at, count |-> reading.count]
  /\ reading.count \in [Counter -> Nat]
  /\ reading.at \in {"export", "body"} => reading.count = NoLine
  /\ reading.count.lines <= MaxLines
  /\ reading.at # "thrown" =>
       reading.count.lines + Len(lines) <= MaxLines /\ CountsAdd(reading.count, nodes)
  /\ reading.at = "thrown" => OneUncounted(reading.count) /\ nodes = <<>>
  /\ AreNodes(nodes)

\* The invariant says what the runs check.
LEMMA LinkInvCounts == LinkInv => LinkTypeOK /\ LinesAreCounted
<1> SUFFICES ASSUME LinkInv  PROVE LinkTypeOK /\ LinesAreCounted
  OBVIOUS
<1>1. LinesAreCounted
  BY DEF LinkInv, CountsAdd, OneUncounted, LinesAreCounted, EachLineInOneBucket
<1>2. \A c \in Counter : reading.count[c] \in 0 .. MaxLines
  <2>1. reading.count \in [Counter -> Nat]  BY DEF LinkInv
  <2> DEFINE n == reading.count
  <2>2. /\ n.lines \in Nat /\ n.empty \in Nat /\ n.comment \in Nat /\ n.unrecognized \in Nat
        /\ n.malformed \in Nat /\ n.skipEmpty \in Nat /\ n.failParse \in Nat
        /\ n.vmessOk \in Nat /\ n.otherOk \in Nat
    BY <2>1 DEF Counter
  <2>3. /\ n.lines <= MaxLines
        /\ \E k \in {0, 1} :
             n.lines = n.empty + n.comment + n.unrecognized + n.malformed + n.skipEmpty
                       + n.failParse + n.vmessOk + n.otherOk + k
    <3>1. n.lines <= MaxLines /\ (CountsAdd(n, nodes) \/ OneUncounted(n))  BY DEF LinkInv
    <3> HIDE DEF n
    <3> QED  BY <2>2, <3>1 DEF CountsAdd, OneUncounted
  <2> HIDE DEF n
  <2>4. \A c \in Counter : n[c] \in 0 .. MaxLines  BY <2>2, <2>3, LinkAssumption DEF Counter
  <2> QED  BY <2>4 DEF n
<1>3. LinkTypeOK
  BY <1>2 DEF LinkInv, LinkTypeOK, IsProxy, AreNodes, HasColumns
<1> QED  BY <1>1, <1>3

\* At first nothing is counted.
LEMMA NothingCounted ==
  /\ NoLine \in [Counter -> Nat] /\ NoLine.lines = 0
  /\ CountsAdd(NoLine, <<>>)
  /\ AreNodes(<<>>) /\ AreLines(<<>>)
<1>1. \A c \in Counter : NoLine[c] = 0  BY DEF NoLine
<1>2. NoLine \in [Counter -> Nat]  BY DEF NoLine
<1>3. /\ NoLine.lines = 0 /\ NoLine.empty = 0 /\ NoLine.comment = 0 /\ NoLine.unrecognized = 0
      /\ NoLine.malformed = 0 /\ NoLine.skipEmpty = 0 /\ NoLine.failParse = 0
      /\ NoLine.vmessOk = 0 /\ NoLine.otherOk = 0
  BY <1>1 DEF Counter
<1>4. Len(<<>>) = 0  OBVIOUS
<1>5. CountsAdd(NoLine, <<>>)  BY <1>3, <1>4 DEF CountsAdd
<1>6. AreNodes(<<>>) /\ AreLines(<<>>)  BY SmallTexts DEF AreNodes, AreLines
<1> QED  BY <1>2, <1>3, <1>5, <1>6

\* Initially the proxy has its columns, and every line is one.
LEMMA LinkInitInv == LinkInit => LinkInv
<1> SUFFICES ASSUME LinkInit  PROVE LinkInv
  OBVIOUS
<1>1. nodes = <<>>  BY DEF LinkInit
<1>2. IsProxy(shared)  BY SharedAreProxies, NoProxyIsProxy DEF LinkInit
<1>3. wrapped \in BOOLEAN  BY DEF LinkInit
<1>4. /\ reading = [at |-> reading.at, count |-> NoLine]
      /\ reading.at \in {"export", "body"}
  BY DEF LinkInit
<1>5. AreLines(lines) /\ Len(lines) <= MaxLines /\ Len(lines) \in Nat
  <2>1. CASE lines = <<>>
    <3>1. Len(<<>>) = 0  OBVIOUS
    <3> QED  BY <2>1, <3>1, NothingCounted, LinkAssumption
  <2>2. CASE lines \in UNION {[1 .. n -> SomeLine] : n \in 1 .. MaxLines}
    <3>1. PICK n \in 1 .. MaxLines : lines \in [1 .. n -> SomeLine]  BY <2>2
    <3>2. n \in Nat /\ n <= MaxLines  BY <3>1, LinkAssumption
    <3>3. lines \in Seq(SomeLine) /\ Len(lines) = n /\ DOMAIN lines = 1 .. n  BY <3>1, <3>2
    <3>4. IsText(lines)  BY <3>3 DEF IsText
    <3>5. \A i \in DOMAIN lines : lines[i] \in SomeLine  BY <3>1
    <3>6. AreLines(lines)  BY <3>4, <3>5, SomeIsLine DEF AreLines
    <3> QED  BY <3>2, <3>3, <3>6
  <2> QED  BY <2>1, <2>2 DEF LinkInit
<1>6. reading.count = NoLine  BY <1>4
<1>7. reading = [at |-> reading.at, count |-> reading.count]  BY <1>4, <1>6
<1>8. reading.count \in [Counter -> Nat]  BY <1>6, NothingCounted
<1>9. reading.count.lines + Len(lines) <= MaxLines
  <2>1. NoLine.lines = 0  BY NothingCounted
  <2> QED  BY <1>5, <1>6, <2>1, LinkAssumption
<1>10. CountsAdd(reading.count, nodes) /\ AreNodes(nodes)  BY <1>1, <1>6, NothingCounted
<1>11. reading.count.lines <= MaxLines  BY <1>6, NothingCounted, LinkAssumption
<1> QED  BY <1>2, <1>3, <1>4, <1>5, <1>6, <1>7, <1>8, <1>9, <1>10, <1>11 DEF LinkInv

\* One more line: its counter and its proxy go together.
LEMMA TallyAdds ==
  ASSUME NEW n \in [Counter -> Nat], NEW ns, CountsAdd(n, ns), AreNodes(ns),
         NEW r, IsOutcome(r)
  PROVE  /\ Tallied(n, r.counter) \in [Counter -> Nat]
         /\ Tallied(n, r.counter).lines = n.lines + 1
         /\ CountsAdd(Tallied(n, r.counter), ns \o r.node)
         /\ AreNodes(ns \o r.node)
<1> DEFINE c == r.counter
           m == Tallied(n, c)
<1>1. Len(ns) \in Nat /\ DOMAIN ns = 1 .. Len(ns) /\ IsText(ns)
  BY TextIsNumbered DEF AreNodes
<1>2. \/ c \in Refusals /\ r.node = <<>>
      \/ c \in {"vmessOk", "otherOk"} /\ \E p : HasColumns(p) /\ r.node = <<p>>
  BY DEF IsOutcome, Counted, Read, NoNode
<1>3. c \in Counter \ {"lines"}  BY <1>2 DEF Refusals, Counter
<1>4. m \in [Counter -> Nat] /\ m.lines = n.lines + 1
  <2> HIDE DEF c
  <2>1. m = [n EXCEPT !.lines = @ + 1, ![c] = @ + 1]  BY DEF Tallied
  <2>2. "lines" \in Counter /\ c \in Counter  BY <1>3 DEF Counter
  <2> HIDE DEF m
  <2>3. \A k \in Counter : m[k] = IF k = "lines" \/ k = c THEN n[k] + 1 ELSE n[k]
    BY <1>3, <2>1, <2>2
  <2>4. DOMAIN m = Counter /\ m = [k \in Counter |-> m[k]]  BY <2>1
  <2>5. \A k \in Counter : m[k] \in Nat  BY <2>3
  <2> QED  BY <2>2, <2>3, <2>4, <2>5
<1>5. \A k \in Counter : m[k] = IF k = "lines" \/ k = c THEN n[k] + 1 ELSE n[k]
  <2> HIDE DEF c
  <2>1. m = [n EXCEPT !.lines = @ + 1, ![c] = @ + 1]  BY DEF Tallied
  <2>2. "lines" \in Counter /\ c \in Counter  BY <1>3 DEF Counter
  <2> HIDE DEF m
  <2> QED  BY <1>3, <2>1, <2>2
<1> HIDE DEF m, c
<1>6. /\ n.lines \in Nat /\ n.empty \in Nat /\ n.comment \in Nat /\ n.unrecognized \in Nat
      /\ n.malformed \in Nat /\ n.skipEmpty \in Nat /\ n.failParse \in Nat
      /\ n.vmessOk \in Nat /\ n.otherOk \in Nat
  BY DEF Counter
<1> DEFINE more == [k \in Counter |-> IF k = c THEN 1 ELSE 0]
<1>7. /\ m.empty = n.empty + more.empty /\ m.comment = n.comment + more.comment
      /\ m.unrecognized = n.unrecognized + more.unrecognized
      /\ m.malformed = n.malformed + more.malformed
      /\ m.skipEmpty = n.skipEmpty + more.skipEmpty
      /\ m.failParse = n.failParse + more.failParse
      /\ m.vmessOk = n.vmessOk + more.vmessOk /\ m.otherOk = n.otherOk + more.otherOk
  BY <1>5, <1>6 DEF Counter
<1>8. m.lines = m.empty + m.comment + m.unrecognized + m.malformed + m.skipEmpty
               + m.failParse + m.vmessOk + m.otherOk
  <2>1. more.empty + more.comment + more.unrecognized + more.malformed
        + more.skipEmpty + more.failParse + more.vmessOk + more.otherOk = 1
    BY <1>3 DEF Counter
  <2>2. /\ more.empty \in Nat /\ more.comment \in Nat /\ more.unrecognized \in Nat
        /\ more.malformed \in Nat /\ more.skipEmpty \in Nat /\ more.failParse \in Nat
        /\ more.vmessOk \in Nat /\ more.otherOk \in Nat
    BY DEF Counter
  <2>3. n.lines = n.empty + n.comment + n.unrecognized + n.malformed + n.skipEmpty
                  + n.failParse + n.vmessOk + n.otherOk
    BY DEF CountsAdd
  <2> HIDE DEF more
  <2>4. m.lines = n.lines + 1  BY <1>4
  <2>5. n.lines + 1
          = (n.empty + more.empty) + (n.comment + more.comment)
            + (n.unrecognized + more.unrecognized) + (n.malformed + more.malformed)
            + (n.skipEmpty + more.skipEmpty) + (n.failParse + more.failParse)
            + (n.vmessOk + more.vmessOk) + (n.otherOk + more.otherOk)
    BY <1>6, <2>1, <2>2, <2>3
  <2> QED  BY <1>7, <2>4, <2>5
<1>9. /\ Len(ns \o r.node) = m.vmessOk + m.otherOk
      /\ AreNodes(ns \o r.node)
  <2>1. CASE c \in Refusals /\ r.node = <<>>
    <3>1. ns \o <<>> = ns
      <4>1. PICK S : ns \in Seq(S)  BY <1>1 DEF IsText
      <4> QED  BY <4>1
    <3>2. more.vmessOk = 0 /\ more.otherOk = 0  BY <2>1 DEF Refusals, Counter
    <3> HIDE DEF more
    <3> QED  BY <1>6, <1>7, <2>1, <3>1, <3>2 DEF CountsAdd
  <2>2. ASSUME NEW p, HasColumns(p), r.node = <<p>>, c \in {"vmessOk", "otherOk"}
        PROVE  /\ Len(ns \o r.node) = m.vmessOk + m.otherOk
               /\ AreNodes(ns \o r.node)
    <3>1. /\ IsText(ns \o <<p>>) /\ Len(ns \o <<p>>) = Len(ns) + Len(<<p>>)
          /\ \A i \in DOMAIN (ns \o <<p>>) :
               (ns \o <<p>>)[i] = IF i <= Len(ns) THEN ns[i] ELSE <<p>>[i - Len(ns)]
      BY <1>1, SmallTexts, JoinedTexts
    <3>2. Len(<<p>>) = 1 /\ <<p>>[1] = p  OBVIOUS
    <3>3. more.vmessOk + more.otherOk = 1 /\ more.vmessOk \in Nat /\ more.otherOk \in Nat
      BY <2>2 DEF Counter
    <3> HIDE DEF more
    <3>4. Len(ns \o <<p>>) = m.vmessOk + m.otherOk
      <4>1. Len(ns) = n.vmessOk + n.otherOk  BY DEF CountsAdd
      <4>2. Len(ns \o <<p>>) = n.vmessOk + n.otherOk + 1  BY <1>1, <3>1, <3>2, <4>1
      <4>3. m.vmessOk = n.vmessOk + more.vmessOk /\ m.otherOk = n.otherOk + more.otherOk
        BY <1>7
      <4> QED  BY <1>6, <3>3, <4>2, <4>3
    <3>5. DOMAIN (ns \o <<p>>) = 1 .. (Len(ns) + 1)  BY <3>1, <3>2, TextIsNumbered
    <3>6. ASSUME NEW i \in DOMAIN (ns \o <<p>>)  PROVE HasColumns((ns \o <<p>>)[i])
      <4>1. CASE i <= Len(ns)
        <5>1. i \in DOMAIN ns /\ (ns \o <<p>>)[i] = ns[i]  BY <1>1, <3>1, <3>5, <4>1
        <5> QED  BY <5>1 DEF AreNodes
      <4>2. CASE ~ (i <= Len(ns))
        <5>1. i - Len(ns) = 1  BY <1>1, <3>5, <4>2
        <5>2. (ns \o <<p>>)[i] = p  BY <3>1, <3>2, <4>2, <5>1
        <5> QED  BY <2>2, <5>2
      <4> QED  BY <4>1, <4>2
    <3> QED  BY <2>2, <3>1, <3>4, <3>6 DEF AreNodes
  <2> QED  BY <1>2, <2>1, <2>2
<1>10. CountsAdd(m, ns \o r.node)  BY <1>8, <1>9 DEF CountsAdd
<1> QED  BY <1>4, <1>9, <1>10 DEF m, c

\* A line is taken with what becomes of it.
LEMMA TakeKeepsLinks ==
  ASSUME LinkInv, NEW r, IsOutcome(r), reading.at = "lines", lines # <<>>, Take(r)
  PROVE  LinkInv'
<1> DEFINE n == reading.count
           m == Tallied(n, r.counter)
<1>1. /\ m \in [Counter -> Nat] /\ m.lines = n.lines + 1
      /\ CountsAdd(m, nodes \o r.node) /\ AreNodes(nodes \o r.node)
  BY TallyAdds DEF LinkInv
<1>2. reading' = [at |-> "lines", count |-> m]
  <2>1. reading = [at |-> "lines", count |-> n]  BY DEF LinkInv
  <2> QED  BY <2>1 DEF Take
<1>3. reading'.at = "lines" /\ reading'.count = m  BY <1>2
<1>4. /\ nodes' = nodes \o r.node /\ lines' = Tail(lines)
      /\ shared' = shared /\ wrapped' = wrapped
  BY DEF Take
<1>5. /\ IsText(Tail(lines)) /\ Len(Tail(lines)) = Len(lines) - 1 /\ Len(lines) >= 1
      /\ \A i \in DOMAIN Tail(lines) : Tail(lines)[i] = lines[i + 1] /\ i + 1 \in DOMAIN lines
  BY ShorterText DEF LinkInv, AreLines
<1>6. AreLines(Tail(lines))  BY <1>5 DEF AreLines, LinkInv
<1>7. Len(lines) \in Nat /\ n.lines \in Nat /\ Len(Tail(lines)) <= MaxLines
      /\ m.lines + Len(Tail(lines)) <= MaxLines /\ m.lines <= MaxLines
  <2>1. Len(lines) \in Nat /\ n.lines \in Nat
    BY TextIsNumbered DEF LinkInv, AreLines, Counter
  <2> HIDE DEF m
  <2>2. n.lines + Len(lines) <= MaxLines /\ Len(lines) <= MaxLines  BY DEF LinkInv
  <2> HIDE DEF n
  <2> QED  BY <1>1, <1>5, <2>1, <2>2, LinkAssumption
<1> HIDE DEF m, n
<1>8. CountsAdd(reading'.count, nodes') /\ AreNodes(nodes')  BY <1>1, <1>3, <1>4
<1>9. AreLines(lines')  BY <1>4, <1>6
<1>10. IsProxy(shared')  BY <1>4 DEF LinkInv
<1>11. reading'.count \in [Counter -> Nat]  BY <1>1, <1>3
<1>12. /\ reading'.count.lines + Len(lines') <= MaxLines /\ Len(lines') <= MaxLines
       /\ reading'.count.lines <= MaxLines
  BY <1>3, <1>4, <1>7
<1>13. wrapped' \in BOOLEAN  BY <1>4 DEF LinkInv
<1>14. reading' = [at |-> reading'.at, count |-> reading'.count]  BY <1>2, <1>3
<1> QED  BY <1>3, <1>8, <1>9, <1>10, <1>11, <1>12, <1>13, <1>14 DEF LinkInv

\* The exception leaves one line without a counter.
LEMMA ThrowKeepsLinks ==
  ASSUME LinkInv, reading.at = "lines", lines # <<>>, Throw
  PROVE  LinkInv'
<1> DEFINE n == reading.count
           m == [n EXCEPT !.lines = @ + 1]
<1>1. reading' = [at |-> "thrown", count |-> m]  BY DEF Throw
<1>2. reading'.at = "thrown" /\ reading'.count = m  BY <1>1
<1>3. /\ n \in [Counter -> Nat] /\ n.lines + Len(lines) <= MaxLines /\ CountsAdd(n, nodes)
      /\ Len(lines) >= 1 /\ Len(lines) \in Nat
  BY ShorterText, TextIsNumbered DEF LinkInv, AreLines
<1> HIDE DEF n
<1>4. m \in [Counter -> Nat] /\ m.lines = n.lines + 1 /\ n.lines \in Nat
  <2>1. n \in [Counter -> Nat] /\ "lines" \in Counter  BY <1>3 DEF Counter
  <2> QED  BY <2>1
<1>5. /\ m.empty = n.empty /\ m.comment = n.comment /\ m.unrecognized = n.unrecognized
      /\ m.malformed = n.malformed /\ m.skipEmpty = n.skipEmpty /\ m.failParse = n.failParse
      /\ m.vmessOk = n.vmessOk /\ m.otherOk = n.otherOk
  <2>1. n \in [Counter -> Nat]  BY <1>3
  <2>2. \A c \in Counter : c # "lines" => m[c] = n[c]  BY <2>1
  <2> HIDE DEF m
  <2> QED  BY <2>2 DEF Counter
<1>6. /\ n.empty \in Nat /\ n.comment \in Nat /\ n.unrecognized \in Nat
      /\ n.malformed \in Nat /\ n.skipEmpty \in Nat /\ n.failParse \in Nat
      /\ n.vmessOk \in Nat /\ n.otherOk \in Nat
  <2>1. \A c \in Counter : n[c] \in Nat  BY <1>3
  <2> HIDE DEF m
  <2> QED  BY <2>1 DEF Counter
<1> HIDE DEF m
<1>7. OneUncounted(m)  BY <1>3, <1>4, <1>5, <1>6 DEF CountsAdd, OneUncounted
<1>8. m.lines <= MaxLines  BY <1>3, <1>4, LinkAssumption
<1>9. nodes' = <<>> /\ AreNodes(nodes')  BY NothingCounted DEF Throw
<1>10. /\ IsProxy(shared') /\ AreLines(lines') /\ Len(lines') <= MaxLines
       /\ wrapped' \in BOOLEAN
  BY DEF LinkInv, Throw
<1>11. reading' = [at |-> reading'.at, count |-> reading'.count]  BY <1>1, <1>2
<1> QED  BY <1>2, <1>4, <1>7, <1>8, <1>9, <1>10, <1>11 DEF LinkInv

\* The line that is read next.
LEMMA UpcomingLine ==
  ASSUME LinkInv, NEW scheme, Upcoming(scheme)
  PROVE  /\ reading.at = "lines" /\ lines # <<>>
         /\ IsText(lines[1].text)
         /\ scheme = "ss" => IsText(lines[1].coded.base64)
<1>1. reading.at = "lines" /\ lines # <<>> /\ lines[1].scheme = scheme  BY DEF Upcoming
<1>2. 1 \in DOMAIN lines
  <2>1. Len(lines) >= 1  BY <1>1, ShorterText DEF LinkInv, AreLines
  <2> QED  BY <2>1, TextIsNumbered DEF LinkInv, AreLines
<1>3. IsLine(lines[1])  BY <1>2 DEF LinkInv, AreLines
<1> QED  BY <1>1, <1>3 DEF IsLine

\* A body of one line.
LEMMA OneLine ==
  ASSUME NEW l, IsLine(l)
  PROVE  AreLines(<<l>>) /\ Len(<<l>>) <= 1
<1>1. IsText(<<l>>) /\ Len(<<l>>) = 1 /\ DOMAIN <<l>> = {1} /\ <<l>>[1] = l  BY SmallTexts
<1> QED  BY <1>1 DEF AreLines

\* Before the lines are read, what lies ahead can be exchanged.
LEMMA LinesExchanged ==
  ASSUME LinkInv, reading.at \in {"export", "body"}, NEW at \in {"export", "body", "lines"},
         reading' = [reading EXCEPT !.at = at], AreLines(lines'), Len(lines') <= 1 \/ lines' = lines,
         UNCHANGED <<shared, wrapped, nodes>>
  PROVE  LinkInv'
<1>1. reading = [at |-> reading.at, count |-> NoLine]  BY DEF LinkInv
<1>2. reading' = [at |-> at, count |-> NoLine]  BY <1>1
<1>3. reading'.at = at /\ reading'.count = NoLine  BY <1>2
<1>4. reading.count = NoLine  BY <1>1
<1>5. Len(lines') \in Nat /\ Len(lines') <= MaxLines
  BY TextIsNumbered, LinkAssumption DEF LinkInv, AreLines
<1>6. reading'.count.lines + Len(lines') <= MaxLines /\ reading'.count.lines <= MaxLines
  BY <1>3, <1>5, NothingCounted, LinkAssumption
<1>7. CountsAdd(reading'.count, nodes') /\ AreNodes(nodes')  BY <1>3, <1>4 DEF LinkInv
<1>8. IsProxy(shared') /\ wrapped' \in BOOLEAN  BY DEF LinkInv
<1>9. reading'.count \in [Counter -> Nat]  BY <1>3, NothingCounted
<1>10. reading' = [at |-> reading'.at, count |-> reading'.count]  BY <1>2, <1>3
<1> QED  BY <1>3, <1>5, <1>6, <1>7, <1>8, <1>9, <1>10 DEF LinkInv

\* Every step keeps the invariant.
LEMMA LinkStepInv == LinkInv /\ [LinkNext]_linkVars => LinkInv'
<1> SUFFICES ASSUME LinkInv, [LinkNext]_linkVars  PROVE LinkInv'
  OBVIOUS
<1>1. CASE Export
  <2>1. IsProxy(shared)  BY DEF LinkInv
  <2>2. \/ lines' = <<>> \/ \E l : IsLine(l) /\ lines' = <<l>>  BY <1>1, <2>1, ShareIsLine DEF Export
  <2>3. AreLines(lines') /\ Len(lines') <= 1
    <3>1. Len(<<>>) <= 1  OBVIOUS
    <3> QED  BY <2>2, <3>1, NothingCounted, OneLine, Zenon
  <2> DEFINE at == IF toShareUri(shared) = <<>> THEN "lines" ELSE "body"
  <2>4. at \in {"export", "body", "lines"}  OBVIOUS
  <2>5. /\ reading.at = "export" /\ reading' = [reading EXCEPT !.at = at]
        /\ UNCHANGED <<shared, wrapped, nodes>>
    BY <1>1, Zenon DEF Export
  <2> HIDE DEF at
  <2> QED  BY <2>3, <2>4, <2>5, LinesExchanged
<1>2. CASE ReadBody
  <2>1. IsLine(Link("none", <<>>, <<"text">>))  BY SmallTexts, LinkIsLine
  <2>2. \/ lines' = lines \/ lines' = <<Link("none", <<>>, <<"text">>)>>  BY <1>2 DEF ReadBody
  <2>3. AreLines(lines') /\ (Len(lines') <= 1 \/ lines' = lines)
    BY <2>1, <2>2, OneLine, Zenon DEF LinkInv
  <2> QED  BY <1>2, <2>3, LinesExchanged DEF ReadBody
<1>3. CASE ReadOther
  <2>1. reading.at = "lines" /\ lines # <<>>  BY <1>3, UpcomingLine DEF ReadOther
  <2>2. \E c \in Refusals : Take(Counted(c))  BY <1>3 DEF ReadOther, Refusals
  <2> QED  BY <2>1, <2>2, TakeKeepsLinks DEF IsOutcome
<1>4. CASE ReadVMess
  <2> DEFINE text == Cut(lines[1].text, "#").front
  <2>1. /\ reading.at = "lines" /\ lines # <<>> /\ IsText(lines[1].text)
    BY <1>4, UpcomingLine DEF ReadVMess
  <2>2. IsText(text)  BY <2>1, CutTexts
  <2>3. \/ Throw
        \/ Take(VLESSRead(text)) \/ Take(VMessRead(decodeBase64(lines[1].coded)))
    BY <1>4 DEF ReadVMess
  <2> HIDE DEF text
  <2> QED
    BY <2>1, <2>2, <2>3, VLESSOutcome, VMessOutcome, TakeKeepsLinks, ThrowKeepsLinks
<1>5. CASE ReadVLESS
  <2>1. reading.at = "lines" /\ lines # <<>> /\ IsText(lines[1].text)
    BY <1>5, UpcomingLine DEF ReadVLESS
  <2> QED  BY <1>5, <2>1, VLESSOutcome, TakeKeepsLinks DEF ReadVLESS
<1>6. CASE ReadSS
  <2>1. /\ reading.at = "lines" /\ lines # <<>> /\ IsText(lines[1].text)
        /\ IsText(decodeBase64(lines[1].coded))
    BY <1>6, UpcomingLine DEF ReadSS, decodeBase64
  <2> QED  BY <1>6, <2>1, SSOutcome, TakeKeepsLinks DEF ReadSS
<1>7. CASE ReadTrojan
  <2>1. reading.at = "lines" /\ lines # <<>> /\ IsText(lines[1].text)
    BY <1>7, UpcomingLine DEF ReadTrojan
  <2> QED  BY <1>7, <2>1, TrojanOutcome, TakeKeepsLinks DEF ReadTrojan
<1>8. CASE ReadHysteria2
  <2>1. reading.at = "lines" /\ lines # <<>> /\ IsText(lines[1].text)
    BY <1>8, UpcomingLine DEF ReadHysteria2
  <2> QED  BY <1>8, <2>1, Hysteria2Outcome, TakeKeepsLinks DEF ReadHysteria2
<1>9. CASE UNCHANGED linkVars
  BY <1>9 DEF linkVars, LinkInv
<1> QED  BY <1>1, <1>2, <1>3, <1>4, <1>5, <1>6, <1>7, <1>8, <1>9 DEF LinkNext

\* Whatever is exported or read, a link is a text, a proxy has its columns and every line
\* is counted (share/*, SubscriptionParser).
THEOREM LinkInvariant == LinkSpec => []LinkInv
BY LinkInitInv, LinkStepInv, PTL DEF LinkSpec

\* A proxy that is exported or read has every column (ShareLink, SubscriptionParser).
THEOREM LinkTypeCorrect == LinkSpec => []LinkTypeOK
BY LinkInvariant, LinkInvCounts, PTL

\* However many lines a subscription has, each that is read is counted once, and a proxy
\* comes of those that are counted as good and of no others; but where a port throws out of
\* parse(), its line is in no bucket and no proxy is left (ParseStats, std::stol()).
THEOREM LinesAlwaysCounted == LinkSpec => []LinesAreCounted
BY LinkInvariant, LinkInvCounts, PTL

=============================================================================
