------------------------------ MODULE AutoTask ------------------------------
(***************************************************************************)
(* The auto task pipeline (src/src/AutoTaskManager.cpp): a list of steps   *)
(* run one after the other, with the progress kept in a state file so that *)
(* a cancelled task can be resumed.  The window and the command line run   *)
(* it in processes of their own, on one state file; a further process      *)
(* (-cancel-task) edits the file.  A process may be killed at any point,   *)
(* and a save may fail: the file is truncated and rewritten in place, and  *)
(* nobody looks at the result of saveStateFile().                          *)
(***************************************************************************)
EXTENDS Integers

CONSTANTS
    Proc,        \* processes that can run or resume a task
    Steps,       \* number of configured steps
    MaxTasks     \* bound: tasks that are created

ASSUME TaskAssumption ==
    /\ Steps \in Nat \ {0}
    /\ MaxTasks \in Nat

Step == 1 .. Steps
TaskId == 1 .. MaxTasks
StepStatus == {"pending", "running", "completed", "failed", "cancelled"}

\* AutoTaskState; the index counts from 1 here.
TaskState == [id : TaskId, index : 1 .. Steps + 1, steps : [Step -> StepStatus],
              completed : BOOLEAN, cancelled : BOOLEAN]
NoTask == [id |-> 0]

VARIABLES
    taskFile,    \* the state file; NoTask: absent, or not readable
    task,        \* state_ of each process
    tpc,         \* where each process is in run() or resume()
    marking,     \* what -cancel-task has read and is about to write back
    tasks,       \* number of tasks created
    did,         \* steps that were executed successfully, per task
    kept,        \* steps whose completion a save has written, per task not contested
    contested    \* tasks whose record a second writer, or the network, has changed

taskVars == <<taskFile, task, tpc, marking, tasks, did, kept,
              contested>>

TaskTypeOK ==
    /\ taskFile \in TaskState \cup {NoTask}
    /\ task \in [Proc -> TaskState \cup {NoTask}]
    /\ tpc \in [Proc -> {"off", "loop", "execute", "good"}]
    /\ marking \in TaskState \cup {NoTask}
    /\ tasks \in 0 .. MaxTasks
    /\ did \in [TaskId -> SUBSET Step]
    /\ kept \in [TaskId -> SUBSET Step]
    /\ contested \subseteq TaskId

TaskInit ==
    /\ taskFile = NoTask
    /\ task = [p \in Proc |-> NoTask]
    /\ tpc = [p \in Proc |-> "off"]
    /\ marking = NoTask
    /\ tasks = 0
    /\ did = [i \in TaskId |-> {}]
    /\ kept = [i \in TaskId |-> {}]
    /\ contested = {}

Recorded(s) == {i \in Step : s.steps[i] = "completed"}

-----------------------------------------------------------------------------
(* The state file.                                                          *)

\* saveStateFile(): the file is rewritten, or it cannot be opened and keeps its old
\* contents; the caller goes on in any case.
SaveTask(s) ==
    \/ /\ taskFile' = s
       /\ kept' = IF s.id \in contested THEN kept
                   ELSE [kept EXCEPT ![s.id] = @ \cup Recorded(s)]
    \/ UNCHANGED <<taskFile, kept>>

\* From here on nothing is expected of this task's record.
Contest(i) ==
    /\ contested' = contested \cup {i}
    /\ kept' = [kept EXCEPT ![i] = {}]

\* loadStateFile(): while a process is at work the file may be found truncated.
LoadTask(s) ==
    \/ s = taskFile
    \/ s = NoTask /\ \E p \in Proc : tpc[p] # "off"

SetTask(p, s, l) ==
    /\ task' = [task EXCEPT ![p] = s]
    /\ tpc' = [tpc EXCEPT ![p] = l]

-----------------------------------------------------------------------------
(* run() and resume().                                                      *)

NewTask ==
    [id |-> tasks + 1, index |-> 1, steps |-> [i \in Step |-> "pending"],
     completed |-> FALSE, cancelled |-> FALSE]

RunTask(p) ==
    /\ tpc[p] = "off" /\ tasks < MaxTasks
    /\ tasks' = tasks + 1
    /\ SetTask(p, NewTask, "loop")
    /\ SaveTask(NewTask)
    /\ UNCHANGED <<marking, did, contested>>

\* The breakpoint of a cancelled task is where it goes on.
ResumesAt(s) == [s EXCEPT !.cancelled = FALSE]

ResumeTask(p) ==
    /\ tpc[p] = "off"
    /\ \E s \in TaskState :
          /\ LoadTask(s) /\ ~s.completed /\ s.cancelled /\ s.index \in Step
          /\ SetTask(p, ResumesAt(s), "loop")
          /\ IF \E q \in Proc : task[q].id = s.id THEN Contest(s.id)
             ELSE UNCHANGED <<contested, kept>>
    /\ UNCHANGED <<taskFile, marking, tasks, did>>

\* A task that was not cancelled - it failed, or its process was killed - or has no
\* valid index starts over, as a new task with the steps of the old one.
ResumeAfresh(p) ==
    /\ tpc[p] = "off" /\ tasks < MaxTasks
    /\ \E s \in TaskState :
          LoadTask(s) /\ ~s.completed /\ (~s.cancelled \/ s.index \notin Step)
    /\ tasks' = tasks + 1
    /\ SetTask(p, NewTask, "loop")
    /\ SaveTask(NewTask)
    /\ UNCHANGED <<marking, did, contested>>

-----------------------------------------------------------------------------
(* runSteps().                                                              *)

Current(p) == task[p].steps[task[p].index]
Mark(s, status) == [s EXCEPT !.steps[s.index] = status]

\* The loop ends here, with two saves of the same contents, and the call returns.
StopTask(p, s) ==
    /\ SaveTask(s)
    /\ SetTask(p, NoTask, "off")

CancelledBetweenSteps(p) ==
    /\ tpc[p] = "loop" /\ task[p].index \in Step
    /\ StopTask(p, [task[p] EXCEPT !.cancelled = TRUE])
    /\ UNCHANGED <<marking, tasks, did, contested>>

\* The window's network monitor says that there is no connection.  The step is marked
\* cancelled even when it was completed before the task was resumed.
AbortedByNetwork(p) ==
    /\ tpc[p] = "loop" /\ task[p].index \in Step
    /\ LET s == Mark([task[p] EXCEPT !.cancelled = TRUE], "cancelled") IN
          IF Current(p) = "completed"
          THEN taskFile' \in {s, taskFile} /\ Contest(s.id)
          ELSE SaveTask(s) /\ UNCHANGED contested
    /\ SetTask(p, NoTask, "off")
    /\ UNCHANGED <<marking, tasks, did>>

SkipStep(p) ==
    /\ tpc[p] = "loop" /\ task[p].index \in Step
    /\ Current(p) = "completed"
    /\ SetTask(p, [task[p] EXCEPT !.index = @ + 1], "loop")
    /\ UNCHANGED <<taskFile, marking, tasks, did, kept, contested>>

\* Mutant: completed steps are executed again.
BeginAnyStep(p) ==
    /\ tpc[p] = "loop" /\ task[p].index \in Step
    /\ LET s == Mark(task[p], "running") IN
          SetTask(p, s, "execute") /\ SaveTask(s)
    /\ UNCHANGED <<marking, tasks, did, contested>>

BeginStep(p) ==
    /\ tpc[p] = "loop" /\ task[p].index \in Step
    /\ Current(p) # "completed"
    /\ LET s == Mark(task[p], "running") IN
          SetTask(p, s, "execute") /\ SaveTask(s)
    /\ UNCHANGED <<marking, tasks, did, contested>>

\* executeStep(): an update, a batch test, a deduplication, a synchronisation, an
\* export or a region lookup succeeds or fails.
ExecuteStep(p) ==
    /\ tpc[p] = "execute"
    /\ tpc' = [tpc EXCEPT ![p] = "good"]
    /\ did' = [did EXCEPT ![task[p].id] = @ \cup {task[p].index}]
    /\ UNCHANGED <<taskFile, task, marking, tasks, kept,
                   contested>>

\* A cancellation counts even when the step has succeeded.
StepCancelled(p) ==
    /\ tpc[p] \in {"execute", "good"}
    /\ StopTask(p, Mark([task[p] EXCEPT !.cancelled = TRUE], "cancelled"))
    /\ UNCHANGED <<marking, tasks, did, contested>>

\* Mutant: a failed step is recorded like a completed one.
StepCompletedAnyhow(p) ==
    /\ tpc[p] \in {"execute", "good"}
    /\ LET s == Mark(task[p], "completed") IN
          SetTask(p, [s EXCEPT !.index = @ + 1], "loop") /\ SaveTask(s)
    /\ UNCHANGED <<marking, tasks, did, contested>>

\* The completion is saved under the index of the step itself.
StepCompleted(p) ==
    /\ tpc[p] = "good"
    /\ LET s == Mark(task[p], "completed") IN
          SetTask(p, [s EXCEPT !.index = @ + 1], "loop") /\ SaveTask(s)
    /\ UNCHANGED <<marking, tasks, did, contested>>

StepFailed(p) ==
    /\ tpc[p] = "execute"
    /\ StopTask(p, Mark(task[p], "failed"))
    /\ UNCHANGED <<marking, tasks, did, contested>>

\* After the last step the task is complete.
TaskCompleted(p) ==
    /\ tpc[p] = "loop" /\ task[p].index = Steps + 1
    /\ StopTask(p, [task[p] EXCEPT !.completed = TRUE])
    /\ UNCHANGED <<marking, tasks, did, contested>>

-----------------------------------------------------------------------------
(* The user, and what may happen to a process.                              *)

KillTask(p) ==
    /\ tpc[p] # "off"
    /\ SetTask(p, NoTask, "off")
    /\ taskFile' \in {taskFile, NoTask}
    /\ UNCHANGED <<marking, tasks, did, kept, contested>>

\* -cancel-task reads the file ...
MarkRead ==
    /\ marking = NoTask
    /\ \E s \in TaskState :
          /\ LoadTask(s) /\ ~s.completed /\ s.index \in Step
          /\ marking' = [s EXCEPT !.cancelled = TRUE,
                           !.steps = [i \in Step |-> IF @[i] = "running"
                                                     THEN "cancelled" ELSE @[i]]]
    /\ UNCHANGED <<taskFile, task, tpc, tasks, did, kept, contested>>

\* ... and writes it back, whatever has been saved there since.
MarkWrite ==
    /\ marking # NoTask
    /\ marking' = NoTask
    /\ taskFile' \in {marking, taskFile}
    /\ IF kept[marking.id] \subseteq Recorded(marking)
       THEN UNCHANGED <<contested, kept>>
       ELSE Contest(marking.id)
    /\ UNCHANGED <<task, tpc, tasks, did>>

-----------------------------------------------------------------------------

TaskStep(p) ==
    \/ RunTask(p) \/ ResumeTask(p) \/ ResumeAfresh(p)
    \/ CancelledBetweenSteps(p) \/ AbortedByNetwork(p) \/ SkipStep(p) \/ BeginStep(p)
    \/ ExecuteStep(p) \/ StepCancelled(p) \/ StepCompleted(p) \/ StepFailed(p)
    \/ TaskCompleted(p) \/ KillTask(p)

TaskNext == (\E p \in Proc : TaskStep(p)) \/ MarkRead \/ MarkWrite

TaskSpec == TaskInit /\ [][TaskNext]_taskVars

-----------------------------------------------------------------------------
(* Properties.                                                              *)

\* No state - in memory, in the file or on its way there - claims more than was done,
\* however processes were killed and whoever wrote the file last.  A step only starts
\* when all steps before it were done, and a task is complete only when all were.
RecordedWasDone ==
    \A s \in {task[p] : p \in Proc} \cup {taskFile, marking} :
        s # NoTask =>
            /\ Recorded(s) \subseteq did[s.id]
            /\ 1 .. (s.index - 1) \subseteq did[s.id]
            /\ s.completed => did[s.id] = Step

\* A step whose completion was saved is not executed again for the same task - unless
\* two processes were at work on it at once, -cancel-task wrote an older state back, or
\* the network failed when the task was resumed at a completed step, which it unmarks.
KeptIsNotRepeated ==
    [][\A p \in Proc :
          tpc[p] = "loop" /\ tpc'[p] = "execute" =>
              \/ task[p].id \in contested
              \/ task[p].index \notin kept[task[p].id]]_taskVars

=============================================================================
