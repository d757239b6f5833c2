------------------------ MODULE BatchTester_proofs ------------------------
(* Theorems about BatchTester for any number of workers and profiles.       *)
EXTENDS BatchTester, TLAPS, FiniteSetTheorems

HealthOK ==
    /\ dead \in [Worker -> BOOLEAN]
    /\ decision \in [Worker -> Outcome]
    /\ fails \in [Worker -> 0 .. 3]
    /\ inst \in [Worker -> InstanceState]

\* An evaluation yields an outcome and a well-formed instance.
LEMMA EvaluateType ==
    ASSUME NEW r \in InstanceState, NEW e \in Evaluate(r)
    PROVE  e.outcome \in Outcome /\ e.inst \in InstanceState
<1>1. Gone(TRUE) \in InstanceState /\ Fresh(TRUE) \in InstanceState
  BY DEF Gone, Fresh, InstanceState
<1>2. \E o \in Outcome, q \in InstanceState : e = Result(o, q)
  BY <1>1 DEF Evaluate, Outcome
<1>3. PICK o \in Outcome, q \in InstanceState : e = Result(o, q)
  BY <1>2
<1>4. e.outcome = o /\ e.inst = q
  BY <1>3 DEF Result
<1> QED
  BY <1>3, <1>4

LEMMA SecondReportType ==
    ASSUME NEW r \in InstanceState, NEW e \in Evaluate(r),
           NEW s \in SecondReport(e)
    PROVE  s.inst \in InstanceState
<1>1. e.inst \in InstanceState
  BY EvaluateType
<1>2. CASE s \in Evaluate(e.inst)
  BY <1>1, <1>2, EvaluateType
<1>3. CASE s \in Evaluate([e.inst EXCEPT !.cool = FALSE])
  <2>1. [e.inst EXCEPT !.cool = FALSE] \in InstanceState
    BY <1>1 DEF InstanceState
  <2> QED
    BY <1>3, <2>1, EvaluateType
<1> QED
  BY <1>2, <1>3 DEF SecondReport

LEMMA ReportType ==
    ASSUME NEW w \in Worker, HealthOK, ReportUnreachable(w)
    PROVE  HealthOK'
<1>1. PICK e \in Evaluate(inst[w]) : inst' = [inst EXCEPT ![w] = e.inst]
  BY DEF ReportUnreachable
<1>2. e.inst \in InstanceState
  BY <1>1, EvaluateType DEF HealthOK
<1> QED
  BY <1>1, <1>2 DEF HealthOK, ReportUnreachable

LEMMA ConnectFailsType ==
    ASSUME NEW w \in Worker, HealthOK, ConnectFails(w)
    PROVE  HealthOK'
<1>1. fails' \in [Worker -> 0 .. 3]
  BY DEF HealthOK, ConnectFails
<1>2. CASE fails[w] # 1
  BY <1>1, <1>2 DEF HealthOK, ConnectFails
<1>3. CASE fails[w] = 1
  <2>1. PICK e \in Evaluate(inst[w]) : \E s \in SecondReport(e) :
                /\ decision' = [decision EXCEPT ![w] = e.outcome]
                /\ inst' = [inst EXCEPT ![w] = s.inst]
    BY <1>3 DEF ConnectFails
  <2>2. PICK s \in SecondReport(e) :
                /\ decision' = [decision EXCEPT ![w] = e.outcome]
                /\ inst' = [inst EXCEPT ![w] = s.inst]
    BY <2>1
  <2>3. e.outcome \in Outcome /\ s.inst \in InstanceState
    BY EvaluateType, SecondReportType DEF HealthOK
  <2>4. dead' = [dead EXCEPT ![w] = TRUE]
    BY <1>3 DEF ConnectFails
  <2> QED
    BY <1>1, <2>2, <2>3, <2>4 DEF HealthOK
<1> QED
  BY <1>2, <1>3

LEMMA AnsweredType ==
    ASSUME NEW w \in Worker, HealthOK,
           NEW held \in Item \cup {Empty, Freedom, NoProcess}, Answered(w, held)
    PROVE  HealthOK'
BY DEF HealthOK, Answered, InstanceState

LEMMA RemoveType ==
    ASSUME NEW w \in Worker, HealthOK, RemoveOutbound(w)
    PROVE  HealthOK'
<1>1. {Empty, inst[w].ob} \subseteq Item \cup {Empty, Freedom, NoProcess}
  BY DEF HealthOK, InstanceState
<1> QED
  BY <1>1, ConnectFailsType, AnsweredType DEF RemoveOutbound

LEMMA AddSucceedsType ==
    ASSUME NEW w \in Worker, HealthOK, item[w] \in Item, AddSucceeds(w)
    PROVE  HealthOK'
<1>1. CASE Answered(w, item[w])
  BY <1>1, AnsweredType
<1>2. CASE /\ inst' = [inst EXCEPT ![w].ob = item[w]]
           /\ UNCHANGED <<dead, decision, fails>>
  BY <1>2 DEF HealthOK, InstanceState
<1> QED
  BY <1>1, <1>2 DEF AddSucceeds

LEMMA AddFailsType ==
    ASSUME NEW w \in Worker, NEW e, HealthOK, item[w] \in Item, AddFails(w, e)
    PROVE  HealthOK'
<1>1. CASE ConnectFails(w)
  BY <1>1, ConnectFailsType
<1>2. CASE ReportUnreachable(w)
  BY <1>2, ReportType
<1>3. CASE UNCHANGED healthVars
  BY <1>3 DEF healthVars, HealthOK
<1>4. ASSUME NEW held \in {inst[w].ob, item[w]}, Answered(w, held)
      PROVE  HealthOK'
  <2>1. held \in Item \cup {Empty, Freedom, NoProcess}
    BY DEF HealthOK, InstanceState
  <2> QED
    BY <1>4, <2>1, AnsweredType
<1> QED
  BY <1>1, <1>2, <1>3, <1>4 DEF AddFails

-----------------------------------------------------------------------------
(* Typing.  Two facts about the control state make TypeOK inductive: the    *)
(* injection loop is not left for another attempt after the third one, and  *)
(* a worker holds a profile exactly between its pop and its result.         *)

AttemptsOK ==
    \A w \in Worker :
        attempts[w] = MaxAttempts =>
            pc[w] \in {"judge", "retryRemove", "retryAdd", "report", "test"}

Holding(w) ==
    pc[w] \in Busy \cup {"quit"} \/ (pc[w] = "netwait" /\ resume[w] \in Delays)

HeldOK == \A w \in Worker : item[w] \in Item <=> Holding(w)

Typing == TypeOK /\ AttemptsOK /\ HeldOK

USE DEF MaxAttempts, Busy, Finished, Pc, Delays, Goto, NoItem

LEMMA TypingInit == Init => Typing
<1> SUFFICES ASSUME Init PROVE Typing
  OBVIOUS
<1>1. Fresh(FALSE) \in InstanceState
  BY DEF Fresh, InstanceState
<1>2. inst \in [Worker -> InstanceState] /\ fails \in [Worker -> 0 .. 3]
  BY <1>1 DEF Init, Fresh
<1>3. 0 \in 0 .. N /\ 0 \in 0 .. MaxPolls /\ 0 \in 0 .. MaxFlaps
      /\ 0 \in 0 .. MaxFaults
  BY BatchAssumption
<1>4. TypeOK
  BY <1>2, <1>3 DEF Init, TypeOK, Outcome, Error
<1>5. AttemptsOK
  BY DEF Init, AttemptsOK
<1>6. HeldOK
  BY DEF Init, HeldOK, Holding, Item
<1> QED
  BY <1>4, <1>5, <1>6 DEF Typing

LEMMA TypeHealth == TypeOK => HealthOK
BY DEF TypeOK, HealthOK

\* Counting a profile keeps the typing.
LEMMA SettleTyping ==
    ASSUME NEW w \in Worker, NEW ok \in BOOLEAN, NEW results \in {0, 1},
           Typing, Settle(w, ok, results), HealthOK', deleted' \subseteq Item
    PROVE  Typing'
<1> USE DEF Settle, Typing, TypeOK
<1>1. processed' \in Nat /\ success' \in Nat /\ failed' \in Nat
  OBVIOUS
<1>2. enqueued' \in [Item -> Nat]
  <2>1. \A i \in Item : enqueued[i] + results \in Nat
    OBVIOUS
  <2> QED
    BY <2>1
<1>3. /\ main' = main /\ front' = front /\ polls' = polls /\ resume' = resume
      /\ external' = external /\ cancelled' = cancelled /\ reported' = reported
      /\ net' = net /\ flaps' = flaps /\ faults' = faults
  BY DEF cancelVars, envVars
<1>4. /\ pc' \in [Worker -> Pc] /\ item' \in [Worker -> Item \cup {NoItem}]
      /\ attempts' \in [Worker -> 0 .. MaxAttempts] /\ err' \in [Worker -> Error]
  BY DEF Error
<1>5. TypeOK'
  BY <1>1, <1>2, <1>3, <1>4 DEF HealthOK
<1>6. AttemptsOK'
  BY DEF AttemptsOK
<1>7. HeldOK'
  BY <1>3 DEF HeldOK, Holding, Item
<1> QED
  BY <1>5, <1>6, <1>7

\* Moving on inside the handling of a profile keeps the typing.
LEMMA MoveTyping ==
    ASSUME NEW w \in Worker, NEW l \in Pc, Typing, Goto(w, l), HealthOK',
           UNCHANGED <<main, front, item, attempts, err, polls, resume,
                       countVars, envVars>>,
           external' \in BOOLEAN, cancelled' \in BOOLEAN, reported' \in BOOLEAN,
           attempts[w] = MaxAttempts =>
               l \in {"judge", "retryRemove", "retryAdd", "report", "test"},
           Holding(w) <=> \/ l \in Busy \cup {"quit"}
                          \/ l = "netwait" /\ resume[w] \in Delays
    PROVE  Typing'
<1>1. TypeOK'
  BY DEF Typing, TypeOK, HealthOK, countVars, envVars
<1>2. AttemptsOK'
  BY DEF Typing, TypeOK, AttemptsOK
<1>3. HeldOK'
  BY DEF Typing, TypeOK, HeldOK, Holding
<1> QED
  BY <1>1, <1>2, <1>3 DEF Typing

LEMMA AwaitNetworkTyping ==
    ASSUME NEW w \in Worker, Typing, pc[w] \in {"loop"} \cup Delays,
           AwaitNetwork(w)
    PROVE  Typing'
<1> USE DEF AwaitNetwork, cancelVars, healthVars, countVars, envVars
<1>1. TypeOK'
  BY BatchAssumption DEF Typing, TypeOK
<1>2. AttemptsOK'
  BY DEF Typing, TypeOK, AttemptsOK
<1>3. HeldOK'
  BY DEF Typing, TypeOK, HeldOK, Holding
<1> QED
  BY <1>1, <1>2, <1>3 DEF Typing

LEMMA LoopHeadTyping ==
    ASSUME NEW w \in Worker, Typing, LoopHead(w)
    PROVE  Typing'
<1> USE DEF cancelVars, healthVars
<1>0. HealthOK
  BY TypeHealth DEF Typing
<1>1. CASE StopOnCancel(w)
  BY <1>0, <1>1, MoveTyping
     DEF StopOnCancel, Typing, TypeOK, HealthOK, AttemptsOK, Holding
<1>2. CASE InstanceDead(w)
  <2>1. HealthOK'
    BY <1>0, <1>2 DEF InstanceDead, HealthOK
  <2>2. CASE Goto(w, "done")
    BY <1>2, <2>1, <2>2, MoveTyping
       DEF InstanceDead, Typing, TypeOK, AttemptsOK, Holding
  <2>3. CASE UNCHANGED pc
    <3>1. Goto(w, pc[w])
      BY <2>3 DEF Typing, TypeOK
    <3> QED
      BY <1>2, <2>1, <3>1, MoveTyping
         DEF InstanceDead, Typing, TypeOK, AttemptsOK, Holding
  <2> QED
    BY <1>2, <2>2, <2>3 DEF InstanceDead
<1>3. CASE LoopReady(w)
  BY <1>0, <1>3, MoveTyping
     DEF LoopReady, Typing, TypeOK, HealthOK, AttemptsOK, Holding
<1>4. CASE QueueEmpty(w)
  BY <1>0, <1>4, MoveTyping
     DEF QueueEmpty, Typing, TypeOK, HealthOK, AttemptsOK, Holding
<1>5. CASE LoopNetworkDown(w)
  BY <1>5, AwaitNetworkTyping DEF LoopNetworkDown
<1>6. CASE Pop(w)
  <2> USE DEF Pop
  <2>1. front \in Item /\ front' \in 0 .. N
    BY <1>6, BatchAssumption DEF Typing, TypeOK, Item
  <2>2. TypeOK'
    BY <1>6, <2>1 DEF Typing, TypeOK, countVars, envVars
  <2>3. AttemptsOK'
    BY <1>6 DEF Typing, TypeOK, AttemptsOK
  <2>4. HeldOK'
    BY <1>6, <2>1 DEF Typing, TypeOK, HeldOK, Holding
  <2> QED
    BY <2>2, <2>3, <2>4 DEF Typing
<1> QED
  BY <1>1, <1>2, <1>3, <1>4, <1>5, <1>6 DEF LoopHead

LEMMA PrepareTyping ==
    ASSUME NEW w \in Worker, Typing, Prepare(w)
    PROVE  Typing'
<1> USE DEF healthVars
<1>0. HealthOK /\ deleted \subseteq Item
  BY TypeHealth DEF Typing, TypeOK
<1>1. CASE PregenFail(w)
  BY <1>0, <1>1, SettleTyping DEF PregenFail, HealthOK
<1>2. CASE ConfigError(w)
  <2>1. deleted' \subseteq Item
    BY <1>0, <1>2, BatchAssumption DEF ConfigError
  <2> QED
    BY <1>0, <1>2, <2>1, SettleTyping DEF ConfigError, HealthOK
<1>3. CASE Checked(w)
  BY <1>0, <1>3, MoveTyping
     DEF Checked, cancelVars, Typing, TypeOK, HealthOK, AttemptsOK, Holding
<1> QED
  BY <1>1, <1>2, <1>3 DEF Prepare

LEMMA DelayTyping ==
    ASSUME NEW w \in Worker, Typing, Delay(w)
    PROVE  Typing'
<1> USE DEF healthVars
<1>0. HealthOK
  BY TypeHealth DEF Typing
<1>1. CASE Abandon(w)
  BY <1>0, <1>1, MoveTyping
     DEF Abandon, cancelVars, Typing, TypeOK, HealthOK, AttemptsOK, Holding
<1>2. CASE DelayNetworkDown(w)
  BY <1>2, AwaitNetworkTyping DEF DelayNetworkDown
<1>3. CASE DelayOver(w)
  BY <1>0, <1>3, MoveTyping
     DEF DelayOver, cancelVars, Typing, TypeOK, HealthOK, AttemptsOK, Holding
<1> QED
  BY <1>1, <1>2, <1>3 DEF Delay

LEMMA RemoveTyping ==
    ASSUME NEW w \in Worker, NEW from \in {"remove", "clear", "retryRemove"},
           NEW to \in {"settle", "backoff", "inject", "retryAdd"},
           from = "retryRemove" <=> to = "retryAdd", Typing, Remove(w, from, to)
    PROVE  Typing'
<1>1. HealthOK'
  BY TypeHealth, RemoveType DEF Typing, Remove
<1> QED
  BY <1>1, MoveTyping
     DEF Remove, cancelVars, Typing, TypeOK, AttemptsOK, Holding

LEMMA HeldItem ==
    ASSUME NEW w \in Worker, Typing, pc[w] \in Busy
    PROVE  item[w] \in Item
BY DEF Typing, HeldOK, Holding

\* The registers an injection attempt may change besides the program counter.
LEMMA AttemptTyping ==
    ASSUME NEW w \in Worker, Typing, HealthOK',
           pc[w] \in {"inject", "retryAdd"}, NEW l \in {"clear", "judge", "report"},
           pc' = [pc EXCEPT ![w] = l],
           err' \in [Worker -> Error], attempts' \in [Worker -> 0 .. MaxAttempts],
           \A v \in Worker \ {w} : attempts'[v] = attempts[v],
           l = "clear" => attempts'[w] # MaxAttempts,
           UNCHANGED <<main, front, item, polls, resume, cancelVars, countVars,
                       envVars>>
    PROVE  Typing'
<1>1. TypeOK'
  BY DEF Typing, TypeOK, HealthOK, cancelVars, countVars, envVars
<1>2. AttemptsOK'
  BY DEF Typing, TypeOK, AttemptsOK
<1>3. HeldOK'
  BY DEF Typing, TypeOK, HeldOK, Holding
<1> QED
  BY <1>1, <1>2, <1>3 DEF Typing

LEMMA InjectTyping ==
    ASSUME NEW w \in Worker, Typing, Inject(w)
    PROVE  Typing'
<1>0. HealthOK
  BY TypeHealth DEF Typing
<1>1. CASE InitialRemove(w)
  BY <1>1, RemoveTyping DEF InitialRemove
<1>2. CASE InjectOk(w)
  <2>1. HealthOK'
    BY <1>0, <1>2, HeldItem, AddSucceedsType DEF InjectOk
  <2> QED
    BY <1>2, <2>1, MoveTyping
       DEF InjectOk, cancelVars, Typing, TypeOK, AttemptsOK, Holding
<1>3. CASE InjectFails(w)
  <2>1. PICK e \in Error : AddFails(w, e) /\ err' = [err EXCEPT ![w] = e]
    BY <1>3 DEF InjectFails
  <2>2. HealthOK'
    BY <1>0, <1>3, <2>1, HeldItem, AddFailsType DEF InjectFails
  <2>3. attempts[w] \in 0 .. 2
    BY <1>3 DEF InjectFails, Typing, TypeOK, AttemptsOK
  <2>4. /\ err' \in [Worker -> Error] /\ attempts' \in [Worker -> 0 .. MaxAttempts]
        /\ \A v \in Worker \ {w} : attempts'[v] = attempts[v]
        /\ attempts'[w] = attempts[w] + 1
    BY <1>3, <2>1, <2>3 DEF InjectFails, Typing, TypeOK
  <2>5. /\ pc[w] = "inject"
        /\ UNCHANGED <<main, front, item, polls, resume, cancelVars, countVars,
                       envVars>>
    BY <1>3 DEF InjectFails
  <2>6. CASE attempts[w] + 1 < MaxAttempts
    <3>1. pc' = [pc EXCEPT ![w] = "clear"] /\ attempts'[w] # MaxAttempts
      BY <1>3, <2>3, <2>4, <2>6 DEF InjectFails
    <3> QED
      BY <2>2, <2>4, <2>5, <3>1, AttemptTyping
  <2>7. CASE ~(attempts[w] + 1 < MaxAttempts)
    <3>1. pc' = [pc EXCEPT ![w] = "judge"]
      BY <1>3, <2>7 DEF InjectFails
    <3> QED
      BY <2>2, <2>4, <2>5, <3>1, AttemptTyping
  <2> QED
    BY <2>6, <2>7
<1>4. CASE StopInjecting(w)
  BY <1>0, <1>4, MoveTyping
     DEF StopInjecting, cancelVars, healthVars, Typing, TypeOK, HealthOK,
         AttemptsOK, Holding
<1>5. CASE ClearTag(w)
  BY <1>5, RemoveTyping DEF ClearTag
<1>6. CASE Judge(w)
  BY <1>0, <1>6, MoveTyping
     DEF Judge, cancelVars, healthVars, Typing, TypeOK, HealthOK, AttemptsOK,
         Holding
<1>7. CASE RetryRemove(w)
  BY <1>7, RemoveTyping DEF RetryRemove
<1>8. CASE RetryOk(w)
  <2>1. HealthOK'
    BY <1>0, <1>8, HeldItem, AddSucceedsType DEF RetryOk
  <2> QED
    BY <1>8, <2>1, MoveTyping
       DEF RetryOk, cancelVars, Typing, TypeOK, AttemptsOK, Holding
<1>9. CASE RetryFails(w)
  <2>1. PICK e \in Error : AddFails(w, e) /\ err' = [err EXCEPT ![w] = e]
    BY <1>9 DEF RetryFails
  <2>2. HealthOK'
    BY <1>0, <1>9, <2>1, HeldItem, AddFailsType DEF RetryFails
  <2>3. err' \in [Worker -> Error] /\ attempts' \in [Worker -> 0 .. MaxAttempts]
    BY <1>9, <2>1 DEF RetryFails, Typing, TypeOK
  <2>4. /\ pc[w] = "retryAdd" /\ pc' = [pc EXCEPT ![w] = "report"]
        /\ UNCHANGED <<main, front, item, attempts, polls, resume, cancelVars,
                       countVars, envVars>>
    BY <1>9 DEF RetryFails
  <2> QED
    BY <2>2, <2>3, <2>4, AttemptTyping
<1>10. CASE InjectionGivenUp(w)
  <2>1. HealthOK'
    BY <1>0, <1>10, ReportType DEF InjectionGivenUp, healthVars, HealthOK
  <2> QED
    BY <1>10, <2>1, SettleTyping DEF InjectionGivenUp, Typing, TypeOK
<1> QED
  BY <1>1, <1>2, <1>3, <1>4, <1>5, <1>6, <1>7, <1>8, <1>9, <1>10 DEF Inject

LEMMA NetWaitTyping ==
    ASSUME NEW w \in Worker, Typing, NetWait(w)
    PROVE  Typing'
<1> USE DEF healthVars, cancelVars, countVars, envVars
<1>1. CASE NetworkBack(w)
  <2>1. TypeOK'
    BY <1>1, BatchAssumption DEF NetworkBack, Typing, TypeOK
  <2>2. AttemptsOK' /\ HeldOK'
    BY <1>1 DEF NetworkBack, Typing, TypeOK, AttemptsOK, HeldOK, Holding
  <2> QED
    BY <2>1, <2>2 DEF Typing
<1>2. CASE NetworkPoll(w)
  <2>1. TypeOK'
    BY <1>2, BatchAssumption DEF NetworkPoll, Typing, TypeOK
  <2>2. AttemptsOK' /\ HeldOK'
    BY <1>2 DEF NetworkPoll, Typing, AttemptsOK, HeldOK, Holding
  <2> QED
    BY <2>1, <2>2 DEF Typing
<1>3. CASE NetworkGivenUp(w)
  <2> USE DEF NetworkGivenUp, RequestBatchCancellation
  <2>1. /\ external' \in BOOLEAN /\ cancelled' \in BOOLEAN
        /\ reported' \in BOOLEAN
    BY <1>3 DEF Typing, TypeOK
  <2>2. /\ pc' \in [Worker -> Pc] /\ polls' \in [Worker -> 0 .. MaxPolls]
        /\ resume' \in [Worker -> {"loop", "settle", "backoff"}]
    BY <1>3, BatchAssumption DEF Typing, TypeOK
  <2>3. TypeOK'
    BY <1>3, <2>1, <2>2 DEF Typing, TypeOK
  <2>4. AttemptsOK' /\ HeldOK'
    BY <1>3 DEF Typing, TypeOK, AttemptsOK, HeldOK, Holding
  <2> QED
    BY <2>3, <2>4 DEF Typing
<1> QED
  BY <1>1, <1>2, <1>3 DEF NetWait

LEMMA WorkerTyping ==
    ASSUME NEW w \in Worker, Typing, WorkerStep(w)
    PROVE  Typing'
<1>0. HealthOK /\ deleted \subseteq Item
  BY TypeHealth DEF Typing, TypeOK
<1>1. CASE TestDone(w)
  BY <1>0, <1>1, SettleTyping DEF TestDone, healthVars, HealthOK
<1>2. CASE Exception(w)
  <2>1. HealthOK'
    BY <1>0, <1>2, RemoveType DEF Exception, healthVars, HealthOK
  <2> QED
    BY <1>0, <1>2, <2>1, SettleTyping DEF Exception
<1> QED
  BY <1>1, <1>2, LoopHeadTyping, PrepareTyping, DelayTyping, InjectTyping,
     NetWaitTyping DEF WorkerStep

LEMMA EnvironmentTyping ==
    ASSUME Typing, Environment
    PROVE  Typing'
<1> USE DEF workerVars, healthVars, cancelVars, countVars, envVars
<1>1. CASE UserCancels
  BY <1>1 DEF UserCancels, Typing, TypeOK, AttemptsOK, HeldOK, Holding
<1>2. CASE NetworkLost
  <2>1. flaps' \in 0 .. MaxFlaps
    BY <1>2, BatchAssumption DEF NetworkLost, Typing, TypeOK
  <2>2. TypeOK'
    BY <1>2, <2>1 DEF NetworkLost, Typing, TypeOK
  <2> QED
    BY <1>2, <2>2 DEF NetworkLost, Typing, AttemptsOK, HeldOK, Holding
<1>3. CASE NetworkRestored
  <2>1. TypeOK'
    BY <1>3 DEF NetworkRestored, Typing, TypeOK
  <2> QED
    BY <1>3, <2>1 DEF NetworkRestored, Typing, AttemptsOK, HeldOK, Holding
<1>4. ASSUME NEW w \in Worker,
             InstanceFault(w) \/ InstanceResponds(w) \/ CooldownOver(w)
      PROVE  Typing'
  <2>1. inst' \in [Worker -> InstanceState]
    <3>0. inst \in [Worker -> InstanceState]
      BY DEF Typing, TypeOK
    <3>1. CASE InstanceFault(w)
      BY <3>0, <3>1 DEF InstanceFault, InstanceState
    <3>2. CASE InstanceResponds(w)
      BY <3>0, <3>2 DEF InstanceResponds, InstanceState
    <3>3. CASE CooldownOver(w)
      BY <3>0, <3>3 DEF CooldownOver, InstanceState
    <3> QED
      BY <1>4, <3>1, <3>2, <3>3
  <2>2. faults' \in 0 .. MaxFaults
    BY <1>4, BatchAssumption
       DEF InstanceFault, InstanceResponds, CooldownOver, Typing, TypeOK
  <2>3. UNCHANGED <<main, front, pc, item, attempts, err, polls, resume, dead,
                    decision, fails, cancelVars, countVars, net, flaps>>
    BY <1>4 DEF InstanceFault, InstanceResponds, CooldownOver
  <2> QED
    BY <2>1, <2>2, <2>3 DEF Typing, TypeOK, AttemptsOK, HeldOK, Holding
<1> QED
  BY <1>1, <1>2, <1>3, <1>4 DEF Environment

LEMMA TypingNext == Typing /\ [Next]_vars => Typing'
<1> SUFFICES ASSUME Typing, [Next]_vars PROVE Typing'
  OBVIOUS
<1> USE DEF workerVars, healthVars, cancelVars, countVars, envVars
<1>1. CASE Join
  <2>1. inst' \in [Worker -> InstanceState]
    BY <1>1 DEF Join, Gone, Typing, TypeOK, InstanceState
  <2> QED
    BY <1>1, <2>1 DEF Join, Typing, TypeOK, AttemptsOK, HeldOK, Holding
<1>2. CASE UNCHANGED vars
  BY <1>2 DEF vars, Typing, TypeOK, AttemptsOK, HeldOK, Holding
<1> QED
  BY <1>1, <1>2, WorkerTyping, EnvironmentTyping DEF Next, Terminated

\* Every variable keeps its type: among others, no profile gets a fourth
\* injection attempt in the loop and no wait for the network exceeds its budget.
THEOREM TypeCorrect == Spec => []TypeOK
<1>1. Typing => TypeOK
  BY DEF Typing
<1> QED
  BY TypingInit, TypingNext, <1>1, PTL DEF Spec

-----------------------------------------------------------------------------
(* What a worker step does to the other workers and to the ledger.          *)

Others(w) ==
    \A v \in Worker \ {w} :
        /\ pc'[v] = pc[v] /\ item'[v] = item[v]
        /\ dead'[v] = dead[v] /\ decision'[v] = decision[v]
        /\ inst'[v] = inst[v]

OthersHealth(w) ==
    \A v \in Worker \ {w} :
        /\ dead'[v] = dead[v] /\ decision'[v] = decision[v]
        /\ inst'[v] = inst[v]

LEMMA ReportLocal ==
    ASSUME NEW w \in Worker, HealthOK, ReportUnreachable(w)
    PROVE  OthersHealth(w)
BY DEF HealthOK, ReportUnreachable, OthersHealth

LEMMA ConnectFailsLocal ==
    ASSUME NEW w \in Worker, HealthOK, ConnectFails(w)
    PROVE  OthersHealth(w)
<1>1. CASE fails[w] # 1
  BY <1>1 DEF HealthOK, ConnectFails, OthersHealth
<1>2. CASE fails[w] = 1
  <2>1. dead' = [dead EXCEPT ![w] = TRUE]
    BY <1>2 DEF ConnectFails
  <2>2. \E o, r : /\ decision' = [decision EXCEPT ![w] = o]
                  /\ inst' = [inst EXCEPT ![w] = r]
    BY <1>2 DEF ConnectFails
  <2> QED
    BY <2>1, <2>2 DEF HealthOK, OthersHealth
<1> QED
  BY <1>1, <1>2

LEMMA AnsweredLocal ==
    ASSUME NEW w \in Worker, NEW held, HealthOK, Answered(w, held)
    PROVE  OthersHealth(w)
BY DEF HealthOK, Answered, OthersHealth

LEMMA RemoveLocal ==
    ASSUME NEW w \in Worker, HealthOK, RemoveOutbound(w)
    PROVE  OthersHealth(w)
BY ConnectFailsLocal, AnsweredLocal DEF RemoveOutbound

LEMMA AddSucceedsLocal ==
    ASSUME NEW w \in Worker, HealthOK, AddSucceeds(w)
    PROVE  OthersHealth(w)
<1>1. CASE Answered(w, item[w])
  BY <1>1, AnsweredLocal
<1>2. CASE /\ inst' = [inst EXCEPT ![w].ob = item[w]]
           /\ UNCHANGED <<dead, decision, fails>>
  BY <1>2 DEF HealthOK, OthersHealth
<1> QED
  BY <1>1, <1>2 DEF AddSucceeds

LEMMA AddFailsLocal ==
    ASSUME NEW w \in Worker, NEW e, HealthOK, AddFails(w, e)
    PROVE  OthersHealth(w)
<1>1. CASE UNCHANGED healthVars
  BY <1>1 DEF healthVars, OthersHealth
<1>2. ASSUME NEW held, Answered(w, held)
      PROVE  OthersHealth(w)
  BY <1>2, AnsweredLocal
<1> QED
  BY <1>1, <1>2, ConnectFailsLocal, ReportLocal DEF AddFails

LEMMA WorkerHealthLocal ==
    ASSUME NEW w \in Worker, HealthOK, WorkerStep(w)
    PROVE  OthersHealth(w)
<1>1. CASE UNCHANGED healthVars
  BY <1>1 DEF healthVars, OthersHealth
<1>2. CASE LoopHead(w)
  <2>1. UNCHANGED healthVars \/ InstanceDead(w)
    BY <1>2
       DEF LoopHead, StopOnCancel, LoopNetworkDown, AwaitNetwork, LoopReady,
           QueueEmpty, Pop, healthVars
  <2> QED
    BY <1>1, <2>1 DEF InstanceDead, HealthOK, OthersHealth
<1>3. CASE Inject(w)
  <2>1. \/ UNCHANGED healthVars \/ RemoveOutbound(w) \/ AddSucceeds(w)
        \/ (\E e : AddFails(w, e)) \/ ReportUnreachable(w)
    BY <1>3
       DEF Inject, InitialRemove, InjectOk, InjectFails, StopInjecting, ClearTag,
           Judge, RetryRemove, RetryOk, RetryFails, InjectionGivenUp, Remove,
           healthVars
  <2> QED
    BY <1>1, <2>1, RemoveLocal, AddSucceedsLocal, AddFailsLocal, ReportLocal
<1>4. UNCHANGED healthVars \/ RemoveOutbound(w) \/ LoopHead(w) \/ Inject(w)
  BY DEF WorkerStep, Prepare, PregenFail, ConfigError, Checked, Delay, Abandon,
         DelayNetworkDown, AwaitNetwork, DelayOver, TestDone, Exception, NetWait,
         NetworkBack, NetworkPoll, NetworkGivenUp, healthVars
<1> QED
  BY <1>1, <1>2, <1>3, <1>4, RemoveLocal

\* The ledger moves by a pop, by the result or the deletion of the profile a
\* worker holds, or not at all.
Recorded(w) ==
    /\ pc[w] \in Busy
    /\ item' = [item EXCEPT ![w] = NoItem]
    /\ pc' = [pc EXCEPT ![w] = "loop"]
    /\ front' = front /\ main' = main /\ UNCHANGED cancelVars
    /\ processed' = processed + 1
    /\ \/ success' = success + 1 /\ failed' = failed
       \/ success' = success /\ failed' = failed + 1
    /\ \/ /\ enqueued' = [enqueued EXCEPT ![item[w]] = @ + 1]
          /\ deleted' = deleted
       \/ /\ enqueued' = enqueued
          /\ deleted' = deleted \cup {item[w]}

Elsewhere(w) ==
    /\ UNCHANGED <<front, item, main, countVars>>
    /\ \E l \in Pc : pc' = [pc EXCEPT ![w] = l]
    /\ IsCancelled => IsCancelled'

LEMMA SettleRecords ==
    ASSUME NEW w \in Worker, NEW ok \in BOOLEAN, Typing, pc[w] \in Busy,
           \/ Settle(w, ok, 1) /\ deleted' = deleted
           \/ Settle(w, ok, 0) /\ deleted' = deleted \cup {item[w]}
    PROVE  Recorded(w)
<1>1. CASE Settle(w, ok, 1) /\ deleted' = deleted
  BY <1>1 DEF Settle, Recorded
<1>2. CASE Settle(w, ok, 0) /\ deleted' = deleted \cup {item[w]}
  <2>1. item[w] \in Item
    BY HeldItem
  <2>2. enqueued' = enqueued
    BY <1>2, <2>1 DEF Settle, Typing, TypeOK
  <2> QED
    BY <1>2, <2>2 DEF Settle, Recorded
<1> QED
  BY <1>1, <1>2

LEMMA WorkerLedger ==
    ASSUME NEW w \in Worker, Typing, WorkerStep(w)
    PROVE  Pop(w) \/ Recorded(w) \/ Elsewhere(w)
<1>0. pc \in [Worker -> Pc]
  BY DEF Typing, TypeOK
<1>1. CASE LoopHead(w)
  <2>1. CASE InstanceDead(w)
    BY <1>0, <2>1 DEF InstanceDead, Elsewhere, cancelVars, IsCancelled
  <2> QED
    BY <1>1, <2>1
       DEF LoopHead, StopOnCancel, LoopNetworkDown, AwaitNetwork, LoopReady,
           QueueEmpty, Elsewhere, cancelVars, IsCancelled
<1>2. CASE Prepare(w)
  <2>1. CASE Checked(w)
    BY <2>1 DEF Checked, Elsewhere, cancelVars, IsCancelled
  <2>2. CASE PregenFail(w)
    BY <2>2, SettleRecords DEF PregenFail
  <2>3. CASE ConfigError(w)
    BY <2>3, SettleRecords DEF ConfigError
  <2> QED
    BY <1>2, <2>1, <2>2, <2>3 DEF Prepare
<1>3. CASE Delay(w)
  BY <1>3 DEF Delay, Abandon, DelayNetworkDown, AwaitNetwork, DelayOver,
              Elsewhere, cancelVars, IsCancelled
<1>4. CASE Inject(w)
  <2>1. CASE InjectionGivenUp(w)
    BY <2>1, SettleRecords DEF InjectionGivenUp
  <2>2. CASE InitialRemove(w) \/ ClearTag(w) \/ RetryRemove(w)
    BY <2>2
       DEF InitialRemove, ClearTag, RetryRemove, Remove, Elsewhere, cancelVars,
           IsCancelled
  <2>3. CASE \/ InjectOk(w) \/ InjectFails(w) \/ StopInjecting(w) \/ Judge(w)
             \/ RetryOk(w) \/ RetryFails(w)
    BY <2>3
       DEF InjectOk, InjectFails, StopInjecting, Judge, RetryOk, RetryFails,
           Elsewhere, cancelVars, IsCancelled
  <2> QED
    BY <1>4, <2>1, <2>2, <2>3 DEF Inject
<1>5. CASE TestDone(w)
  BY <1>5, SettleRecords DEF TestDone
<1>6. CASE Exception(w)
  BY <1>6, SettleRecords DEF Exception
<1>7. CASE NetWait(w)
  <2>1. CASE NetworkBack(w)
    BY <2>1 DEF NetworkBack, Elsewhere, cancelVars, IsCancelled, Typing, TypeOK
  <2>2. CASE NetworkPoll(w)
    <3>1. pc' = [pc EXCEPT ![w] = pc[w]] /\ pc[w] \in Pc
      BY <1>0, <2>2 DEF NetworkPoll
    <3> QED
      BY <2>2, <3>1 DEF NetworkPoll, Elsewhere, cancelVars, IsCancelled
  <2>3. CASE NetworkGivenUp(w)
    BY <2>3
       DEF NetworkGivenUp, RequestBatchCancellation, Elsewhere, cancelVars,
           IsCancelled
  <2> QED
    BY <1>7, <2>1, <2>2, <2>3 DEF NetWait
<1> QED
  BY <1>1, <1>2, <1>3, <1>4, <1>5, <1>6, <1>7 DEF WorkerStep

LEMMA WorkerLocal ==
    ASSUME NEW w \in Worker, Typing, WorkerStep(w)
    PROVE  /\ Others(w) /\ main' = main
           /\ IsCancelled => IsCancelled'
           /\ front = N => front' = N
<1>1. OthersHealth(w)
  BY TypeHealth, WorkerHealthLocal DEF Typing
<1>2. CASE Pop(w)
  BY <1>1, <1>2
     DEF Pop, cancelVars, IsCancelled, Typing, TypeOK, Others, OthersHealth
<1>3. CASE Recorded(w)
  BY <1>1, <1>3
     DEF Recorded, cancelVars, IsCancelled, Typing, TypeOK, Others, OthersHealth
<1>4. CASE Elsewhere(w)
  BY <1>1, <1>4 DEF Elsewhere, Typing, TypeOK, Others, OthersHealth
<1> QED
  BY <1>2, <1>3, <1>4, WorkerLedger

-----------------------------------------------------------------------------
(* No silent retirement.                                                    *)

\* A worker that leaves the loop has one of the three reasons.
LEMMA Retires ==
    ASSUME NEW w \in Worker, Typing, WorkerStep(w), pc'[w] \in Finished
    PROVE  \/ IsCancelled'
           \/ pc'[w] = "done" /\ front' = N
           \/ pc'[w] = "done" /\ dead'[w] /\ decision'[w] = "failed"
<1>0. pc \in [Worker -> Pc]
  BY DEF Typing, TypeOK
<1>1. CASE LoopHead(w)
  <2>1. CASE StopOnCancel(w)
    BY <2>1 DEF StopOnCancel, cancelVars, IsCancelled
  <2>2. CASE InstanceDead(w)
    BY <1>0, <2>2 DEF InstanceDead
  <2>3. CASE QueueEmpty(w)
    BY <1>0, <2>3 DEF QueueEmpty
  <2> QED
    BY <1>0, <1>1, <2>1, <2>2, <2>3
       DEF LoopHead, LoopNetworkDown, AwaitNetwork, LoopReady, Pop
<1>2. CASE Prepare(w)
  BY <1>0, <1>2 DEF Prepare, PregenFail, ConfigError, Checked, Settle
<1>3. CASE Delay(w)
  BY <1>0, <1>3
     DEF Delay, Abandon, DelayNetworkDown, AwaitNetwork, DelayOver, cancelVars,
         IsCancelled
<1>4. CASE Inject(w)
  BY <1>0, <1>4
     DEF Inject, InitialRemove, InjectOk, InjectFails, StopInjecting, ClearTag,
         Judge, RetryRemove, RetryOk, RetryFails, InjectionGivenUp, Remove,
         Settle
<1>5. CASE TestDone(w) \/ Exception(w)
  BY <1>0, <1>5 DEF TestDone, Exception, Settle
<1>6. CASE NetWait(w)
  <2>1. CASE NetworkGivenUp(w)
    BY <1>0, <2>1
       DEF NetworkGivenUp, RequestBatchCancellation, cancelVars, IsCancelled
  <2>2. CASE NetworkBack(w)
    BY <1>0, <2>2 DEF NetworkBack, Typing, TypeOK
  <2>3. CASE NetworkPoll(w)
    BY <2>3 DEF NetworkPoll
  <2> QED
    BY <1>6, <2>1, <2>2, <2>3 DEF NetWait
<1> QED
  BY <1>1, <1>2, <1>3, <1>4, <1>5, <1>6 DEF WorkerStep

LEMMA RetirementWorker ==
    ASSUME NEW w \in Worker, Typing, NoSilentRetirement, WorkerStep(w)
    PROVE  NoSilentRetirement'
<1> SUFFICES ASSUME NEW v \in Worker, pc'[v] \in Finished
             PROVE  \/ IsCancelled'
                    \/ pc'[v] = "done" /\ front' = N
                    \/ pc'[v] = "done" /\ dead'[v] /\ decision'[v] = "failed"
  BY DEF NoSilentRetirement
<1>1. CASE v = w
  BY <1>1, Retires
<1>2. CASE v # w
  BY <1>2, WorkerLocal DEF Others, NoSilentRetirement
<1> QED
  BY <1>1, <1>2

LEMMA RetirementNext ==
    Typing /\ NoSilentRetirement /\ [Next]_vars => NoSilentRetirement'
<1> SUFFICES ASSUME Typing, NoSilentRetirement, [Next]_vars
             PROVE  NoSilentRetirement'
  OBVIOUS
<1> USE DEF workerVars, healthVars, cancelVars, countVars, envVars
<1>1. CASE Join
  BY <1>1 DEF Join, NoSilentRetirement, IsCancelled
<1>2. CASE Environment
  <2>1. UNCHANGED <<front, pc, dead, decision>>
    BY <1>2
       DEF Environment, UserCancels, NetworkLost, NetworkRestored, InstanceFault,
           InstanceResponds, CooldownOver
  <2>2. IsCancelled => IsCancelled'
    <3>1. CASE UserCancels
      BY <3>1 DEF UserCancels, IsCancelled
    <3>2. CASE UNCHANGED cancelVars
      BY <3>2 DEF IsCancelled
    <3> QED
      BY <1>2, <3>1, <3>2
         DEF Environment, NetworkLost, NetworkRestored, InstanceFault,
             InstanceResponds, CooldownOver
  <2> QED
    BY <2>1, <2>2 DEF NoSilentRetirement
<1>3. CASE UNCHANGED vars
  BY <1>3 DEF vars, NoSilentRetirement, IsCancelled
<1> QED
  BY <1>1, <1>2, <1>3, RetirementWorker DEF Next, Terminated

\* A worker thread only ends on cancellation, on an empty queue or after a
\* relaunch of its instance that really failed.
THEOREM NoWorkerVanishes == Spec => []NoSilentRetirement
<1>1. Init => NoSilentRetirement
  BY DEF Init, NoSilentRetirement
<1> QED
  BY <1>1, TypingInit, TypingNext, RetirementNext, PTL DEF Spec

-----------------------------------------------------------------------------
(* The accounting of the profiles.                                          *)

\* Two workers never hold the same profile.
Unique ==
    \A v, w \in Worker : item[v] \in Item /\ item[v] = item[w] => v = w

\* A profile is queued, or held, or reported once, or deleted.
Placed ==
    \A i \in Item :
        \/ /\ i >= front /\ enqueued[i] = 0 /\ i \notin deleted
           /\ \A w \in Worker : item[w] # i
        \/ /\ i < front /\ enqueued[i] = 0 /\ i \notin deleted
           /\ \E w \in Worker : item[w] = i
        \/ /\ i < front /\ enqueued[i] = 1 /\ i \notin deleted
           /\ \A w \in Worker : item[w] # i
        \/ /\ i < front /\ enqueued[i] = 0 /\ i \in deleted
           /\ \A w \in Worker : item[w] # i

Accounting == Unique /\ Placed /\ CountersMatch

LEMMA ItemsFinite ==
    /\ IsFiniteSet(Item)
    /\ \A S \in SUBSET Item : IsFiniteSet(S)
<1>1. IsFiniteSet(Item)
  BY FS_Interval, BatchAssumption DEF Item
<1> QED
  BY <1>1, FS_Subset

LEMMA AccountingInit == Init => Accounting
<1> SUFFICES ASSUME Init PROVE Accounting
  OBVIOUS
<1>1. Unique /\ Placed
  BY DEF Init, Unique, Placed, Item, NoItem
<1>2. Settled = {}
  BY DEF Init, Settled
<1>3. CountersMatch
  BY <1>2, FS_EmptySet DEF Init, CountersMatch
<1> QED
  BY <1>1, <1>3 DEF Accounting

LEMMA AccountingPop ==
    ASSUME NEW w \in Worker, Typing, Accounting, Pop(w)
    PROVE  Accounting'
<1>0. ~Holding(w)
  BY DEF Pop, Holding
<1>1. /\ front \in Item /\ front' = front + 1 /\ item' = [item EXCEPT ![w] = front]
      /\ UNCHANGED countVars /\ item[w] \notin Item
  <2>1. item[w] \notin Item
    BY <1>0 DEF Typing, HeldOK
  <2>2. front \in Item
    BY BatchAssumption DEF Pop, Typing, TypeOK, Item
  <2> QED
    BY <2>1, <2>2 DEF Pop
<1>2. \A v \in Worker : item[v] # front
  BY <1>1 DEF Accounting, Placed, Item
<1>3. Unique'
  BY <1>1, <1>2 DEF Accounting, Unique, Typing, TypeOK
<1>4. Placed'
  <2> SUFFICES ASSUME NEW i \in Item
               PROVE  Placed!(i)'
    BY DEF Placed
  <2>1. enqueued'[i] = enqueued[i] /\ deleted' = deleted
    BY <1>1 DEF countVars
  <2>2. CASE i = front
    BY <1>1, <1>2, <2>1, <2>2 DEF Accounting, Placed, Typing, TypeOK, Item
  <2>3. CASE i # front
    BY <1>1, <2>1, <2>3 DEF Accounting, Placed, Typing, TypeOK, Item
  <2> QED
    BY <2>2, <2>3
<1>5. CountersMatch'
  BY <1>1 DEF Accounting, CountersMatch, Settled, countVars
<1> QED
  BY <1>3, <1>4, <1>5 DEF Accounting

LEMMA AccountingRecorded ==
    ASSUME NEW w \in Worker, Typing, Accounting, Recorded(w)
    PROVE  Accounting'
<1>1. /\ item[w] \in Item /\ item[w] < front
      /\ enqueued[item[w]] = 0 /\ item[w] \notin deleted
  BY HeldItem DEF Recorded, Accounting, Placed
<1>2. \A v \in Worker : item'[v] = IF v = w THEN NoItem ELSE item[v]
  BY DEF Recorded, Typing, TypeOK
<1>3. Unique'
  BY <1>2 DEF Accounting, Unique, Item, NoItem
<1>4. \A v \in Worker : item'[v] # item[w]
  BY <1>1, <1>2 DEF Accounting, Unique, Item, NoItem
<1>5. \A i \in Item \ {item[w]} :
          (\E v \in Worker : item'[v] = i) <=> (\E v \in Worker : item[v] = i)
  BY <1>1, <1>2 DEF Item, NoItem
<1>6. Placed'
  <2> SUFFICES ASSUME NEW i \in Item
               PROVE  Placed!(i)'
    BY DEF Placed
  <2>1. CASE i = item[w]
    BY <1>1, <1>4, <2>1 DEF Recorded, Typing, TypeOK
  <2>2. CASE i # item[w]
    <3>1. enqueued'[i] = enqueued[i] /\ (i \in deleted' <=> i \in deleted)
      BY <1>1, <2>2 DEF Recorded, Typing, TypeOK
    <3>2. front' = front
      BY DEF Recorded
    <3> QED
      BY <1>5, <2>2, <3>1, <3>2 DEF Accounting, Placed
  <2> QED
    BY <2>1, <2>2
<1>7. CountersMatch'
  <2>1. Settled' = Settled \cup {item[w]} /\ item[w] \notin Settled
    BY <1>1 DEF Recorded, Settled, Typing, TypeOK
  <2>2. Settled \subseteq Item
    BY DEF Settled, Typing, TypeOK
  <2>3. Cardinality(Settled') = Cardinality(Settled) + 1
    BY <2>1, <2>2, ItemsFinite, FS_AddElement
  <2> QED
    BY <2>3 DEF Recorded, Accounting, CountersMatch, Typing, TypeOK
<1> QED
  BY <1>3, <1>6, <1>7 DEF Accounting

LEMMA AccountingNext == Typing /\ Accounting /\ [Next]_vars => Accounting'
<1> SUFFICES ASSUME Typing, Accounting, [Next]_vars PROVE Accounting'
  OBVIOUS
<1>1. CASE UNCHANGED <<front, item, countVars>>
  BY <1>1 DEF Accounting, Unique, Placed, CountersMatch, Settled, countVars
<1>2. ASSUME NEW w \in Worker, WorkerStep(w)
      PROVE  Accounting'
  BY <1>1, <1>2, WorkerLedger, AccountingPop, AccountingRecorded DEF Elsewhere
<1>3. CASE Join \/ Environment \/ UNCHANGED vars
  BY <1>1, <1>3
     DEF Join, Environment, UserCancels, NetworkLost, NetworkRestored,
         InstanceFault, InstanceResponds, CooldownOver, vars, workerVars
<1> QED
  BY <1>2, <1>3 DEF Next, Terminated

LEMMA AccountingAlways == Spec => [](Typing /\ Accounting)
BY TypingInit, TypingNext, AccountingInit, AccountingNext, PTL DEF Spec

\* No profile is tested twice, reported twice, or lost between two workers.
THEOREM EveryProfileInOnePlace == Spec => []ExactlyOnce
<1>1. Typing /\ Accounting => ExactlyOnce
  <2> SUFFICES ASSUME Typing, Accounting, NEW i \in Item
               PROVE  ExactlyOnce!(i)
    BY DEF ExactlyOnce
  <2>1. CASE \A w \in Worker : item[w] # i
    <3>1. Cardinality(Holders(i)) = 0
      BY <2>1, FS_EmptySet DEF Holders
    <3>2. enqueued[i] + (IF i \in deleted THEN 1 ELSE 0)
              = (IF i < front THEN 1 ELSE 0)
      BY <2>1 DEF Accounting, Placed, Typing, TypeOK, Item
    <3> QED
      BY <3>1, <3>2
  <2>2. CASE \E w \in Worker : item[w] = i
    <3>1. PICK w \in Worker : item[w] = i
      BY <2>2
    <3>2. Holders(i) = {w}
      BY <3>1 DEF Holders, Accounting, Unique
    <3>3. Cardinality(Holders(i)) = 1
      BY <3>2, FS_Singleton
    <3>4. enqueued[i] = 0 /\ i \notin deleted /\ i < front
      BY <2>2 DEF Accounting, Placed
    <3> QED
      BY <3>3, <3>4
  <2> QED
    BY <2>1, <2>2
<1> QED
  BY <1>1, AccountingAlways, PTL

\* The printed totals count every settled profile once.
THEOREM SummaryIsRight == Spec => []CountersMatch
<1>1. Accounting => CountersMatch
  BY DEF Accounting
<1> QED
  BY <1>1, AccountingAlways, PTL

-----------------------------------------------------------------------------
(* The end of the batch.                                                    *)

DoneAfterJoin == main = "done" => \A w \in Worker : pc[w] \in Finished

LEMMA FinishedStays ==
    ASSUME NEW w \in Worker, Typing, WorkerStep(w)
    PROVE  pc[w] \notin Finished
BY DEF WorkerStep, LoopHead, Prepare, Delay, Inject, NetWait, StopOnCancel,
       InstanceDead, LoopNetworkDown, AwaitNetwork, LoopReady, QueueEmpty, Pop,
       PregenFail, ConfigError, Checked, Abandon, DelayNetworkDown, DelayOver,
       InitialRemove, InjectOk, InjectFails, StopInjecting, ClearTag, Judge,
       RetryRemove, RetryOk, RetryFails, InjectionGivenUp, Remove, TestDone,
       Exception, NetworkBack, NetworkPoll, NetworkGivenUp

LEMMA JoinNext == Typing /\ DoneAfterJoin /\ [Next]_vars => DoneAfterJoin'
<1> SUFFICES ASSUME Typing, DoneAfterJoin, [Next]_vars PROVE DoneAfterJoin'
  OBVIOUS
<1>1. ASSUME NEW w \in Worker, WorkerStep(w)
      PROVE  DoneAfterJoin'
  BY <1>1, FinishedStays, WorkerLocal DEF DoneAfterJoin
<1>2. CASE Join
  BY <1>2 DEF Join, DoneAfterJoin, workerVars
<1>3. CASE Environment \/ UNCHANGED vars
  BY <1>3
     DEF DoneAfterJoin, Environment, UserCancels, NetworkLost, NetworkRestored,
         InstanceFault, InstanceResponds, CooldownOver, vars, workerVars
<1> QED
  BY <1>1, <1>2, <1>3 DEF Next, Terminated

Batch == Typing /\ Accounting /\ NoSilentRetirement /\ DoneAfterJoin

LEMMA BatchInit == Init => Batch
<1>1. Init => NoSilentRetirement /\ DoneAfterJoin
  BY DEF Init, NoSilentRetirement, DoneAfterJoin
<1> QED
  BY <1>1, TypingInit, AccountingInit DEF Batch

LEMMA BatchNext == Batch /\ [Next]_vars => Batch'
BY TypingNext, AccountingNext, RetirementNext, JoinNext DEF Batch

LEMMA BatchAlways == Spec => []Batch
BY BatchInit, BatchNext, PTL DEF Spec

\* A batch that is not cancelled settles every profile it loaded, unless all of
\* its workers were stopped by a failed relaunch.
THEOREM NothingLeftBehind == Spec => []BatchAccounted
<1>1. Batch => BatchAccounted
  <2> SUFFICES ASSUME Batch, main = "done", ~IsCancelled
               PROVE  /\ Settled = 0 .. front - 1
                      /\ front = N \/ \A w \in Worker :
                                         dead[w] /\ decision[w] = "failed"
    BY DEF BatchAccounted
  <2>1. \A w \in Worker : pc[w] = "done"
    BY DEF Batch, DoneAfterJoin, NoSilentRetirement
  <2>2. \A w \in Worker : item[w] \notin Item
    BY <2>1 DEF Batch, Typing, HeldOK, Holding
  <2>3. ASSUME NEW i \in Item
        PROVE  i \in Settled <=> i < front
    <3>1. \A w \in Worker : item[w] # i
      BY <2>2
    <3>2. i \in Item /\ front \in 0 .. N /\ enqueued[i] \in Nat
      BY DEF Batch, Typing, TypeOK
    <3>3. (enqueued[i] > 0 \/ i \in deleted) <=> i < front
      BY <3>1, <3>2 DEF Batch, Accounting, Placed, Item
    <3> QED
      BY <3>3 DEF Settled
  <2>4. Settled \subseteq Item /\ front \in 0 .. N
    BY DEF Batch, Typing, TypeOK, Settled
  <2>5. Settled = 0 .. front - 1
    <3>1. 0 .. front - 1 \subseteq Item /\ \A i \in Item : i < front <=> i \in 0 .. front - 1
      BY <2>4, BatchAssumption DEF Item
    <3> QED
      BY <2>3, <2>4, <3>1
  <2> QED
    BY <2>1, <2>5 DEF Batch, NoSilentRetirement, DoneAfterJoin
<1> QED
  BY <1>1, BatchAlways, PTL

-----------------------------------------------------------------------------
(* A test measures the worker's own outbound.                               *)

LEMMA TestedNext ==
    Typing /\ TestedOutboundIsOwn /\ DoneAfterJoin /\ [Next]_vars
        => TestedOutboundIsOwn'
<1> SUFFICES ASSUME Typing, TestedOutboundIsOwn, DoneAfterJoin, [Next]_vars,
                    NEW v \in Worker, pc'[v] = "test"
             PROVE  inst'[v].ob \in {item'[v], NoProcess}
  BY DEF TestedOutboundIsOwn
<1>1. ASSUME NEW w \in Worker, WorkerStep(w)
      PROVE  inst'[v].ob \in {item'[v], NoProcess}
  <2>1. CASE v # w
    BY <1>1, <2>1, WorkerLocal DEF Others, TestedOutboundIsOwn
  <2>2. CASE v = w
    <3>1. InjectOk(w) \/ RetryOk(w)
      BY <1>1, <2>2
         DEF WorkerStep, LoopHead, Prepare, Delay, Inject, NetWait, StopOnCancel,
             InstanceDead, LoopNetworkDown, AwaitNetwork, LoopReady, QueueEmpty,
             Pop, PregenFail, ConfigError, Checked, Abandon, DelayNetworkDown,
             DelayOver, InitialRemove, InjectFails, StopInjecting, ClearTag,
             Judge, RetryRemove, RetryFails, InjectionGivenUp, Remove, TestDone,
             Exception, NetworkBack, NetworkPoll, NetworkGivenUp, Settle, Typing,
             TypeOK
    <3>2. inst' = [inst EXCEPT ![w].ob = item[w]] /\ item' = item
      BY <3>1 DEF InjectOk, RetryOk, AddSucceeds, Answered
    <3> QED
      BY <2>2, <3>2 DEF Typing, TypeOK, InstanceState
  <2> QED
    BY <2>1, <2>2
<1>2. CASE Join
  BY <1>2 DEF Join, workerVars
<1>3. ASSUME NEW w \in Worker,
             InstanceFault(w) \/ InstanceResponds(w) \/ CooldownOver(w)
      PROVE  inst'[v].ob \in {item'[v], NoProcess}
  <2>1. pc' = pc /\ item' = item
    BY <1>3 DEF InstanceFault, InstanceResponds, CooldownOver, workerVars
  <2>2. inst'[v].ob \in {inst[v].ob, NoProcess}
    BY <1>3
       DEF InstanceFault, InstanceResponds, CooldownOver, Typing, TypeOK,
           InstanceState
  <2> QED
    BY <2>1, <2>2 DEF TestedOutboundIsOwn
<1>4. CASE UserCancels \/ NetworkLost \/ NetworkRestored \/ UNCHANGED vars
  BY <1>4
     DEF UserCancels, NetworkLost, NetworkRestored, vars, workerVars, healthVars,
         TestedOutboundIsOwn
<1> QED
  BY <1>1, <1>2, <1>3, <1>4 DEF Next, Environment, Terminated

\* No verdict is a measurement of the Freedom placeholder of a relaunched
\* instance or of another profile's outbound.
THEOREM VerdictsAreOwn == Spec => []TestedOutboundIsOwn
<1>1. Init => TestedOutboundIsOwn
  BY DEF Init, TestedOutboundIsOwn
<1>2. Batch => Typing /\ DoneAfterJoin
  BY DEF Batch
<1> QED
  BY <1>1, <1>2, BatchAlways, TestedNext, PTL DEF Spec

-----------------------------------------------------------------------------
(* The engine implements the ledger.                                        *)

Lost(i) == \E w \in Worker : item[w] = i /\ pc[w] = "quit"
Held(i) == \E w \in Worker : item[w] = i /\ pc[w] # "quit"

\* The refinement mapping in terms of who holds a profile.
StatusFacts ==
    \A i \in Item :
        /\ LedgerStatus[i] = "queued" <=> i >= front
        /\ LedgerStatus[i] = "settled" <=> i < front /\ i \in Settled
        /\ LedgerStatus[i] = "lost" <=> Lost(i)
        /\ LedgerStatus[i] = "held" <=> Held(i)
        /\ LedgerStatus[i] \in {"queued", "held", "settled", "lost"}

LEMMA StatusOf == Batch => StatusFacts
<1> SUFFICES ASSUME Batch, NEW i \in Item PROVE StatusFacts!(i)
  BY DEF StatusFacts
<1>1. front \in 0 .. N /\ i \in Nat /\ enqueued[i] \in Nat
  BY DEF Batch, Typing, TypeOK, Item
<1>2. Lost(i) \/ Held(i) => i < front /\ i \notin Settled
  BY <1>1 DEF Batch, Accounting, Placed, Settled, Lost, Held
<1>3. i < front /\ i \notin Settled => Lost(i) \/ Held(i)
  BY <1>1 DEF Batch, Accounting, Placed, Settled, Lost, Held
<1>4. ~(Lost(i) /\ Held(i))
  BY DEF Batch, Accounting, Unique, Lost, Held
<1>5. CASE i >= front
  BY <1>1, <1>2, <1>5 DEF LedgerStatus
<1>6. CASE i < front /\ i \in Settled
  BY <1>1, <1>2, <1>6 DEF LedgerStatus
<1>7. CASE i < front /\ i \notin Settled
  <2>1. LedgerStatus[i] = IF Lost(i) THEN "lost" ELSE "held"
    BY <1>1, <1>7 DEF LedgerStatus, Lost
  <2> QED
    BY <1>1, <1>3, <1>4, <1>7, <2>1
<1> QED
  BY <1>1, <1>5, <1>6, <1>7

LEMMA StatusOfNext == Batch' => StatusFacts'
BY StatusOf, PTL

\* A worker that leaves with its profile knows of a cancellation; no such step
\* raises one.
LEMMA Quits ==
    ASSUME NEW w \in Worker, Typing, WorkerStep(w), pc'[w] = "quit"
    PROVE  IsCancelled /\ UNCHANGED cancelVars
<1>0. pc \in [Worker -> Pc]
  BY DEF Typing, TypeOK
<1>1. Abandon(w) \/ NetworkGivenUp(w)
  BY <1>0
     DEF WorkerStep, LoopHead, Prepare, Delay, Inject, NetWait, StopOnCancel,
         InstanceDead, LoopNetworkDown, AwaitNetwork, LoopReady, QueueEmpty, Pop,
         PregenFail, ConfigError, Checked, DelayNetworkDown, DelayOver,
         InitialRemove, InjectOk, InjectFails, StopInjecting, ClearTag, Judge,
         RetryRemove, RetryOk, RetryFails, InjectionGivenUp, Remove, TestDone,
         Exception, NetworkBack, NetworkPoll, Settle, Typing, TypeOK
<1>2. CASE Abandon(w)
  BY <1>2 DEF Abandon
<1>3. CASE NetworkGivenUp(w)
  BY <1>0, <1>3 DEF NetworkGivenUp
<1> QED
  BY <1>1, <1>2, <1>3

LEMMA StatusFunction ==
    LedgerStatus = [i \in Item |-> LedgerStatus[i]]
BY DEF LedgerStatus

\* A step that moves one profile from one status to another.
LEMMA MapsToMove ==
    ASSUME Batch, Batch', NEW i \in Item, NEW from, NEW to,
           LedgerStatus[i] = from, LedgerStatus'[i] = to,
           \A j \in Item \ {i} : LedgerStatus'[j] = LedgerStatus[j],
           main = "joining", main' = main, UNCHANGED cancelVars
    PROVE  Ledger!Move(i, from, to)
<1>1. LedgerStatus' = [LedgerStatus EXCEPT ![i] = to]
  <2>1. LedgerStatus' = [j \in Item |-> LedgerStatus'[j]]
    BY DEF LedgerStatus
  <2> QED
    BY <2>1, StatusFunction
<1>2. IsCancelled' = IsCancelled /\ (main = "done")' = (main = "done")
  BY DEF cancelVars, IsCancelled
<1> QED
  BY <1>1, <1>2 DEF Ledger!Move

LEMMA MapsToStutter ==
    ASSUME Batch, Batch', \A j \in Item : LedgerStatus'[j] = LedgerStatus[j],
           main' = main, IsCancelled' = IsCancelled
    PROVE  UNCHANGED Ledger!vars
<1>1. LedgerStatus' = LedgerStatus
  BY DEF LedgerStatus
<1> QED
  BY <1>1 DEF Ledger!vars

LEMMA MapsToStop ==
    ASSUME Batch, Batch', \A j \in Item : LedgerStatus'[j] = LedgerStatus[j],
           main = "joining", main' = main, IsCancelled', ~IsCancelled
    PROVE  Ledger!Stop
<1>1. LedgerStatus' = LedgerStatus
  BY DEF LedgerStatus
<1> QED
  BY <1>1 DEF Ledger!Stop

LEMMA PopMaps ==
    ASSUME NEW w \in Worker, Batch, Batch', Pop(w)
    PROVE  \E i \in Item : Ledger!Take(i)
<1>1. /\ front \in Item /\ front' = front + 1 /\ item' = [item EXCEPT ![w] = front]
      /\ pc' = [pc EXCEPT ![w] = "prep"] /\ pc[w] = "pop"
      /\ UNCHANGED <<main, cancelVars, countVars>>
  BY BatchAssumption DEF Pop, Batch, Typing, TypeOK, Item
<1>2. PICK i \in Item : i = front
  BY <1>1
<1>3. main = "joining"
  BY <1>1 DEF Batch, DoneAfterJoin, Typing, TypeOK
<1>4. item[w] \notin Item
  BY <1>1 DEF Batch, Typing, HeldOK, Holding
<1>5. \A j \in Item \ {i} : (Lost(j)' <=> Lost(j)) /\ (Held(j)' <=> Held(j))
  <2>1. \A v \in Worker \ {w} : item'[v] = item[v] /\ pc'[v] = pc[v]
    BY <1>1 DEF Batch, Typing, TypeOK
  <2>2. item'[w] = i
    BY <1>1, <1>2 DEF Batch, Typing, TypeOK
  <2> QED
    BY <1>4, <2>1, <2>2 DEF Lost, Held
<1>6. Held(i)'
  BY <1>1, <1>2 DEF Held, Batch, Typing, TypeOK
<1>7. \A j \in Item \ {i} : LedgerStatus'[j] = LedgerStatus[j]
  <2>1. \A j \in Item \ {i} : (j >= front' <=> j >= front) /\ (j < front' <=> j < front)
    BY <1>1, <1>2 DEF Item
  <2>2. Settled' = Settled
    BY <1>1 DEF Settled, countVars
  <2> QED
    BY <1>5, <2>1, <2>2, StatusOf, StatusOfNext DEF StatusFacts
<1>8. LedgerStatus[i] = "queued" /\ LedgerStatus'[i] = "held"
  BY <1>2, <1>6, StatusOf, StatusOfNext DEF StatusFacts, Item
<1>9. Ledger!Move(i, "queued", "held")
  BY <1>1, <1>3, <1>7, <1>8, MapsToMove
<1>10. \A j \in Item : j < i => LedgerStatus[j] # "queued"
  BY <1>2, StatusOf DEF StatusFacts, Item
<1> QED
  BY <1>9, <1>10 DEF Ledger!Take, Ledger!Item, Item

LEMMA RecordedMaps ==
    ASSUME NEW w \in Worker, Batch, Batch', Recorded(w)
    PROVE  \E i \in Item : Ledger!SettleItem(i)
<1>1. PICK i \in Item : i = item[w]
  BY HeldItem DEF Recorded, Batch
<1>2. main = "joining" /\ main' = main /\ front' = front /\ UNCHANGED cancelVars
  BY DEF Recorded, Batch, DoneAfterJoin, Typing, TypeOK
<1>3. \A v \in Worker : /\ item'[v] = IF v = w THEN NoItem ELSE item[v]
                        /\ v # w => pc'[v] = pc[v]
  BY DEF Recorded, Batch, Typing, TypeOK
<1>4. \A j \in Item \ {i} : (Lost(j)' <=> Lost(j)) /\ (Held(j)' <=> Held(j))
  BY <1>1, <1>3 DEF Lost, Held, Item, NoItem
<1>5. enqueued[i] = 0 /\ i \notin deleted /\ i < front
  BY <1>1 DEF Batch, Accounting, Placed
<1>6. Settled' = Settled \cup {i}
  BY <1>1, <1>5 DEF Recorded, Settled, Batch, Typing, TypeOK
<1>7. \A j \in Item \ {i} : LedgerStatus'[j] = LedgerStatus[j]
  BY <1>2, <1>4, <1>6, StatusOf, StatusOfNext DEF StatusFacts
<1>8. Held(i)
  BY <1>1 DEF Held, Recorded
<1>9. LedgerStatus[i] = "held" /\ LedgerStatus'[i] = "settled"
  BY <1>2, <1>5, <1>6, <1>8, StatusOf, StatusOfNext DEF StatusFacts
<1>10. Ledger!Move(i, "held", "settled")
  BY <1>2, <1>7, <1>9, MapsToMove
<1> QED
  BY <1>10 DEF Ledger!SettleItem

LEMMA ElsewhereMaps ==
    ASSUME NEW w \in Worker, Batch, Batch', WorkerStep(w), Elsewhere(w)
    PROVE  \/ \E i \in Item : Ledger!Lose(i)
           \/ Ledger!Stop
           \/ UNCHANGED Ledger!vars
<1>1. PICK l \in Pc : pc' = [pc EXCEPT ![w] = l]
  BY DEF Elsewhere
<1>2. /\ UNCHANGED <<front, item, main, countVars>> /\ (IsCancelled => IsCancelled')
      /\ pc[w] \notin Finished /\ main = "joining" /\ pc'[w] = l
      /\ \A v \in Worker \ {w} : pc'[v] = pc[v]
  BY <1>1, FinishedStays
     DEF Elsewhere, Batch, DoneAfterJoin, Typing, TypeOK
<1>3. Settled' = Settled
  BY <1>2 DEF Settled, countVars
<1>4. ASSUME NEW j \in Item, j # item[w] \/ l # "quit"
      PROVE  LedgerStatus'[j] = LedgerStatus[j]
  <2>1. (Lost(j)' <=> Lost(j)) /\ (Held(j)' <=> Held(j))
    BY <1>2, <1>4 DEF Lost, Held
  <2> QED
    BY <1>2, <1>3, <2>1, StatusOf, StatusOfNext DEF StatusFacts
<1>5. CASE l = "quit" /\ item[w] \in Item
  <2>1. PICK i \in Item : i = item[w]
    BY <1>5
  <2>2. IsCancelled /\ UNCHANGED cancelVars
    BY <1>2, <1>5, Quits DEF Batch
  <2>3. Held(i) /\ Lost(i)'
    BY <1>2, <1>5, <2>1 DEF Held, Lost
  <2>4. LedgerStatus[i] = "held" /\ LedgerStatus'[i] = "lost"
    BY <2>3, StatusOf, StatusOfNext DEF StatusFacts
  <2>5. Ledger!Move(i, "held", "lost")
    BY <1>2, <1>4, <2>1, <2>2, <2>4, MapsToMove
  <2> QED
    BY <2>2, <2>5 DEF Ledger!Lose
<1>6. CASE ~(l = "quit" /\ item[w] \in Item)
  <2>1. \A j \in Item : LedgerStatus'[j] = LedgerStatus[j]
    BY <1>4, <1>6
  <2>2. CASE IsCancelled' <=> IsCancelled
    <3>1. IsCancelled' = IsCancelled
      BY <2>2 DEF IsCancelled
    <3> QED
      BY <1>2, <2>1, <3>1, MapsToStutter
  <2>3. CASE IsCancelled' /\ ~IsCancelled
    BY <1>2, <2>1, <2>3, MapsToStop
  <2> QED
    BY <1>2, <2>2, <2>3
<1> QED
  BY <1>5, <1>6

LEMMA JoinMaps ==
    ASSUME Batch, Batch', Join
    PROVE  Ledger!Close
<1>1. /\ UNCHANGED <<front, pc, item, cancelVars, countVars>>
      /\ main = "joining" /\ main' = "done"
      /\ \A w \in Worker : pc[w] \in Finished
  BY DEF Join, workerVars
<1>2. \A i \in Item : ~Held(i)
  BY <1>1 DEF Held, Batch, Typing, HeldOK, Holding
<1>3. \A i \in Item : LedgerStatus[i] # "held"
  BY <1>2, StatusOf DEF StatusFacts
<1>4. LedgerStatus' = LedgerStatus
  BY <1>1 DEF LedgerStatus, Settled, countVars
<1>5. IsCancelled' = IsCancelled
  BY <1>1 DEF IsCancelled, cancelVars
<1> QED
  BY <1>1, <1>3, <1>4, <1>5 DEF Ledger!Close, Ledger!Item, Item

LEMMA EnvironmentMaps ==
    ASSUME Batch, Batch', Environment
    PROVE  Ledger!Stop \/ UNCHANGED Ledger!vars
<1>1. UNCHANGED <<front, pc, item, main, countVars>>
  BY DEF Environment, UserCancels, NetworkLost, NetworkRestored, InstanceFault,
         InstanceResponds, CooldownOver, workerVars
<1>2. \A j \in Item : LedgerStatus'[j] = LedgerStatus[j]
  BY <1>1 DEF LedgerStatus, Settled, countVars
<1>3. CASE UserCancels
  <2>1. main = "joining" /\ IsCancelled'
    BY <1>3 DEF UserCancels, IsCancelled
  <2>2. CASE IsCancelled
    <3>1. IsCancelled' = IsCancelled
      BY <2>1, <2>2 DEF IsCancelled
    <3> QED
      BY <1>1, <1>2, <3>1, MapsToStutter
  <2>3. CASE ~IsCancelled
    BY <1>1, <1>2, <2>1, <2>3, MapsToStop
  <2> QED
    BY <2>2, <2>3
<1>4. CASE UNCHANGED cancelVars
  <2>1. IsCancelled' = IsCancelled
    BY <1>4 DEF IsCancelled, cancelVars
  <2> QED
    BY <1>1, <1>2, <2>1, MapsToStutter
<1> QED
  BY <1>3, <1>4
     DEF Environment, NetworkLost, NetworkRestored, InstanceFault,
         InstanceResponds, CooldownOver

LEMMA StepMaps == Batch /\ Batch' /\ [Next]_vars => [Ledger!Next]_(Ledger!vars)
<1> SUFFICES ASSUME Batch, Batch', [Next]_vars
             PROVE  Ledger!Next \/ UNCHANGED Ledger!vars
  OBVIOUS
<1>1. ASSUME NEW w \in Worker, WorkerStep(w)
      PROVE  Ledger!Next \/ UNCHANGED Ledger!vars
  <2>1. CASE Pop(w)
    BY <2>1, PopMaps DEF Ledger!Next, Ledger!Item, Item
  <2>2. CASE Recorded(w)
    BY <2>2, RecordedMaps DEF Ledger!Next, Ledger!Item, Item
  <2>3. CASE Elsewhere(w)
    BY <1>1, <2>3, ElsewhereMaps DEF Ledger!Next, Ledger!Item, Item
  <2> QED
    BY <1>1, <2>1, <2>2, <2>3, WorkerLedger DEF Batch
<1>2. CASE Join
  BY <1>2, JoinMaps DEF Ledger!Next
<1>3. CASE Environment
  BY <1>3, EnvironmentMaps DEF Ledger!Next
<1>4. CASE UNCHANGED vars
  <2>1. UNCHANGED <<LedgerStatus, IsCancelled, main>>
    BY <1>4
       DEF vars, workerVars, healthVars, cancelVars, countVars, LedgerStatus,
           Settled, IsCancelled
  <2> QED
    BY <2>1 DEF Ledger!vars
<1> QED
  BY <1>1, <1>2, <1>3, <1>4 DEF Next, Terminated

LEMMA InitMaps == Init => Ledger!Init
<1> SUFFICES ASSUME Init PROVE Ledger!Init
  OBVIOUS
<1>1. LedgerStatus = [i \in Item |-> "queued"]
  BY DEF Init, LedgerStatus, Item
<1>2. IsCancelled = FALSE /\ (main = "done") = FALSE
  BY DEF Init, IsCancelled
<1> QED
  BY <1>1, <1>2 DEF Ledger!Init, Ledger!Item, Item

\* Whatever the threads, the instances and the network do, the profiles leave
\* the queue in order, are settled at most once, and are lost only after the
\* batch was told to stop.
THEOREM Refinement == Spec => ImplementsLedger
<1>1. Init /\ []Batch /\ [][Next]_vars => Ledger!Spec
  BY InitMaps, StepMaps, PTL DEF Ledger!Spec
<1> QED
  BY <1>1, BatchAlways, PTL DEF Spec, ImplementsLedger

=============================================================================
