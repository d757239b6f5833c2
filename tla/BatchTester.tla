---------------------------- MODULE BatchTester ----------------------------
(***************************************************************************)
(* The batch test engine (src/src/ProxyBatchTester.cpp): one run of        *)
(* runInternal() over N loaded profiles, served by one worker thread per   *)
(* running Xray instance from a shared queue.  A worker injects its        *)
(* profile as the outbound tagged "proxy" of its own instance through      *)
(* XrayApi, tests it, and hands the verdict to the result queue.  The      *)
(* health hooks of XrayApi, the throttled relaunch of XrayManager, the     *)
(* bounded wait for the network and the cancellation flags are part of the *)
(* model; so are crashing and hanging instances, a flapping network and a  *)
(* user who cancels.                                                       *)
(***************************************************************************)
EXTENDS Integers, FiniteSets

CONSTANTS
    Worker,        \* the worker threads, one per (socks, api) port pair
    N,             \* totalProxies_: how many profiles the run loaded
    PregenFailed,  \* indexes whose configuration could not be pre-generated
    ConfigBad,     \* indexes whose profile fails checkRequired()
    CliOnly,       \* indexes with a protocol only `xray api ado` can inject
    MaxPolls,      \* 250 ms polls in the 30 s network wait (120 in the code)
    MaxFlaps,      \* bound: how often the network goes down
    MaxFaults      \* bound: how often an instance hangs or crashes

Item == 0 .. N - 1

ASSUME BatchAssumption ==
    /\ N \in Nat
    /\ IsFiniteSet(Worker)
    /\ PregenFailed \subseteq Item
    /\ ConfigBad \subseteq Item
    /\ CliOnly \subseteq Item
    /\ MaxPolls \in Nat
    /\ MaxFlaps \in Nat
    /\ MaxFaults \in Nat

MaxAttempts == 3       \* injection attempts per item
NoItem == -1           \* profileIdx before the pop

\* What an instance holds under the tag "proxy", besides the index of an item.
Empty == -1            \* the tag was removed
Freedom == -2          \* the placeholder of a freshly written configuration
NoProcess == -3        \* no process

Outcome == {"throttled", "relaunched", "failed"}   \* InstanceHealthOutcome
Error == {"none", "transient", "stale", "hard"}    \* classes of lastError_

VARIABLES
    main,       \* the thread in testProxiesMultiThreaded(): joining, then done
    front,      \* proxiesQueue_ holds front .. N-1
    pc,         \* where each worker is
    item,       \* profileIdx of each worker
    attempts,   \* retryCount
    err,        \* injectError
    polls,      \* polls made in the current waitForNetworkRecovery()
    resume,     \* where the worker continues after waitForNetworkRecovery()
    dead,       \* instanceDead
    decision,   \* relaunchDecision
    fails,      \* consecutiveConnectFailures_ of the worker's XrayApi
    inst,       \* the instance bound to the worker's api port
    net,        \* NetworkMonitor::IsConnected()
    external,   \* *externalCancel_
    cancelled,  \* cancelRequested_
    reported,   \* batchStopReported_
    processed, success, failed,   \* the counters of the run
    enqueued,   \* how many results each index has in the result queue
    deleted,    \* indexes whose profile row was deleted
    flaps, faults

workerVars == <<pc, item, attempts, err, polls, resume>>
healthVars == <<dead, decision, fails, inst>>
cancelVars == <<external, cancelled, reported>>
countVars == <<processed, success, failed, enqueued, deleted>>
envVars == <<net, flaps, faults>>
vars == <<main, front, workerVars, healthVars, cancelVars, countVars, envVars>>

-----------------------------------------------------------------------------

\* Program points inside the handling of one item.
Busy == {"prep", "remove", "settle", "inject", "clear", "backoff",
         "judge", "retryRemove", "retryAdd", "report", "test"}
Finished == {"done", "quit"}   \* left the loop by break / by return
Pc == Busy \cup Finished \cup {"loop", "pop", "netwait"}

InstanceState ==
    [st : {"up", "hung", "dead", "gone"},
     ob : Item \cup {Empty, Freedom, NoProcess},
     cool : BOOLEAN]

TypeOK ==
    /\ main \in {"joining", "done"}
    /\ front \in 0 .. N
    /\ pc \in [Worker -> Pc]
    /\ item \in [Worker -> Item \cup {NoItem}]
    /\ attempts \in [Worker -> 0 .. MaxAttempts]
    /\ err \in [Worker -> Error]
    /\ polls \in [Worker -> 0 .. MaxPolls]
    /\ resume \in [Worker -> {"loop", "settle", "backoff"}]
    /\ dead \in [Worker -> BOOLEAN]
    /\ decision \in [Worker -> Outcome]
    /\ fails \in [Worker -> 0 .. 3]
    /\ inst \in [Worker -> InstanceState]
    /\ net \in BOOLEAN
    /\ external \in BOOLEAN /\ cancelled \in BOOLEAN /\ reported \in BOOLEAN
    /\ processed \in Nat /\ success \in Nat /\ failed \in Nat
    /\ enqueued \in [Item -> Nat]
    /\ deleted \subseteq Item
    /\ flaps \in 0 .. MaxFlaps
    /\ faults \in 0 .. MaxFaults

Fresh(cool) == [st |-> "up", ob |-> Freedom, cool |-> cool]
Gone(cool) == [st |-> "gone", ob |-> NoProcess, cool |-> cool]

\* run() reset the counters, startXrayInstances() left one ready instance per
\* worker, and testProxiesMultiThreaded() filled the queue and started threads.
Init ==
    /\ main = "joining"
    /\ front = 0
    /\ pc = [w \in Worker |-> "loop"]
    /\ item = [w \in Worker |-> NoItem]
    /\ attempts = [w \in Worker |-> 0]
    /\ err = [w \in Worker |-> "none"]
    /\ polls = [w \in Worker |-> 0]
    /\ resume = [w \in Worker |-> "loop"]
    /\ dead = [w \in Worker |-> FALSE]
    /\ decision = [w \in Worker |-> "failed"]
    /\ fails = [w \in Worker |-> 0]
    /\ inst = [w \in Worker |-> Fresh(FALSE)]
    /\ net \in BOOLEAN
    /\ external = FALSE /\ cancelled = FALSE /\ reported = FALSE
    /\ processed = 0 /\ success = 0 /\ failed = 0
    /\ enqueued = [i \in Item |-> 0]
    /\ deleted = {}
    /\ flaps = 0 /\ faults = 0

IsCancelled == external \/ cancelled

Goto(w, l) == pc' = [pc EXCEPT ![w] = l]

-----------------------------------------------------------------------------
(* Instance health: XrayManager as one worker sees its own api port.        *)

\* evaluateInstanceHealthThrottledEx: inside the cooldown nothing happens;
\* otherwise the cooldown is armed and the instance is replaced on its ports,
\* or the relaunch fails (always, when no instance is bound to the port).
Result(outcome, r) == [outcome |-> outcome, inst |-> r]

Evaluate(r) ==
    IF r.cool THEN {Result("throttled", r)}
    ELSE IF r.st = "gone" THEN {Result("failed", Gone(TRUE))}
    ELSE {Result("failed", Gone(TRUE)), Result("relaunched", Fresh(TRUE))}

\* onXrayEndpointUnreachable: the outcome is only logged.
ReportUnreachable(w) ==
    /\ \E e \in Evaluate(inst[w]) : inst' = [inst EXCEPT ![w] = e.inst]
    /\ UNCHANGED <<dead, decision, fails>>

\* The second hook of a connect failure evaluates again: it is throttled by the
\* first one, unless the first was throttled and the cooldown ends in between.
SecondReport(e) ==
    Evaluate(e.inst) \cup
        IF e.outcome = "throttled" THEN Evaluate([e.inst EXCEPT !.cool = FALSE])
        ELSE {}

\* grpcConnect cannot reach the instance; exactly the second failure in a row
\* fires connectFailureHook_ and then instanceHealthHook_.
ConnectFails(w) ==
    /\ inst[w].st # "up"
    /\ fails' = [fails EXCEPT ![w] = IF @ < 3 THEN @ + 1 ELSE 3]
    /\ \/ /\ fails[w] # 1
          /\ UNCHANGED <<dead, decision, inst>>
       \/ /\ fails[w] = 1
          /\ \E e \in Evaluate(inst[w]) : \E s \in SecondReport(e) :
                /\ decision' = [decision EXCEPT ![w] = e.outcome]
                /\ inst' = [inst EXCEPT ![w] = s.inst]
          /\ dead' = [dead EXCEPT ![w] = TRUE]

\* A call that reached the instance leaves tag "proxy" holding `held`.
Answered(w, held) ==
    /\ inst[w].st = "up"
    /\ fails' = [fails EXCEPT ![w] = 0]
    /\ inst' = [inst EXCEPT ![w].ob = held]
    /\ UNCHANGED <<dead, decision>>

\* removeOutboundDirect, whose result no caller looks at.
RemoveOutbound(w) ==
    \/ ConnectFails(w)
    \/ \E held \in {Empty, inst[w].ob} : Answered(w, held)

\* Mutant: a tag that is already taken counts as a successful injection.
AddSucceedsOnLeftover(w) ==
    /\ item[w] \notin CliOnly
    /\ Answered(w, IF inst[w].ob = Empty THEN item[w] ELSE inst[w].ob)

\* addOutboundDirect, or `xray api ado` for a protocol without an encoder.
AddSucceeds(w) ==
    /\ inst[w].ob = Empty
    /\ \/ item[w] \notin CliOnly /\ Answered(w, item[w])
       \/ /\ item[w] \in CliOnly /\ inst[w].st = "up"
          /\ inst' = [inst EXCEPT ![w].ob = item[w]]
          /\ UNCHANGED <<dead, decision, fails>>

AddFails(w, e) ==
    \/ /\ item[w] \notin CliOnly
       /\ \/ e \in {"transient", "hard"} /\ ConnectFails(w)
          \/ e = "stale" /\ inst[w].ob # Empty /\ Answered(w, inst[w].ob)
          \/ /\ e \in {"transient", "hard"}    \* rejected, or the reply lost
             /\ \E held \in {inst[w].ob} \cup ({item[w]} \cap
                                {i \in Item : inst[w].ob = Empty}) :
                   Answered(w, held)
          \/ e = "hard" /\ UNCHANGED healthVars        \* malformed settings
    \/ /\ item[w] \in CliOnly
       /\ \/ e = "hard" /\ ReportUnreachable(w)        \* could not be spawned
          \/ e \in {"transient", "hard"} /\ UNCHANGED healthVars
          \/ /\ e = "stale" /\ inst[w].st = "up" /\ inst[w].ob # Empty
             /\ UNCHANGED healthVars

-----------------------------------------------------------------------------
(* The loop head: cancellation, a dead instance, the network, the queue.    *)

StopOnCancel(w) ==
    /\ pc[w] = "loop" /\ IsCancelled
    /\ Goto(w, "done")
    /\ UNCHANGED <<main, front, item, attempts, err, polls, resume,
                   healthVars, cancelVars, countVars, envVars>>

\* Mutant: a throttled health check retires the worker.
InstanceDeadWhenThrottled(w) ==
    /\ pc[w] = "loop" /\ ~IsCancelled /\ dead[w]
    /\ \/ decision[w] # "relaunched" /\ Goto(w, "done") /\ UNCHANGED dead
       \/ /\ decision[w] = "relaunched"
          /\ dead' = [dead EXCEPT ![w] = FALSE]
          /\ UNCHANGED pc
    /\ UNCHANGED <<main, front, item, attempts, err, polls, resume, decision,
                   fails, inst, cancelVars, countVars, envVars>>

\* decideInstanceDead: only a failed relaunch stops the worker.
InstanceDead(w) ==
    /\ pc[w] = "loop" /\ ~IsCancelled /\ dead[w]
    /\ \/ /\ decision[w] = "failed"
          /\ Goto(w, "done")
          /\ UNCHANGED dead
       \/ /\ decision[w] \in {"relaunched", "throttled"}
          /\ dead' = [dead EXCEPT ![w] = FALSE]
          /\ UNCHANGED pc
    /\ UNCHANGED <<main, front, item, attempts, err, polls, resume, decision,
                   fails, inst, cancelVars, countVars, envVars>>

\* waitForNetworkRecovery() is entered from the loop head and from both
\* interruptible delays.
AwaitNetwork(w) ==
    /\ ~net
    /\ Goto(w, "netwait")
    /\ resume' = [resume EXCEPT ![w] = pc[w]]
    /\ polls' = [polls EXCEPT ![w] = 0]
    /\ UNCHANGED <<main, front, item, attempts, err,
                   healthVars, cancelVars, countVars, envVars>>

LoopNetworkDown(w) ==
    /\ pc[w] = "loop" /\ ~IsCancelled /\ ~dead[w]
    /\ AwaitNetwork(w)

LoopReady(w) ==
    /\ pc[w] = "loop" /\ ~IsCancelled /\ ~dead[w] /\ net
    /\ Goto(w, "pop")
    /\ UNCHANGED <<main, front, item, attempts, err, polls, resume,
                   healthVars, cancelVars, countVars, envVars>>

\* Under queueMutex_.
QueueEmpty(w) ==
    /\ pc[w] = "pop" /\ front = N
    /\ Goto(w, "done")
    /\ UNCHANGED <<main, front, item, attempts, err, polls, resume,
                   healthVars, cancelVars, countVars, envVars>>

Pop(w) ==
    /\ pc[w] = "pop" /\ front < N
    /\ item' = [item EXCEPT ![w] = front]
    /\ front' = front + 1
    /\ Goto(w, "prep")
    /\ UNCHANGED <<main, attempts, err, polls, resume,
                   healthVars, cancelVars, countVars, envVars>>

-----------------------------------------------------------------------------
(* One item.                                                                *)

\* Mutant: a failure is not counted as processed.
SettleUncounted(w, ok, results) ==
    /\ processed' = IF ok THEN processed + 1 ELSE processed
    /\ success' = IF ok THEN success + 1 ELSE success
    /\ failed' = IF ok THEN failed ELSE failed + 1
    /\ enqueued' = [enqueued EXCEPT ![item[w]] = @ + results]
    /\ item' = [item EXCEPT ![w] = NoItem]
    /\ attempts' = [attempts EXCEPT ![w] = 0]
    /\ err' = [err EXCEPT ![w] = "none"]
    /\ Goto(w, "loop")
    /\ UNCHANGED <<main, front, polls, resume, cancelVars, envVars>>

\* The item is counted, its result (if any) is enqueued, and the worker goes
\* back to the loop head.
Settle(w, ok, results) ==
    /\ processed' = processed + 1
    /\ success' = IF ok THEN success + 1 ELSE success
    /\ failed' = IF ok THEN failed ELSE failed + 1
    /\ enqueued' = [enqueued EXCEPT ![item[w]] = @ + results]
    /\ item' = [item EXCEPT ![w] = NoItem]
    /\ attempts' = [attempts EXCEPT ![w] = 0]
    /\ err' = [err EXCEPT ![w] = "none"]
    /\ Goto(w, "loop")
    /\ UNCHANGED <<main, front, polls, resume, cancelVars, envVars>>

PregenFail(w) ==                               \* PREGEN_FAILED
    /\ pc[w] = "prep" /\ item[w] \in PregenFailed
    /\ Settle(w, FALSE, 1)
    /\ UNCHANGED <<healthVars, deleted>>

\* Mutant: the deleted profile is tested all the same (no `continue`).
ConfigErrorFallsThrough(w) ==
    /\ pc[w] = "prep" /\ item[w] \in ConfigBad \ PregenFailed
    /\ deleted' = deleted \cup {item[w]}
    /\ Goto(w, "remove")
    /\ UNCHANGED <<main, front, item, attempts, err, polls, resume, healthVars,
                   cancelVars, processed, success, failed, enqueued, envVars>>

\* CONFIG_ERROR: the profile row is deleted and no result is enqueued.
ConfigError(w) ==
    /\ pc[w] = "prep" /\ item[w] \in ConfigBad \ PregenFailed
    /\ deleted' = deleted \cup {item[w]}
    /\ Settle(w, FALSE, 0)
    /\ UNCHANGED healthVars

Checked(w) ==
    /\ pc[w] = "prep" /\ item[w] \notin ConfigBad \cup PregenFailed
    /\ Goto(w, "remove")
    /\ UNCHANGED <<main, front, item, attempts, err, polls, resume,
                   healthVars, cancelVars, countVars, envVars>>

Remove(w, from, to) ==
    /\ pc[w] = from
    /\ RemoveOutbound(w)
    /\ Goto(w, to)
    /\ UNCHANGED <<main, front, item, attempts, err, polls, resume,
                   cancelVars, countVars, envVars>>

InitialRemove(w) == Remove(w, "remove", "settle")

\* waitInterruptible: TRUE (cancelled) makes the worker return with its item.
Delays == {"settle", "backoff"}

\* Mutant: an outage abandons the worker like a cancellation.
AbandonOnOutage(w) ==
    /\ pc[w] \in Delays /\ (IsCancelled \/ ~net)
    /\ Goto(w, "quit")
    /\ UNCHANGED <<main, front, item, attempts, err, polls, resume,
                   healthVars, cancelVars, countVars, envVars>>

Abandon(w) ==
    /\ pc[w] \in Delays /\ IsCancelled
    /\ Goto(w, "quit")
    /\ UNCHANGED <<main, front, item, attempts, err, polls, resume,
                   healthVars, cancelVars, countVars, envVars>>

DelayNetworkDown(w) ==
    /\ pc[w] \in Delays /\ ~IsCancelled
    /\ AwaitNetwork(w)

DelayOver(w) ==
    /\ pc[w] \in Delays /\ ~IsCancelled /\ net
    /\ Goto(w, "inject")
    /\ UNCHANGED <<main, front, item, attempts, err, polls, resume,
                   healthVars, cancelVars, countVars, envVars>>

\* The injection loop: up to three attempts while the instance is not dead.
InjectOk(w) ==
    /\ pc[w] = "inject" /\ ~dead[w]
    /\ AddSucceeds(w)
    /\ Goto(w, "test")
    /\ UNCHANGED <<main, front, item, attempts, err, polls, resume,
                   cancelVars, countVars, envVars>>

\* Mutant: one attempt too many.
InjectFailsOnceMore(w) ==
    /\ pc[w] = "inject" /\ ~dead[w]
    /\ \E e \in Error \ {"none"} :
          /\ AddFails(w, e)
          /\ err' = [err EXCEPT ![w] = e]
    /\ attempts' = [attempts EXCEPT ![w] = @ + 1]
    /\ Goto(w, IF attempts[w] < MaxAttempts THEN "clear" ELSE "judge")
    /\ UNCHANGED <<main, front, item, polls, resume,
                   cancelVars, countVars, envVars>>

InjectFails(w) ==
    /\ pc[w] = "inject" /\ ~dead[w]
    /\ \E e \in Error \ {"none"} :
          /\ AddFails(w, e)
          /\ err' = [err EXCEPT ![w] = e]
    /\ attempts' = [attempts EXCEPT ![w] = @ + 1]
    /\ Goto(w, IF attempts[w] + 1 < MaxAttempts THEN "clear" ELSE "judge")
    /\ UNCHANGED <<main, front, item, polls, resume,
                   cancelVars, countVars, envVars>>

StopInjecting(w) ==
    /\ pc[w] = "inject" /\ dead[w]
    /\ Goto(w, "judge")
    /\ UNCHANGED <<main, front, item, attempts, err, polls, resume,
                   healthVars, cancelVars, countVars, envVars>>

\* Before the next attempt; only a transient error backs off.
ClearTag(w) ==
    Remove(w, "clear", IF err[w] = "transient" THEN "backoff" ELSE "inject")

\* One more chance for this item, only when its own failures made
\* evaluateInstanceHealth relaunch the instance.
Judge(w) ==
    /\ pc[w] = "judge"
    /\ Goto(w, IF dead[w] /\ decision[w] = "relaunched" THEN "retryRemove"
               ELSE "report")
    /\ UNCHANGED <<main, front, item, attempts, err, polls, resume,
                   healthVars, cancelVars, countVars, envVars>>

RetryRemove(w) == Remove(w, "retryRemove", "retryAdd")

RetryOk(w) ==
    /\ pc[w] = "retryAdd"
    /\ AddSucceeds(w)
    /\ Goto(w, "test")
    /\ UNCHANGED <<main, front, item, attempts, err, polls, resume,
                   cancelVars, countVars, envVars>>

RetryFails(w) ==
    /\ pc[w] = "retryAdd"
    /\ \E e \in Error \ {"none"} :
          /\ AddFails(w, e)
          /\ err' = [err EXCEPT ![w] = e]
    /\ Goto(w, "report")
    /\ UNCHANGED <<main, front, item, attempts, polls, resume,
                   cancelVars, countVars, envVars>>

\* XRAY_ERROR, after shouldReportEndpointUnreachable.
InjectionGivenUp(w) ==
    /\ pc[w] = "report"
    /\ IF attempts[w] >= MaxAttempts /\ err[w] # "stale"
       THEN ReportUnreachable(w)
       ELSE UNCHANGED healthVars
    /\ Settle(w, FALSE, 1)
    /\ UNCHANGED deleted

\* ProxyTester::test through the instance; a cancelled test fails.
TestDone(w) ==
    /\ pc[w] = "test"
    /\ \E ok \in BOOLEAN :
          /\ ok => inst[w].st \in {"up", "hung"} /\ ~IsCancelled
          /\ Settle(w, ok, 1)
    /\ UNCHANGED <<healthVars, deleted>>

\* An exception while injecting or testing; for an unknown one the tag is
\* removed as well.
Exception(w) ==
    /\ pc[w] \in {"remove", "inject", "clear", "retryRemove", "retryAdd", "test"}
    /\ UNCHANGED healthVars \/ RemoveOutbound(w)
    /\ Settle(w, FALSE, 1)
    /\ UNCHANGED deleted

-----------------------------------------------------------------------------
(* waitForNetworkRecovery(): a bounded poll, never an unbounded wait.       *)

NetworkBack(w) ==
    /\ pc[w] = "netwait" /\ ~IsCancelled /\ polls[w] < MaxPolls /\ net
    /\ Goto(w, resume[w])
    /\ polls' = [polls EXCEPT ![w] = 0]
    /\ resume' = [resume EXCEPT ![w] = "loop"]
    /\ UNCHANGED <<main, front, item, attempts, err,
                   healthVars, cancelVars, countVars, envVars>>

\* Mutant: an unbounded wait for the network.
NetworkPollForever(w) ==
    /\ pc[w] = "netwait" /\ ~IsCancelled /\ ~net
    /\ UNCHANGED vars

NetworkPoll(w) ==
    /\ pc[w] = "netwait" /\ ~IsCancelled /\ polls[w] < MaxPolls /\ ~net
    /\ polls' = [polls EXCEPT ![w] = @ + 1]
    /\ UNCHANGED <<main, front, pc, item, attempts, err, resume,
                   healthVars, cancelVars, countVars, envVars>>

\* requestBatchCancellation stops every worker of the batch and its owner.
RequestBatchCancellation ==
    /\ reported' = TRUE
    /\ external' = TRUE
    /\ cancelled' = TRUE

\* Mutant: a timed-out wait in a delay abandons the worker, not the delay.
NetworkGivenUpAlone(w) ==
    /\ pc[w] = "netwait" /\ (IsCancelled \/ polls[w] = MaxPolls)
    /\ \/ resume[w] = "loop" /\ RequestBatchCancellation /\ Goto(w, "done")
       \/ resume[w] \in Delays /\ Goto(w, "quit") /\ UNCHANGED cancelVars
    /\ polls' = [polls EXCEPT ![w] = 0]
    /\ resume' = [resume EXCEPT ![w] = "loop"]
    /\ UNCHANGED <<main, front, item, attempts, err,
                   healthVars, countVars, envVars>>

\* The wait returned false: at the loop head an outage stops the batch; in a
\* delay only a cancellation makes the worker return, else the delay is over.
NetworkGivenUp(w) ==
    /\ pc[w] = "netwait" /\ (IsCancelled \/ polls[w] = MaxPolls)
    /\ \/ /\ resume[w] = "loop"
          /\ IF IsCancelled THEN UNCHANGED cancelVars
             ELSE RequestBatchCancellation
          /\ Goto(w, "done")
       \/ /\ resume[w] \in Delays
          /\ Goto(w, IF IsCancelled THEN "quit" ELSE "inject")
          /\ UNCHANGED cancelVars
    /\ polls' = [polls EXCEPT ![w] = 0]
    /\ resume' = [resume EXCEPT ![w] = "loop"]
    /\ UNCHANGED <<main, front, item, attempts, err,
                   healthVars, countVars, envVars>>

-----------------------------------------------------------------------------

LoopHead(w) ==
    \/ StopOnCancel(w) \/ InstanceDead(w) \/ LoopNetworkDown(w)
    \/ LoopReady(w) \/ QueueEmpty(w) \/ Pop(w)
Prepare(w) == PregenFail(w) \/ ConfigError(w) \/ Checked(w)
Delay(w) == Abandon(w) \/ DelayNetworkDown(w) \/ DelayOver(w)
Inject(w) ==
    \/ InitialRemove(w) \/ InjectOk(w) \/ InjectFails(w) \/ StopInjecting(w)
    \/ ClearTag(w) \/ Judge(w) \/ RetryRemove(w) \/ RetryOk(w) \/ RetryFails(w)
    \/ InjectionGivenUp(w)
NetWait(w) == NetworkBack(w) \/ NetworkPoll(w) \/ NetworkGivenUp(w)

WorkerStep(w) ==
    LoopHead(w) \/ Prepare(w) \/ Delay(w) \/ Inject(w) \/ TestDone(w)
    \/ Exception(w) \/ NetWait(w)

\* Every worker is joined, then stopAll() ends every instance.
Join ==
    /\ main = "joining"
    /\ \A w \in Worker : pc[w] \in Finished
    /\ main' = "done"
    /\ inst' = [w \in Worker |-> Gone(inst[w].cool)]
    /\ UNCHANGED <<front, workerVars, dead, decision, fails,
                   cancelVars, countVars, envVars>>

-----------------------------------------------------------------------------
(* The environment.                                                         *)

UserCancels ==
    /\ main = "joining" /\ ~external
    /\ external' = TRUE
    /\ UNCHANGED <<main, front, workerVars, healthVars, cancelled, reported,
                   countVars, envVars>>

NetworkLost ==
    /\ main = "joining" /\ net /\ flaps < MaxFlaps
    /\ net' = FALSE /\ flaps' = flaps + 1
    /\ UNCHANGED <<main, front, workerVars, healthVars, cancelVars, countVars,
                   faults>>

NetworkRestored ==
    /\ main = "joining" /\ ~net
    /\ net' = TRUE
    /\ UNCHANGED <<main, front, workerVars, healthVars, cancelVars, countVars,
                   flaps, faults>>

InstanceFault(w) ==
    /\ main = "joining" /\ faults < MaxFaults
    /\ \/ /\ inst[w].st = "up"
          /\ inst' = [inst EXCEPT ![w].st = "hung"]
       \/ /\ inst[w].st \in {"up", "hung"}
          /\ inst' = [inst EXCEPT ![w].st = "dead", ![w].ob = NoProcess]
    /\ faults' = faults + 1
    /\ UNCHANGED <<main, front, workerVars, dead, decision, fails, cancelVars,
                   countVars, net, flaps>>

InstanceResponds(w) ==
    /\ main = "joining" /\ inst[w].st = "hung"
    /\ inst' = [inst EXCEPT ![w].st = "up"]
    /\ UNCHANGED <<main, front, workerVars, dead, decision, fails, cancelVars,
                   countVars, envVars>>

CooldownOver(w) ==
    /\ main = "joining" /\ inst[w].cool
    /\ inst' = [inst EXCEPT ![w].cool = FALSE]
    /\ UNCHANGED <<main, front, workerVars, dead, decision, fails, cancelVars,
                   countVars, envVars>>

Environment ==
    \/ UserCancels \/ NetworkLost \/ NetworkRestored
    \/ \E w \in Worker :
          InstanceFault(w) \/ InstanceResponds(w) \/ CooldownOver(w)

Terminated == main = "done" /\ UNCHANGED vars

Next ==
    \/ \E w \in Worker : WorkerStep(w)
    \/ Join
    \/ Environment
    \/ Terminated

Spec == Init /\ [][Next]_vars

\* Every worker thread and the joining thread keep running; nothing is assumed
\* of the network, the instances, the cooldown or the user.
FairSpec ==
    /\ Spec
    /\ \A w \in Worker : WF_vars(WorkerStep(w))
    /\ WF_vars(Join)

-----------------------------------------------------------------------------
(* Properties.                                                              *)

Holders(i) == {w \in Worker : item[w] = i}
Settled == {i \in Item : enqueued[i] > 0} \cup deleted

\* No worker vanishes on its own: one that left the loop was cancelled, found
\* the queue empty, or has an instance whose relaunch really failed.  A network
\* outage or a throttled health check must never retire a single worker.
NoSilentRetirement ==
    \A w \in Worker :
        pc[w] \in Finished =>
            \/ IsCancelled
            \/ pc[w] = "done" /\ front = N
            \/ pc[w] = "done" /\ dead[w] /\ decision[w] = "failed"

\* Every index is in exactly one place: still queued, held by one worker, in the
\* result queue once, or deleted from the database without a result.
ExactlyOnce ==
    \A i \in Item :
        enqueued[i] + (IF i \in deleted THEN 1 ELSE 0) + Cardinality(Holders(i))
            = (IF i < front THEN 1 ELSE 0)

\* The counters the summary prints agree with what happened to the profiles.
CountersMatch ==
    /\ processed = success + failed
    /\ processed = Cardinality(Settled)

\* A batch that ends without being cancelled has settled every profile, unless
\* every worker was stopped by a failed relaunch; only a cancelled batch gives
\* up a profile it took from the queue.
BatchAccounted ==
    main = "done" /\ ~IsCancelled =>
        /\ Settled = 0 .. front - 1
        /\ front = N \/ \A w \in Worker : dead[w] /\ decision[w] = "failed"

\* A connectivity test never measures the placeholder of a relaunched instance
\* or the outbound of another profile: while a worker tests, its instance holds
\* the worker's own outbound, or has crashed.
TestedOutboundIsOwn ==
    \A w \in Worker :
        pc[w] = "test" => inst[w].ob \in {item[w], NoProcess}

\* "In a delay, a network wait that timed out implies that the batch is already
\* cancelled" (the comment in waitInterruptible).
TimedOutDelayIsCancelled ==
    \A w \in Worker :
        pc[w] = "netwait" /\ resume[w] \in Delays /\ polls[w] = MaxPolls
            => IsCancelled

\* "relaunch really failed -> stop this worker" (InstanceDeadDecision): no worker
\* takes another profile once the relaunch of its instance has failed.
FailedRelaunchStopsWorker ==
    \A w \in Worker : pc[w] = "prep" => inst[w].st # "gone"

\* The batch ends, whatever the network, the instances and the user do: no
\* worker waits for ever for a network that does not come back.
Termination == <>(main = "done")

\* The ledger of the profiles this run implements.
LedgerStatus ==
    [i \in Item |->
        CASE i >= front -> "queued"
          [] i < front /\ i \in Settled -> "settled"
          [] OTHER -> IF \E w \in Worker : item[w] = i /\ pc[w] = "quit"
                      THEN "lost" ELSE "held"]

Ledger == INSTANCE BatchLedger
            WITH status <- LedgerStatus, stopping <- IsCancelled,
                 closed <- (main = "done")

\* The engine implements the ledger: profiles leave the queue in order, each is
\* settled at most once, and one is lost only after a cancellation.
ImplementsLedger == Ledger!Spec

=============================================================================
