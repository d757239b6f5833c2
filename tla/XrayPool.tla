------------------------------ MODULE XrayPool ------------------------------
(***************************************************************************)
(* The pool of Xray processes (src/src/XrayManager.cpp) and the            *)
(* process-wide table of port reservations (src/src/PortManager.cpp) with  *)
(* the threads that use both at once: the main thread that starts a batch  *)
(* or a proxy search and ends it with stopAll(), the batch workers that    *)
(* have an unreachable instance replaced, the standalone pool that takes   *)
(* ports of its own (in the GUI), and the Ctrl+C handler that calls        *)
(* stopAll() on a thread of its own (in the command line program).         *)
(*                                                                         *)
(* Reservations and instance list have their own mutexes; starting a       *)
(* process, waiting for it and stopping it happen outside both.  The order *)
(* of instances_ is left open.                                             *)
(***************************************************************************)
EXTENDS Integers, FiniteSets

CONSTANTS
    Modes,         \* the programs to look at: a subset of {"gui", "cli"}
    Worker,        \* batch worker threads, at most one per instance
    Inst,          \* identities of XrayInstance objects
    LastPort,      \* ports are 0 .. LastPort
    Count,         \* instances a start() is asked for, after the cap
    SocksBase, ApiBase,       \* xray.start_port, xray.api_port
    TenantSocks, TenantApi,   \* the desired ports of the standalone pool
    Attempts       \* kMaxAttempts of startProxyPool (5 in the code)

Port == 0 .. LastPort
NoPort == -1
NoInst == "no instance"
Main == "main"
Tenant == "tenant"
Thread == Worker \cup {Main, Tenant}

ASSUME PoolAssumption ==
    /\ Modes \subseteq {"gui", "cli"}
    /\ LastPort \in Nat /\ Count \in Nat /\ Attempts \in Nat
    /\ {SocksBase, ApiBase, TenantSocks, TenantApi} \subseteq Port
    /\ Main \notin Worker /\ Tenant \notin Worker
    /\ NoInst \notin Inst
    /\ Inst \cap Thread = {}

VARIABLES
    mode,          \* which program runs: "gui" or "cli"
    used,          \* usedPorts_
    pool,          \* instances_
    proc,          \* the process of each instance and its two ports
    pc,            \* where each thread is
    socks, api,    \* the ports a thread is launching an instance on
    child,         \* the instance a thread holds outside the pool
    started,       \* startedInstances of start()
    seen,          \* instances start() has looked at for reuse
    slot,          \* loop index of start(); calls of stopAll() left at the end
    op,            \* what the main thread does
    attempt,       \* attempt of startProxyPool()
    target,        \* the api port each batch worker works with
    leaked,        \* reserved by a start() that found only one of two ports
    torn,          \* ports somebody still owned when clearPorts() dropped them
    deleted        \* release() has deleted the manager of the running tester

launchVars == <<socks, api, child>>
startVars == <<started, seen, slot, op, attempt>>
vars == <<mode, used, pool, proc, pc, launchVars, startVars, target, leaked,
          torn, deleted>>

MainPc == {"idle", "slot", "api", "spawn", "ready", "commit", "running",
           "ending", "over"}
WorkerPc == {"idle", "stamp", "detach", "stop", "spawn", "ready"}
TenantPc == {"idle", "socks", "api", "spawn", "serving", "closing"}

TypeOK ==
    /\ mode \in {"gui", "cli"}
    /\ used \subseteq Port /\ leaked \subseteq Port /\ torn \subseteq Port
    /\ pool \subseteq Inst /\ started \subseteq Inst /\ seen \subseteq Inst
    /\ proc \in [Inst -> [st : {"none", "starting", "up", "dead"},
                          socks : Port, api : Port]]
    /\ pc \in [Thread -> MainPc \cup WorkerPc \cup TenantPc]
    /\ pc[Main] \in MainPc /\ pc[Tenant] \in TenantPc
    /\ \A w \in Worker : pc[w] \in WorkerPc
    /\ socks \in [Thread -> Port \cup {NoPort}]
    /\ api \in [Thread -> Port \cup {NoPort}]
    /\ child \in [Thread -> Inst \cup {NoInst}]
    /\ slot \in Nat /\ attempt \in Nat
    /\ op \in {"none", "batch", "find", "update"}
    /\ target \in [Worker -> Port \cup {NoPort}]
    /\ deleted \in BOOLEAN

NoProcess == [st |-> "none", socks |-> 0, api |-> 0]

Init ==
    /\ mode \in Modes
    /\ used = {} /\ pool = {} /\ leaked = {} /\ torn = {} /\ deleted = FALSE
    /\ proc = [x \in Inst |-> NoProcess]
    /\ pc = [t \in Thread |-> "idle"]
    /\ socks = [t \in Thread |-> NoPort]
    /\ api = [t \in Thread |-> NoPort]
    /\ child = [t \in Thread |-> NoInst]
    /\ started = {} /\ seen = {} /\ slot = 0 /\ op = "none"
    /\ attempt = 0
    /\ target = [w \in Worker |-> NoPort]

Goto(t, l) == pc' = [pc EXCEPT ![t] = l]
Alive(x) == proc[x].st \in {"starting", "up"}
Listening(p) ==
    \E x \in Inst : proc[x].st = "up" /\ p \in {proc[x].socks, proc[x].api}

\* Whose ports are whose: a launching thread's, or an instance's.
InstancePorts(x) == {proc[x].socks, proc[x].api}
Owned(k) ==
    IF k \in Thread THEN {socks[k], api[k]} \ {NoPort}
    ELSE IF k \in pool \cup started THEN InstancePorts(k) ELSE {}
Owner == Thread \cup Inst

-----------------------------------------------------------------------------
(* PortManager.                                                             *)

Distance(from, p) == (p - from) % (LastPort + 1)

\* findAvailable(): the first port from the hint on (around the end) that is
\* neither reserved nor bound; Found(h, NoPort) when there is none.
Available == {p \in Port : p \notin used /\ ~Listening(p)}
Found(hint, p) ==
    IF Available = {} THEN p = NoPort
    ELSE /\ p \in Available
         /\ \A q \in Available : Distance(hint, p) <= Distance(hint, q)

Reserve(p) == used' = used \cup ({p} \ {NoPort})

Elsewhere(t) == leaked \cup UNION {Owned(k) : k \in Owner \ {t}}

\* Mutant: only one of the two reservations is returned.
FreeSocksOnly(t) ==
    /\ used' = used \ {socks[t]}
    /\ torn' = torn \ (Owned(t) \ Elsewhere(t))
    /\ socks' = [socks EXCEPT ![t] = NoPort]
    /\ api' = [api EXCEPT ![t] = NoPort]

\* freePort() of both ports of a launch, whoever holds the reservations by now.
FreeBoth(t) ==
    /\ used' = used \ Owned(t)
    /\ torn' = torn \ (Owned(t) \ Elsewhere(t))
    /\ socks' = [socks EXCEPT ![t] = NoPort]
    /\ api' = [api EXCEPT ![t] = NoPort]

-----------------------------------------------------------------------------
(* XrayInstance: a process is started on the ports of the launching thread. *)

Fresh == {x \in Inst : proc[x].st = "none" /\ x \notin pool \cup started
                        /\ \A t \in Thread : child[t] # x}

SpawnChild(t) ==
    \E x \in Fresh :
        /\ proc' = [proc EXCEPT ![x] = [st |-> "starting", socks |-> socks[t],
                                         api |-> api[t]]]
        /\ child' = [child EXCEPT ![t] = x]

Stopped(S) == [x \in Inst |-> IF x \in S THEN NoProcess ELSE proc[x]]

DropChild(t) ==
    /\ proc' = Stopped({child[t]})
    /\ child' = [child EXCEPT ![t] = NoInst]

\* waitInstanceReady(): the process is alive and something accepts on its api
\* port - the process itself, or another one that is bound to that port.
CanBeReady(t) == Alive(child[t]) /\ Listening(api[t])

\* The process binds both ports, or exits because one of them is taken.
Bind(x) ==
    /\ proc[x].st = "starting"
    /\ proc' = [proc EXCEPT ![x].st =
                   IF \E p \in InstancePorts(x) : Listening(p) THEN "dead"
                   ELSE "up"]
    /\ UNCHANGED <<mode, used, pool, pc, launchVars, startVars, target,
                   leaked, torn, deleted>>

Crash(x) ==
    /\ Alive(x)
    /\ proc' = [proc EXCEPT ![x].st = "dead"]
    /\ UNCHANGED <<mode, used, pool, pc, launchVars, startVars, target,
                   leaked, torn, deleted>>

-----------------------------------------------------------------------------
(* XrayManager::start(), called by the main thread.                         *)

\* A batch and a subscription update always call start(), a search only when the
\* pool is empty.  The command line program runs one batch.
StartCall(o) ==
    /\ pc[Main] = "idle"
    /\ mode = "cli" => o = "batch"
    /\ op' = o
    /\ seen' = {}
    /\ IF o = "find" /\ pool # {}
       THEN slot' = 1 /\ Goto(Main, "running")
       ELSE slot' = 0 /\ Goto(Main, "slot")
    /\ UNCHANGED <<mode, used, pool, proc, launchVars, started, attempt,
                   target, leaked, torn, deleted>>

\* The instance at this index is still running and keeps its place.
ReuseInstance ==
    /\ pc[Main] = "slot" /\ slot < Count
    /\ \E x \in pool \ seen :
          Alive(x) /\ seen' = seen \cup {x}
    /\ slot' = slot + 1
    /\ UNCHANGED <<mode, used, pool, proc, pc, launchVars, started, op,
                   attempt, target, leaked, torn, deleted>>

StartFindSocks ==
    /\ pc[Main] = "slot" /\ slot < Count
    /\ \/ pool \subseteq seen /\ UNCHANGED seen
       \/ \E x \in pool \ seen : ~Alive(x) /\ seen' = seen \cup {x}
    /\ \E p \in Port \cup {NoPort} :
          /\ Found((SocksBase + slot) % (LastPort + 1), p)
          /\ Reserve(p)
          /\ socks' = [socks EXCEPT ![Main] = p]
    /\ Goto(Main, "api")
    /\ UNCHANGED <<mode, pool, proc, api, child, started, slot, op, attempt,
                   target, leaked, torn, deleted>>

\* Mutant: the api port is looked up without being reserved.
StartFindApiUnreserved ==
    /\ pc[Main] = "api"
    /\ \E p \in Port :
          /\ Found((ApiBase + slot) % (LastPort + 1), p)
          /\ socks[Main] # NoPort
          /\ api' = [api EXCEPT ![Main] = p]
    /\ Goto(Main, "spawn")
    /\ UNCHANGED <<mode, used, pool, proc, socks, child, startVars, target,
                   leaked, torn, deleted>>

\* When one of the two ports is missing, the loop breaks and the other one stays
\* reserved.
StartFindApi ==
    /\ pc[Main] = "api"
    /\ \E p \in Port \cup {NoPort} :
          /\ Found((ApiBase + slot) % (LastPort + 1), p)
          /\ Reserve(p)
          /\ \/ /\ NoPort \notin {socks[Main], p}
                /\ api' = [api EXCEPT ![Main] = p]
                /\ Goto(Main, "spawn")
                /\ UNCHANGED <<socks, leaked>>
             \/ /\ NoPort \in {socks[Main], p}
                /\ leaked' = leaked \cup ({socks[Main], p} \ {NoPort})
                /\ socks' = [socks EXCEPT ![Main] = NoPort]
                /\ Goto(Main, "commit")
                /\ UNCHANGED api
    /\ UNCHANGED <<mode, pool, proc, child, startVars, target, torn, deleted>>

\* XrayInstance::start() succeeds or fails; a failure ends the loop.
StartSpawn ==
    /\ pc[Main] = "spawn"
    /\ \/ /\ SpawnChild(Main)
          /\ Goto(Main, "ready")
          /\ UNCHANGED <<used, socks, api, torn>>
       \/ /\ FreeBoth(Main)
          /\ Goto(Main, "commit")
          /\ UNCHANGED <<proc, child>>
    /\ UNCHANGED <<mode, pool, startVars, target, leaked, deleted>>

StartReady ==
    /\ pc[Main] = "ready" /\ CanBeReady(Main)
    /\ started' = started \cup {child[Main]}
    /\ child' = [child EXCEPT ![Main] = NoInst]
    /\ socks' = [socks EXCEPT ![Main] = NoPort]
    /\ api' = [api EXCEPT ![Main] = NoPort]
    /\ slot' = slot + 1
    /\ Goto(Main, "slot")
    /\ UNCHANGED <<mode, used, pool, proc, seen, op, attempt, target, leaked,
                   torn, deleted>>

\* Mutant: the instance that did not become ready is not stopped.
StartNotReadyKeepsProcess ==
    /\ pc[Main] = "ready"
    /\ child' = [child EXCEPT ![Main] = NoInst]
    /\ FreeBoth(Main)
    /\ Goto(Main, "commit")
    /\ UNCHANGED <<mode, pool, proc, startVars, target, leaked, deleted>>

StartNotReady ==
    /\ pc[Main] = "ready"
    /\ DropChild(Main)
    /\ FreeBoth(Main)
    /\ Goto(Main, "commit")
    /\ UNCHANGED <<mode, pool, startVars, target, leaked, deleted>>

\* Calls of stopAll() that will end an operation.  A batch: the guard of
\* testProxiesMultiThreaded, runInternal, release() in the command line program
\* only, and ~ProxyBatchTester; the first two only after a successful start.  An
\* update: releaseProxyPorts() and release().  A search: release().
StopCalls(startOk) ==
    CASE op = "batch" -> (IF startOk THEN 3 ELSE 1) + (IF mode = "cli" THEN 1 ELSE 0)
      [] op = "update" -> IF startOk THEN 2 ELSE 1
      [] OTHER -> 1

\* The started instances enter the pool.  A batch gives a worker to each instance
\* of the pool (getPortPairs).  Without an instance the operation ends.
StartCommit ==
    /\ pc[Main] = "commit" \/ (pc[Main] = "slot" /\ slot = Count)
    /\ pool' = pool \cup started
    /\ started' = {} /\ seen' = {}
    /\ slot' = StopCalls(slot > 0)
    /\ \/ /\ slot > 0 /\ op = "batch"
          /\ \E f \in [Worker -> pool' \cup {NoInst}] :
                /\ \A v, w \in Worker : v # w /\ f[v] = f[w] => f[v] = NoInst
                /\ \A x \in pool' : \/ \E w \in Worker : f[w] = x
                                    \/ \A w \in Worker : f[w] # NoInst
                /\ target' = [w \in Worker |-> IF f[w] = NoInst THEN NoPort
                                               ELSE proc[f[w]].api]
          /\ Goto(Main, "running")
       \/ /\ slot > 0 /\ op # "batch"
          /\ Goto(Main, "running")
          /\ UNCHANGED target
       \/ /\ slot = 0
          /\ Goto(Main, IF op = "find" THEN "idle" ELSE "ending")
          /\ UNCHANGED target
    /\ UNCHANGED <<mode, used, proc, launchVars, op, attempt, leaked, torn,
                   deleted>>

\* Mutant: the batch does not join its workers before it stops the instances.
EndWithoutJoin ==
    /\ pc[Main] = "running"
    /\ Goto(Main, "ending")
    /\ target' = [w \in Worker |-> NoPort]
    /\ UNCHANGED <<mode, used, pool, proc, launchVars, startVars, leaked,
                   torn, deleted>>

\* The workers are joined.  A search that was not cancelled leaves its instances
\* running for the next operation.
End ==
    /\ pc[Main] = "running"
    /\ \A w \in Worker : pc[w] = "idle"
    /\ target' = [w \in Worker |-> NoPort]
    /\ \/ Goto(Main, "ending")
       \/ op = "find" /\ Goto(Main, "idle")
    /\ UNCHANGED <<mode, used, pool, proc, launchVars, startVars, leaked,
                   torn, deleted>>

-----------------------------------------------------------------------------
(* XrayManager::stopAll().                                                  *)

\* Under instancesMutex_ every instance of the pool is stopped; clearPorts()
\* then drops every reservation of the process, whoever made it.
StopAll ==
    /\ proc' = Stopped(pool)
    /\ pool' = {}
    /\ used' = {} /\ leaked' = {}
    /\ torn' = UNION {Owned(k) : k \in Owner \ pool}

\* Mutant: one call of stopAll() too many.
AfterStopAllOnceMore(left) ==
    /\ slot' = left
    /\ deleted' = (mode = "cli" /\ left < 2)
    /\ Goto(Main, IF left >= 0 THEN "ending"
                  ELSE IF mode = "cli" THEN "over" ELSE "idle")

\* In the command line program release() deletes the manager before the last
\* call, the one of ~ProxyBatchTester.
AfterStopAll(left) ==
    /\ slot' = left
    /\ deleted' = (mode = "cli" /\ left < 2)
    /\ Goto(Main, IF left > 0 THEN "ending"
                  ELSE IF mode = "cli" THEN "over" ELSE "idle")

\* The calls that end an operation (StopCalls).  One on the deleted manager is
\* undefined; the program ends, as the static reservations and the processes
\* are gone already.
MainStopAll ==
    /\ pc[Main] = "ending"
    /\ StopAll
    /\ AfterStopAll(slot - 1)
    /\ UNCHANGED <<mode, launchVars, started, seen, op, attempt, target>>

\* Ctrl+C, at any time between the construction and the end of the tester.
CtrlC ==
    /\ mode = "cli" /\ pc[Main] \notin {"idle", "over"}
    /\ StopAll
    /\ UNCHANGED <<mode, pc, launchVars, startVars, target, deleted>>

-----------------------------------------------------------------------------
(* evaluateInstanceHealthThrottledEx(), called by a batch worker.           *)

\* The worker takes the mutex of its api port.
Report(w) ==
    /\ pc[Main] = "running" /\ target[w] # NoPort /\ pc[w] = "idle"
    /\ \A v \in Worker \ {w} : target[v] = target[w] => pc[v] = "idle"
    /\ Goto(w, "stamp")
    /\ UNCHANGED <<mode, used, pool, proc, launchVars, startVars, target,
                   leaked, torn, deleted>>

\* lastHealthRestart_ is read and written; whether the cooldown of the port is
\* over, or was ever recorded, is left open.
Stamp(w) ==
    /\ pc[w] = "stamp"
    /\ Goto(w, "idle") \/ Goto(w, "detach")
    /\ UNCHANGED <<mode, used, pool, proc, launchVars, startVars, target, leaked,
                   torn, deleted>>

\* Under instancesMutex_: the instance leaves the pool, its reservations stay.
Detach(w) ==
    /\ pc[w] = "detach"
    /\ \E x \in pool :
          /\ proc[x].api = target[w]
          /\ pool' = pool \ {x}
          /\ child' = [child EXCEPT ![w] = x]
          /\ socks' = [socks EXCEPT ![w] = proc[x].socks]
          /\ api' = [api EXCEPT ![w] = proc[x].api]
    /\ Goto(w, "stop")
    /\ UNCHANGED <<mode, used, proc, startVars, target, leaked, torn,
                   deleted>>

NothingToReplace(w) ==
    /\ pc[w] = "detach"
    /\ \A x \in pool : proc[x].api # target[w]
    /\ Goto(w, "idle")
    /\ UNCHANGED <<mode, used, pool, proc, launchVars, startVars, target,
                   leaked, torn, deleted>>

StopStale(w) ==
    /\ pc[w] = "stop"
    /\ DropChild(w)
    /\ Goto(w, "spawn")
    /\ UNCHANGED <<mode, used, pool, socks, api, startVars, target, leaked,
                   torn, deleted>>

Respawn(w) ==
    /\ pc[w] = "spawn"
    /\ \/ /\ SpawnChild(w)
          /\ Goto(w, "ready")
          /\ UNCHANGED <<used, socks, api, torn>>
       \/ /\ FreeBoth(w)
          /\ Goto(w, "idle")
          /\ UNCHANGED <<proc, child>>
    /\ UNCHANGED <<mode, pool, startVars, target, leaked, deleted>>

RespawnReady(w) ==
    /\ pc[w] = "ready" /\ CanBeReady(w)
    /\ pool' = pool \cup {child[w]}
    /\ child' = [child EXCEPT ![w] = NoInst]
    /\ socks' = [socks EXCEPT ![w] = NoPort]
    /\ api' = [api EXCEPT ![w] = NoPort]
    /\ Goto(w, "idle")
    /\ UNCHANGED <<mode, used, proc, startVars, target, leaked, torn,
                   deleted>>

RespawnNotReady(w) ==
    /\ pc[w] = "ready"
    /\ DropChild(w)
    /\ FreeBoth(w)
    /\ Goto(w, "idle")
    /\ UNCHANGED <<mode, pool, startVars, target, leaked, deleted>>

-----------------------------------------------------------------------------
(* The standalone pool: startProxyPool(), its relaunch and stopProxyPool(). *)

\* The next of the attempts, each with its own pair of desired ports, or none left.
NextAttempt ==
    IF attempt + 1 < Attempts THEN attempt' = attempt + 1 /\ Goto(Tenant, "socks")
    ELSE attempt' = 0 /\ Goto(Tenant, "idle")

\* resolvePoolPorts(): two separate searches.
TenantFindSocks ==
    /\ mode = "gui" /\ pc[Tenant] \in {"idle", "socks"}
    /\ \E p \in Port \cup {NoPort} :
          /\ Found((TenantSocks + attempt) % (LastPort + 1), p)
          /\ Reserve(p)
          /\ socks' = [socks EXCEPT ![Tenant] = p]
          /\ IF p = NoPort THEN NextAttempt
             ELSE Goto(Tenant, "api") /\ UNCHANGED attempt
    /\ UNCHANGED <<mode, pool, proc, api, child, started, seen, slot, op,
                   target, leaked, torn, deleted>>

TenantFindApi ==
    /\ pc[Tenant] = "api"
    /\ \E p \in Port \cup {NoPort} :
          /\ Found((TenantApi + attempt) % (LastPort + 1), p)
          /\ \/ /\ p = NoPort
                /\ FreeBoth(Tenant)
                /\ NextAttempt
             \/ /\ p # NoPort
                /\ Reserve(p)
                /\ api' = [api EXCEPT ![Tenant] = p]
                /\ Goto(Tenant, "spawn")
                /\ UNCHANGED <<socks, attempt, torn>>
    /\ UNCHANGED <<mode, pool, proc, child, started, seen, slot, op, target,
                   leaked, deleted>>

TenantSpawn ==
    /\ pc[Tenant] = "spawn"
    /\ \/ /\ SpawnChild(Tenant)
          /\ Goto(Tenant, "serving")
          /\ attempt' = 0
          /\ UNCHANGED <<used, socks, api, torn>>
       \/ /\ FreeBoth(Tenant)
          /\ NextAttempt
          /\ UNCHANGED <<proc, child>>
    /\ UNCHANGED <<mode, pool, started, seen, slot, op, target, leaked,
                   deleted>>

\* relaunchIfNeeded(), by the evaluator thread: the same instance, the same
\* ports, and no word to PortManager.
TenantRelaunch ==
    /\ pc[Tenant] = "serving" /\ proc[child[Tenant]].st = "dead"
    /\ proc' = [proc EXCEPT ![child[Tenant]].st = "starting"]
    /\ UNCHANGED <<mode, used, pool, pc, launchVars, startVars, target,
                   leaked, torn, deleted>>

TenantStop ==
    /\ pc[Tenant] = "serving"
    /\ DropChild(Tenant)
    /\ Goto(Tenant, "closing")
    /\ UNCHANGED <<mode, used, pool, socks, api, startVars, target, leaked,
                   torn, deleted>>

TenantFree ==
    /\ pc[Tenant] = "closing"
    /\ FreeBoth(Tenant)
    /\ Goto(Tenant, "idle")
    /\ UNCHANGED <<mode, pool, proc, child, startVars, target, leaked,
                   deleted>>

-----------------------------------------------------------------------------

MainStep ==
    \/ \E o \in {"batch", "find", "update"} : StartCall(o)
    \/ ReuseInstance \/ StartFindSocks \/ StartFindApi \/ StartSpawn
    \/ StartReady \/ StartNotReady \/ StartCommit \/ End \/ MainStopAll

WorkerStep(w) ==
    \/ Report(w) \/ Stamp(w) \/ Detach(w) \/ NothingToReplace(w) \/ StopStale(w)
    \/ Respawn(w) \/ RespawnReady(w) \/ RespawnNotReady(w)

TenantStep ==
    \/ TenantFindSocks \/ TenantFindApi
    \/ TenantSpawn \/ TenantRelaunch \/ TenantStop \/ TenantFree

Environment ==
    \E x \in Inst : Bind(x) \/ Crash(x)

Terminated == pc[Main] = "over" /\ UNCHANGED vars

Next ==
    \/ MainStep
    \/ CtrlC
    \/ \E w \in Worker : WorkerStep(w)
    \/ TenantStep
    \/ Environment
    \/ Terminated

Spec == Init /\ [][Next]_vars

-----------------------------------------------------------------------------
(* Properties.                                                              *)

\* Two owners never have a port in common - unless it is a port whose owner lost
\* its reservation to a stopAll() of somebody else.
PortsExclusive ==
    \A k \in Owner :
        Owned(k) # {} =>
            \A l \in Owner \ {k} : Owned(k) \cap Owned(l) \subseteq torn

\* The same ports apart, a port is reserved exactly while somebody owns it, or
\* when a start() that found only one port has left it behind.
ReservationsAccounted ==
    used \ torn = (leaked \cup UNION {Owned(k) : k \in Owner}) \ torn

\* Every process that was started and not stopped is in the pool or in the hands
\* of a thread: there is none that nobody can stop any more.
NoOrphan ==
    \A x \in Inst :
        proc[x].st # "none" =>
            x \in pool \cup started \/ \E t \in Thread : child[t] = x

\* After a batch or an update - also one that was interrupted while instances
\* were started or replaced - no worker is at work and no instance is left; the
\* command line program ends without a process and without a reservation.
ShutdownIsClean ==
    /\ pc[Main] \in {"idle", "over"} =>
          (\A w \in Worker : pc[w] = "idle") /\ (op \in {"batch", "update"} => pool = {})
    /\ pc[Main] = "over" =>
          used = {} /\ \A x \in Inst : proc[x].st = "none"

\* lastHealthRestart_ is "guarded by the per-port mutex" (XrayManager.h): no two
\* threads are at the map at the same time.
CooldownMapGuarded ==
    \A v, w \in Worker : pc[v] = "stamp" /\ pc[w] = "stamp" => v = w

\* ~ProxyBatchTester calls stopAll() as an "idempotent safety-net ... without
\* side-effects" (ProxyBatchTester.cpp): on a manager that still exists.
ManagerOutlivesTester == pc[Main] = "ending" => ~deleted

=============================================================================
