----------------------------- MODULE MemberPool -----------------------------
(***************************************************************************)
(* The standalone proxy pool: one xray instance that serves many proxies,  *)
(* each an outbound "px-<id>" injected while the instance runs.  The       *)
(* window's thread starts and stops the pool, injects members and asks for *)
(* their removal; an evaluator thread relaunches a dead instance and       *)
(* injects the members again, probes them, prunes dead ones and carries    *)
(* out the removals.  Both threads may probe at once, through the probe    *)
(* pool's resident workers.  The record of a member (under membersMutex_)  *)
(* and its outbound (in another process) change in separate steps; a       *)
(* request whose answer does not come in time is given up by the pool, and *)
(* may still be carried out by the instance.                               *)
(***************************************************************************)
EXTENDS Naturals, FiniteSets

CONSTANTS
  Proxy,        \* the profiles that can be injected
  Direct,       \* those curl can measure without an xray worker
  Worker,       \* the probe pool's workers
  PruneStreak,  \* evaluate.pruneFailStreak
  MaxCrashes,   \* bound: how often the instance dies by itself
  MaxLosses     \* bound: how often an answer does not come in time

NoOne == "none"
Nothing == "nothing"

ASSUME PoolAssumption ==
  /\ Direct \subseteq Proxy
  /\ Nothing \notin Proxy \cup Worker
  /\ PruneStreak \in Nat \ {0}
  /\ MaxCrashes \in Nat /\ MaxLosses \in Nat

VARIABLES
  poolUp,       \* running_
  instance,     \* the pool's xray process runs
  outbounds,    \* the members' outbounds that process has
  members,      \* members_
  poolUi,       \* the window's thread: where it is, and the proxy it injects
  evaluator,    \* the evaluator thread: where it is, and what is left to inject
  probing,      \* each prober's round: targets left, results, its worker
  workers,      \* the probe workers that run
  free,         \* those not marked busy
  workersMutex, \* who holds workersMutex_
  verdict,      \* what the last probe of the member last written back as failed said
  crashes,
  late,         \* requests the pool has given up and the process may yet carry out
  strays,       \* outbounds that process has by such a request
  losses

lateVars == <<late, strays, losses>>
poolVars == <<poolUp, instance, outbounds, members, poolUi, evaluator, probing,
              workers, free, workersMutex, verdict, crashes, lateVars>>

Prober == {"ui", "evaluator"}
Outcome == {"alive", "dead", "untested"}

\* lastAlive is (last = "alive"): a member that was never tested is not alive.
Member == [state : {"none", "active", "requested"},
           last : {"never", "alive", "dead"}, streak : 0 .. PruneStreak]
NoMember == [state |-> "none", last |-> "never", streak |-> 0]
NewMember == [NoMember EXCEPT !.state = "active"]

NoRound == [todo |-> {}, found |-> <<>>, worker |-> Nothing]

In(state) == {p \in Proxy : members[p].state = state}

PoolInit ==
  /\ poolUp = FALSE /\ instance = FALSE /\ outbounds = {}
  /\ members = [p \in Proxy |-> NoMember]
  /\ poolUi = [at |-> "idle", proxy |-> Nothing]
  /\ evaluator = [at |-> "off", todo |-> {}]
  /\ probing = [t \in Prober |-> NoRound]
  /\ workers = {} /\ free = {} /\ workersMutex = NoOne
  /\ verdict = NoOne
  /\ crashes = 0
  /\ late = {} /\ strays = {} /\ losses = 0

-----------------------------------------------------------------------------
(* The window's thread *)

UiGoes(at) == poolUi' = [at |-> at, proxy |-> Nothing]

\* ProxyProbePool::start(): any number of workers may fail to start, which is not fatal.
StartWorkers == \E started \in SUBSET Worker : workers' = started /\ free' = started

\* ProxyProbePool::stop()
StopWorkers == workers' = {} /\ free' = {}

\* What was asked of the process ends with it.
ProcessGone ==
  /\ instance' = FALSE /\ outbounds' = {}
  /\ late' = {} /\ strays' = {} /\ UNCHANGED losses

\* A started pool is a new object.
StartPool ==
  /\ poolUi.at = "idle" /\ ~poolUp
  /\ poolUp' = TRUE /\ instance' = TRUE /\ outbounds' = {}
  /\ members' = [p \in Proxy |-> NoMember]
  /\ evaluator' = [at |-> "top", todo |-> {}]
  /\ StartWorkers
  /\ UNCHANGED <<poolUi, probing, workersMutex, verdict, crashes, lateVars>>

\* running_ is cleared, and the evaluator joined.
StopPool ==
  /\ poolUi.at = "idle" /\ poolUp
  /\ poolUp' = FALSE
  /\ UiGoes("joining")
  /\ UNCHANGED <<instance, outbounds, members, evaluator, probing, workers, free,
                 workersMutex, verdict, crashes, lateVars>>

Stopped ==
  /\ poolUi.at = "joining" /\ evaluator.at = "done"
  /\ ProcessGone
  /\ members' = [p \in Proxy |-> NoMember]
  /\ evaluator' = [evaluator EXCEPT !.at = "off"]
  /\ StopWorkers
  /\ UiGoes("idle")
  /\ UNCHANGED <<poolUp, probing, workersMutex, verdict, crashes>>

\* The duplicate check is under the lock, the injection after it is not.
InjectMember(p) ==
  /\ poolUi.at = "idle" /\ poolUp
  /\ members[p].state = "none"
  /\ poolUi' = [at |-> "injecting", proxy |-> p]
  /\ UNCHANGED <<poolUp, instance, outbounds, members, evaluator, probing, workers,
                 free, workersMutex, verdict, crashes, lateVars>>

\* xray refuses a tag it has.
Accepts(p) == instance /\ p \notin outbounds

\* addOutboundDirect, or else addOutbound with a child process
OutboundAdded ==
  /\ poolUi.at \in {"injecting", "falling"} /\ Accepts(poolUi.proxy)
  /\ outbounds' = outbounds \cup {poolUi.proxy}
  /\ poolUi' = [poolUi EXCEPT !.at = "added"]
  /\ UNCHANGED <<poolUp, instance, members, evaluator, probing, workers, free,
                 workersMutex, verdict, crashes, lateVars>>

\* Refused, or not delivered: nothing comes of the calls that have not been given up.
OutboundRefused ==
  /\ poolUi.at \in {"injecting", "falling"}
  /\ UiGoes("idle")
  /\ UNCHANGED <<poolUp, instance, outbounds, members, evaluator, probing, workers,
                 free, workersMutex, verdict, crashes, lateVars>>

\* A deadline, a cut connection, a killed child: the pool gives the request up.
GivesUp(op, ps) ==
  /\ instance /\ losses < MaxLosses
  /\ late' = late \cup {[op |-> op, proxy |-> p, nr |-> losses] : p \in ps}
  /\ losses' = losses + 1

\* The first call or the second is not answered: there is no member, whatever the
\* process makes of it.
AddUnanswered ==
  /\ poolUi.at \in {"injecting", "falling"}
  /\ GivesUp("add", {poolUi.proxy})
  /\ \/ poolUi.at = "injecting" /\ poolUi' = [poolUi EXCEPT !.at = "falling"]
     \/ UiGoes("idle")
  /\ UNCHANGED <<poolUp, instance, outbounds, members, evaluator, probing, workers, free,
                 workersMutex, verdict, crashes, strays>>

\* The process carries out what it was asked, at once or much later.
CarriedOut(r) ==
  /\ r \in late
  /\ late' = late \ {r}
  /\ IF r.op = "remove" \/ Accepts(r.proxy)
       THEN /\ outbounds' = IF r.op = "add" THEN outbounds \cup {r.proxy}
                            ELSE outbounds \ {r.proxy}
            /\ strays' = IF r.op = "add" THEN strays \cup {r.proxy} ELSE strays \ {r.proxy}
       ELSE UNCHANGED <<outbounds, strays>>
  /\ UNCHANGED <<poolUp, instance, members, poolUi, evaluator, probing, workers, free,
                 workersMutex, verdict, crashes, losses>>

MemberRecorded ==
  /\ poolUi.at = "added"
  /\ members' = [members EXCEPT ![poolUi.proxy] = NewMember]
  /\ UiGoes("idle")
  /\ UNCHANGED <<poolUp, instance, outbounds, evaluator, probing, workers, free,
                 workersMutex, verdict, crashes, lateVars>>

\* The window always removes gracefully: the evaluator does the rest.
RemoveMember(p) ==
  /\ poolUi.at = "idle" /\ poolUp
  /\ members[p].state = "active"
  /\ members' = [members EXCEPT ![p].state = "requested"]
  /\ UNCHANGED <<poolUp, instance, outbounds, poolUi, evaluator, probing, workers,
                 free, workersMutex, verdict, crashes, lateVars>>

-----------------------------------------------------------------------------
(* A round of probes, by either thread *)

BeginRound(t) ==
  probing' = [probing EXCEPT ![t] = [NoRound EXCEPT !.todo = In("active")]]

Probing(t) == IF t = "ui" THEN poolUi.at = "probing" ELSE evaluator.at = "probing"

\* The targets are probed one after the other, in the order of their ids.
Target(t) == CHOOSE p \in probing[t].todo : TRUE

AtTarget(t) == Probing(t) /\ probing[t].todo # {} /\ probing[t].worker = Nothing

Found(t, outcome) ==
  LET target == Target(t)
  IN  probing' = [probing EXCEPT ![t] =
        [todo |-> @.todo \ {target}, worker |-> Nothing,
         found |-> [p \in DOMAIN @.found \cup {target} |->
                      IF p = target THEN outcome ELSE @.found[p]]]]

\* A socks or http proxy is measured with curl alone.
ProbeDirect(t) ==
  /\ AtTarget(t) /\ poolUp /\ Target(t) \in Direct
  /\ \E outcome \in {"alive", "dead"} : Found(t, outcome)
  /\ UNCHANGED <<poolUp, instance, outbounds, members, poolUi, evaluator, workers,
                 free, workersMutex, verdict, crashes, lateVars>>

\* acquireWorker marks one busy and lets the lock go; without a free one the
\* member stays untested.
AcquireWorker(t) ==
  /\ AtTarget(t) /\ poolUp /\ Target(t) \notin Direct
  /\ workersMutex = NoOne
  /\ IF free = {}
       THEN Found(t, "untested") /\ UNCHANGED free
       ELSE \E w \in free :
              /\ free' = free \ {w}
              /\ probing' = [probing EXCEPT ![t].worker = w]
  /\ UNCHANGED <<poolUp, instance, outbounds, members, poolUi, evaluator, workers,
                 workersMutex, verdict, crashes, lateVars>>

\* The lock is taken again and held for the whole probe.
LockWorkers(t) ==
  /\ probing[t].worker # Nothing /\ workersMutex = NoOne
  /\ workersMutex' = t
  /\ UNCHANGED <<poolUp, instance, outbounds, members, poolUi, evaluator, probing,
                 workers, free, verdict, crashes, lateVars>>

\* Mutant: a probe that could not inject its outbound keeps the worker.
WorkerKept(t) ==
  /\ workersMutex = t
  /\ \E outcome \in Outcome :
       /\ Found(t, outcome)
       /\ free' = IF outcome = "untested" THEN free ELSE free \cup {probing[t].worker}
  /\ workersMutex' = NoOne
  /\ UNCHANGED <<poolUp, instance, outbounds, members, poolUi, evaluator, workers,
                 verdict, crashes, lateVars>>

\* A failed injection into the worker leaves the member untested; on every path
\* the worker is given back.
WorkerAnswers(t) ==
  /\ workersMutex = t
  /\ \E outcome \in Outcome : Found(t, outcome)
  /\ free' = free \cup {probing[t].worker}
  /\ workersMutex' = NoOne
  /\ UNCHANGED <<poolUp, instance, outbounds, members, poolUi, evaluator, workers,
                 verdict, crashes, lateVars>>

\* The stop flag ends the round: the targets left are reported untested.
InterruptRound(t) ==
  /\ AtTarget(t) /\ ~poolUp
  /\ probing' = [probing EXCEPT ![t].todo = {}]
  /\ UNCHANGED <<poolUp, instance, outbounds, members, poolUi, evaluator, workers,
                 free, workersMutex, verdict, crashes, lateVars>>

RoundOver(t) == Probing(t) /\ probing[t].todo = {}

\* mergeHealth: a target that is no longer a member is dropped, an untested one
\* keeps its state.
Merged(t) ==
  LET found == probing[t].found
      Counted(m, outcome) ==
        CASE outcome = "alive" -> [m EXCEPT !.last = "alive", !.streak = 0]
          [] outcome = "dead" -> [m EXCEPT !.last = "dead",
                                           !.streak = IF @ < PruneStreak THEN @ + 1 ELSE @]
          [] OTHER -> m
  IN  [p \in Proxy |-> IF p \in DOMAIN found /\ members[p].state # "none"
                         THEN Counted(members[p], found[p])
                         ELSE members[p]]

\* probeNow, on the window's thread
ProbeNow ==
  /\ poolUi.at = "idle" /\ poolUp
  /\ UiGoes("probing")
  /\ BeginRound("ui")
  /\ UNCHANGED <<poolUp, instance, outbounds, members, evaluator, workers, free,
                 workersMutex, verdict, crashes, lateVars>>

ProbedNow ==
  /\ RoundOver("ui")
  /\ members' = Merged("ui")
  /\ probing' = [probing EXCEPT !["ui"] = NoRound]
  /\ UiGoes("idle")
  /\ UNCHANGED <<poolUp, instance, outbounds, evaluator, workers, free, workersMutex,
                 verdict, crashes, lateVars>>

-----------------------------------------------------------------------------
(* The evaluator thread *)

EvaluatorGoes(at, todo) == evaluator' = [at |-> at, todo |-> todo]

LoopEnds ==
  /\ evaluator.at = "top" /\ ~poolUp
  /\ EvaluatorGoes("done", {})
  /\ UNCHANGED <<poolUp, instance, outbounds, members, poolUi, probing, workers, free,
                 workersMutex, verdict, crashes, lateVars>>

\* relaunchIfNeeded finds the instance running, or cannot start it.
NoRelaunch ==
  /\ evaluator.at = "top" /\ poolUp
  /\ EvaluatorGoes("begin", {})
  /\ UNCHANGED <<poolUp, instance, outbounds, members, poolUi, probing, workers, free,
                 workersMutex, verdict, crashes, lateVars>>

Relaunch ==
  /\ evaluator.at = "top" /\ poolUp /\ ~instance
  /\ instance' = TRUE /\ outbounds' = {}
  /\ EvaluatorGoes("relaunched", {})
  /\ UNCHANGED <<poolUp, members, poolUi, probing, workers, free, workersMutex,
                 verdict, crashes, lateVars>>

\* reinjectAll works on a copy of the members; those not active are skipped.
CopyMembers ==
  /\ evaluator.at = "relaunched"
  /\ EvaluatorGoes("reinject", In("active"))
  /\ UNCHANGED <<poolUp, instance, outbounds, members, poolUi, probing, workers, free,
                 workersMutex, verdict, crashes, lateVars>>

\* The call may fail, and that is only logged.
Reinject(p) ==
  /\ evaluator.at = "reinject" /\ p \in evaluator.todo
  /\ EvaluatorGoes("reinject", evaluator.todo \ {p})
  /\ outbounds' \in {outbounds, IF Accepts(p) THEN outbounds \cup {p} ELSE outbounds}
  /\ UNCHANGED <<poolUp, instance, members, poolUi, probing, workers, free,
                 workersMutex, verdict, crashes, lateVars>>

\* It goes on with its second call, or with the next member.
ReinjectUnanswered(p) ==
  /\ evaluator.at = "reinject" /\ p \in evaluator.todo
  /\ GivesUp("add", {p})
  /\ UNCHANGED evaluator \/ EvaluatorGoes("reinject", evaluator.todo \ {p})
  /\ UNCHANGED <<poolUp, instance, outbounds, members, poolUi, probing, workers, free,
                 workersMutex, verdict, crashes, strays>>

BeginProbe ==
  /\ \/ evaluator.at = "begin"
     \/ evaluator.at = "reinject" /\ evaluator.todo = {}
  /\ EvaluatorGoes("probing", {})
  /\ BeginRound("evaluator")
  /\ UNCHANGED <<poolUp, instance, outbounds, members, poolUi, workers, free,
                 workersMutex, verdict, crashes, lateVars>>

IsDead(m) == m.streak >= PruneStreak \/ m.last # "alive"

\* autoPruneDead, when the box is ticked
Prune(ms) ==
  [p \in Proxy |->
     IF ms[p].state = "active" /\ ms[p].streak >= PruneStreak
       THEN [ms[p] EXCEPT !.state = "requested"]
       ELSE ms[p]]

\* Mutant: the record is erased, though xray keeps the outbound.
DrainRecord(ms, gone) ==
  /\ members' = [p \in Proxy |-> IF p \in gone THEN NoMember ELSE ms[p]]
  /\ UNCHANGED <<outbounds, strays, verdict>>

\* The members xray has let go are erased; the dead ones among them are written
\* back as failed tests.
Drain(ms, gone) ==
  /\ members' = [p \in Proxy |-> IF p \in gone THEN NoMember ELSE ms[p]]
  /\ outbounds' = outbounds \ gone
  /\ strays' = strays \ gone
  /\ LET dead == {p \in gone : IsDead(ms[p])}
     IN  IF dead = {}
           THEN UNCHANGED verdict
           ELSE \E p \in dead : verdict' = ms[p].last

\* Of the removals that failed, some were not answered.
Unanswered(failed) ==
  \E ps \in SUBSET failed :
    IF ps = {} THEN UNCHANGED <<late, losses>> ELSE GivesUp("remove", ps)

\* Mutant: only members that were probed in the round are removed.
EvaluatedOfRound(all) ==
  /\ RoundOver("evaluator")
  /\ \E ms \in {Merged("evaluator"), Prune(Merged("evaluator"))} :
       LET asked == {p \in DOMAIN probing["evaluator"].found : ms[p].state = "requested"}
       IN  \E gone \in SUBSET asked :
             /\ gone # {} => instance
             /\ all => gone = asked
             /\ Unanswered(asked \ gone)
             /\ Drain(ms, gone)
  /\ probing' = [probing EXCEPT !["evaluator"] = NoRound]
  /\ EvaluatorGoes("top", {})
  /\ UNCHANGED <<poolUp, instance, poolUi, workers, free, workersMutex, crashes>>

\* One step under membersMutex_: merge the health, prune, carry out the
\* removals.  xray is asked for each, and answers only while it runs; all: it
\* lets all of them go.
Evaluated(all) ==
  /\ RoundOver("evaluator")
  /\ \E ms \in {Merged("evaluator"), Prune(Merged("evaluator"))} :
       LET asked == {p \in Proxy : ms[p].state = "requested"}
       IN  \E gone \in SUBSET asked :
             /\ gone # {} => instance
             /\ all => gone = asked
             /\ Unanswered(asked \ gone)
             /\ Drain(ms, gone)
  /\ probing' = [probing EXCEPT !["evaluator"] = NoRound]
  /\ EvaluatorGoes("top", {})
  /\ UNCHANGED <<poolUp, instance, poolUi, workers, free, workersMutex, crashes>>

Evaluate == Evaluated(FALSE)
EvaluateAll == Evaluated(TRUE)

InstanceDies ==
  /\ instance /\ crashes < MaxCrashes
  /\ ProcessGone
  /\ crashes' = crashes + 1
  /\ UNCHANGED <<poolUp, members, poolUi, evaluator, probing, workers, free,
                 workersMutex, verdict>>

-----------------------------------------------------------------------------
Round(t) ==
  \/ ProbeDirect(t) \/ AcquireWorker(t) \/ LockWorkers(t) \/ WorkerAnswers(t)
  \/ InterruptRound(t)

\* What the window's thread does once it has begun; what the evaluator does.
PoolUiProceeds ==
  \/ Stopped \/ OutboundAdded \/ OutboundRefused \/ AddUnanswered \/ MemberRecorded
  \/ Round("ui") \/ ProbedNow

EvaluatorProceeds ==
  \/ LoopEnds \/ NoRelaunch \/ Relaunch \/ CopyMembers
  \/ \E p \in Proxy : Reinject(p) \/ ReinjectUnanswered(p)
  \/ BeginProbe \/ Round("evaluator") \/ Evaluate

PoolNext ==
  \/ StartPool \/ StopPool \/ ProbeNow
  \/ \E p \in Proxy : InjectMember(p) \/ RemoveMember(p)
  \/ PoolUiProceeds
  \/ EvaluatorProceeds
  \/ InstanceDies
  \/ \E r \in late : CarriedOut(r)

\* Both threads run, and the evaluator gets workersMutex_ between the rounds the
\* user starts by hand; an instance that is launched over and over starts once,
\* and xray, asked over and over, once lets all go.
PoolFairness ==
  /\ WF_poolVars(PoolUiProceeds)
  /\ SF_poolVars(EvaluatorProceeds)
  /\ SF_poolVars(Relaunch)
  /\ SF_poolVars(EvaluateAll)

PoolSpec == PoolInit /\ [][PoolNext]_poolVars /\ PoolFairness

-----------------------------------------------------------------------------
PoolTypeOK ==
  /\ poolUp \in BOOLEAN /\ instance \in BOOLEAN
  /\ outbounds \subseteq Proxy
  /\ members \in [Proxy -> Member]
  /\ poolUi \in [at : {"idle", "injecting", "falling", "added", "probing", "joining"},
                 proxy : Proxy \cup {Nothing}]
  /\ evaluator \in [at : {"off", "top", "relaunched", "reinject", "begin", "probing",
                          "done"}, todo : SUBSET Proxy]
  /\ \A t \in Prober :
       /\ probing[t].todo \subseteq Proxy
       /\ probing[t].worker \in Worker \cup {Nothing}
       /\ DOMAIN probing[t].found \subseteq Proxy
  /\ free \subseteq workers /\ workers \subseteq Worker
  /\ workersMutex \in Prober \cup {NoOne}
  /\ verdict \in {NoOne, "never", "alive", "dead"}
  /\ crashes \in 0 .. MaxCrashes
  /\ late \subseteq [op : {"add", "remove"}, proxy : Proxy, nr : 0 .. MaxLosses]
  /\ strays \subseteq Proxy /\ losses \in 0 .. MaxLosses

\* Nothing leaks: an outbound the pool's xray process has belongs to a member, or
\* to the injection under way - or it came by a request that the pool had given up,
\* the one case in which a profile becomes one xray refuses and the pool does not
\* list (StandaloneProxyPool.cpp:154-161: the call is carried out, its answer lost,
\* and the second call refused); this and every request still under way end with the
\* process.  And a probe worker marked busy is held by a round of probes that will
\* give it back, so the pool of workers does not run dry.
NothingLeaks ==
  /\ \A p \in outbounds :
       \/ members[p].state # "none"
       \/ poolUi.at = "added" /\ poolUi.proxy = p
       \/ p \in strays
  /\ instance \/ (outbounds = {} /\ late = {})
  /\ \A w \in workers \ free : \E t \in Prober : probing[t].worker = w

\* Two-phase removal ends: a member whose removal was asked for is taken out of
\* the pool, or the pool is stopped, though the instance may have died and lost
\* the outbound that is to be removed.
RemovalCompletes ==
  \A p \in Proxy : (members[p].state = "requested") ~> (members[p].state = "none")

\* StandaloneProxyPool.h:107-110: onMemberRemoved, which marks the profile as
\* failed, is for "a dead member": one pruned, or removed when its "last probe
\* failed".  Refuted: a member removed before its first probe counts as dead.
DeadWasProbed == verdict \in {NoOne, "dead"}
=============================================================================
