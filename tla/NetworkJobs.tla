----------------------------- MODULE NetworkJobs -----------------------------
(***************************************************************************)
(* The search for a working proxy (src/src/ProxyFinder.cpp), the lookup of *)
(* regions (src/src/RegionBatchResolver.cpp) and the network monitor that  *)
(* both consult (src/src/NetworkMonitor.cpp), one job at a time.  The      *)
(* search takes the instances in turn and leaves the proxy that it has     *)
(* chosen in the instance whose ports it returns; the lookup has several   *)
(* threads, a buffer that they share and write to the table together, and  *)
(* a last write after they have ended.                                     *)
(***************************************************************************)
EXTENDS Integers, FiniteSets, FiniteSetsExt

CONSTANTS
    Candidates,      \* proxies that the search finds in the table
    Instances,       \* Xray instances
    Resolver,        \* worker threads of the lookup
    Targets,         \* profiles without a region
    FlushSize,       \* BATCH_FLUSH_SIZE
    Urls,            \* URLs the monitor checks
    MaxMishaps       \* bound: instances that die, and writes that fail

ASSUME JobsAssumption ==
    /\ {Candidates, Targets, Urls, MaxMishaps} \subseteq Nat
    /\ {Instances, FlushSize} \subseteq Nat \ {0}
    /\ IsFiniteSet(Resolver) /\ Resolver # {}
    /\ {"main", "buffer"} \cap Resolver = {}

\* By delay, the fastest first: loadFallbackProxies().
Candidate == 1 .. Candidates
Instance == 1 .. Instances
Target == 1 .. Targets
Latency == {1, 2}

VARIABLES
    monitor,     \* whether it is enabled, what it says, and whether the job asks it
    job,         \* what runs, whether the user has cancelled it, and what it has reported
    finder,      \* the search: where it is, and the results so far
    carries,     \* the outbound "proxy" of each instance; -1: the instance is dead
    verdict,     \* the test result in the table; -1: none, 0: failed
    resolver,    \* the lookup: where each of its threads is, and with what
    buffer,      \* regionBuffer_
    batches,     \* what a thread has taken from the buffer and not written yet
    fate,        \* what has become of each profile of the lookup
    mishaps      \* instances that have died and writes that have failed

jobVars == <<monitor, job, finder, carries, verdict, resolver, buffer, batches, fate, mishaps>>

Thread == Resolver \cup {"main"}
Nothing == [at |-> "off"]

JobsInit ==
    /\ monitor = [enabled |-> TRUE, connected |-> TRUE]
    /\ job = [kind |-> "none", cancelled |-> FALSE, watched |-> FALSE, report |-> "none"]
    /\ finder = [at |-> "off", n |-> 1, working |-> {}, result |-> 0, ports |-> 0]
    /\ carries = [i \in Instance |-> 0]
    /\ verdict = [c \in Candidate |-> -1]
    /\ resolver = [r \in Thread |-> Nothing]
    /\ buffer = {}
    /\ batches = [r \in Thread |-> {}]
    /\ fate = [t \in Target |-> "queued"]
    /\ mishaps = 0

-----------------------------------------------------------------------------
(* The network monitor and the user.                                        *)

majorityVerdict(ok, failed, probed) ==
    probed > 0 /\ (ok + failed = 0 \/ ok > failed)

\* A round: each URL answers, fails, or - an error of the name service - abstains.
Round(probed) ==
    \E ok, failed \in 0 .. Urls :
        /\ ok + failed <= probed
        /\ monitor' = [monitor EXCEPT !.connected = majorityVerdict(ok, failed, probed)]

MonitorRound ==
    /\ monitor.enabled /\ Round(Urls)
    /\ UNCHANGED <<job, finder, carries, verdict, resolver, buffer, batches, fate, mishaps>>

\* restartNetworkMonitor(): a round that is broken off counts, and what it said holds
\* until the first round after the restart.
RestartMonitor ==
    /\ \E probed \in 0 .. Urls, on \in BOOLEAN :
          \E ok, failed \in 0 .. Urls :
              /\ ok + failed <= probed
              /\ monitor' = [enabled |-> on, connected |-> majorityVerdict(ok, failed, probed)]
    /\ UNCHANGED <<job, finder, carries, verdict, resolver, buffer, batches, fate, mishaps>>

\* networkDown(): the search of an update and the lookup of an auto task have no monitor.
NetworkDown == job.watched /\ monitor.enabled /\ ~monitor.connected

CancelJob ==
    /\ job.kind # "none" /\ job.report = "none"
    /\ job' = [job EXCEPT !.cancelled = TRUE]
    /\ UNCHANGED <<monitor, finder, carries, verdict, resolver, buffer, batches, fate, mishaps>>

-----------------------------------------------------------------------------
(* The search.                                                              *)

FinderUnchanged == UNCHANGED <<monitor, resolver, buffer, batches, fate>>

StartSearch(kind) ==
    /\ job.kind = "none"
    /\ \E watched \in BOOLEAN :
          job' = [job EXCEPT !.kind = kind, !.watched = watched]
    /\ finder' = [finder EXCEPT !.at = "inject"]
    /\ UNCHANGED <<carries, verdict, mishaps>> /\ FinderUnchanged

Searching == finder.at = "inject" /\ finder.n <= Candidates

\* The instances in turn.
InstanceOf(c) == ((c - 1) % Instances) + 1

\* injectProxyToXray(): the old outbound is removed and the new one added; a failure may
\* leave either of them or none, an instance that is dead takes nothing.
Inject(c, then, else) ==
    LET i == InstanceOf(c) IN
    \/ /\ carries[i] # -1
       /\ carries' = [carries EXCEPT ![i] = c]
       /\ finder' = then
    \/ /\ \E o \in IF carries[i] = -1 THEN {-1} ELSE {carries[i], 0, c} :
             carries' = [carries EXCEPT ![i] = o]
       /\ finder' = else

InjectCandidate ==
    /\ Searching /\ ~job.cancelled /\ ~NetworkDown
    /\ Inject(finder.n, [finder EXCEPT !.at = "test"], [finder EXCEPT !.n = @ + 1])
    /\ UNCHANGED <<job, verdict, mishaps>> /\ FinderUnchanged

\* testProxyConnectivity(): what the instance carries answers in time, or fails (0).
Measured(i) == IF carries[i] > 0 THEN Latency \cup {0} ELSE {0}

\* The first search ends with a success.
TestCandidate ==
    /\ finder.at = "test"
    /\ LET c == finder.n
           i == InstanceOf(c)
       IN \E latency \in Measured(i) :
             /\ verdict' = [verdict EXCEPT ![c] = latency]
             /\ finder' = IF latency > 0 /\ job.kind = "first"
                          THEN [finder EXCEPT !.at = "done", !.result = c, !.ports = i]
                          ELSE [finder EXCEPT !.at = "inject", !.n = @ + 1,
                                              !.working = IF latency > 0 THEN @ \cup {c} ELSE @]
    /\ UNCHANGED <<job, carries, mishaps>> /\ FinderUnchanged

StopSearch ==
    /\ Searching /\ (job.cancelled \/ NetworkDown)
    /\ finder' = [finder EXCEPT !.at = "aborted"]
    /\ UNCHANGED <<job, carries, verdict, mishaps>> /\ FinderUnchanged

Fastest == {c \in finder.working : \A d \in finder.working : verdict[c] <= verdict[d]}

\* Mutant: the ports of the fastest proxy, whatever its instance has been given since.
ReturnFastest ==
    /\ finder.at = "inject" /\ finder.n > Candidates /\ finder.working # {}
    /\ \E c \in Fastest :
          finder' = [finder EXCEPT !.at = "done", !.result = c, !.ports = InstanceOf(c)]
    /\ UNCHANGED <<job, carries, verdict, mishaps>> /\ FinderUnchanged

\* The best search has tested them all: the fastest is injected once more.
ReinjectFastest ==
    /\ finder.at = "inject" /\ finder.n > Candidates /\ finder.working # {}
    /\ \E c \in Fastest :
          LET chosen == [finder EXCEPT !.at = "done", !.result = c]
          IN Inject(c, [chosen EXCEPT !.ports = InstanceOf(c)], chosen)
    /\ UNCHANGED <<job, verdict, mishaps>> /\ FinderUnchanged

NothingFound ==
    /\ finder.at = "inject" /\ finder.n > Candidates /\ finder.working = {}
    /\ finder' = [finder EXCEPT !.at = "done"]
    /\ UNCHANGED <<job, carries, verdict, mishaps>> /\ FinderUnchanged

\* The window is told; a cancellation counts even when something was found, and takes
\* the instances away.
ReportSearch ==
    /\ finder.at \in {"done", "aborted"} /\ job.report = "none"
    /\ job' = [job EXCEPT !.report = IF job.cancelled THEN "cancelled"
                                     ELSE IF finder.result # 0 /\ finder.ports # 0 THEN "found"
                                     ELSE "notfound"]
    /\ carries' = IF job.cancelled THEN [i \in Instance |-> -1] ELSE carries
    /\ UNCHANGED <<finder, verdict, mishaps>> /\ FinderUnchanged

InstanceDies(i) ==
    /\ carries[i] # -1 /\ finder.at \notin {"off", "done"} /\ mishaps < MaxMishaps
    /\ mishaps' = mishaps + 1
    /\ carries' = [carries EXCEPT ![i] = -1]
    /\ UNCHANGED <<job, finder, verdict>> /\ FinderUnchanged

-----------------------------------------------------------------------------
(* The lookup of regions.                                                   *)

ResolverUnchanged == UNCHANGED <<monitor, finder, carries, verdict>>

Queue == {t \in Target : fate[t] = "queued"}

\* run(): as many threads as there are profiles, at most.
StartLookup ==
    /\ job.kind = "none" /\ Queue # {}
    /\ \E watched \in BOOLEAN :
          job' = [job EXCEPT !.kind = "regions", !.watched = watched]
    /\ \E rs \in SUBSET Resolver :
          /\ Cardinality(rs) = Min({Targets, Cardinality(Resolver)})
          /\ resolver' = [r \in Thread |-> IF r \in rs THEN [at |-> "loop"]
                                           ELSE IF r = "main" THEN [at |-> "join"]
                                           ELSE Nothing]
    /\ UNCHANGED <<buffer, batches, fate, mishaps>> /\ ResolverUnchanged

Moves(r, at) == resolver' = [resolver EXCEPT ![r] = at]

\* A thread that finds the network down cancels the whole lookup.
ThreadEnds(r) ==
    /\ resolver[r].at = "loop"
    /\ job.cancelled \/ NetworkDown \/ Queue = {}
    /\ Moves(r, Nothing)
    /\ job' = IF NetworkDown THEN [job EXCEPT !.cancelled = TRUE] ELSE job
    /\ UNCHANGED <<buffer, batches, fate, mishaps>> /\ ResolverUnchanged

TakeTarget(r) ==
    /\ resolver[r].at = "loop" /\ ~job.cancelled /\ ~NetworkDown
    /\ Queue # {}
    /\ Moves(r, [at |-> "fetch", target |-> Min(Queue)])
    /\ fate' = [fate EXCEPT ![Min(Queue)] = "taken"]
    /\ UNCHANGED <<job, buffer, batches, mishaps>> /\ ResolverUnchanged

\* fetchRegionFromIpWhoIs() and parseRegionFromJson(): the name is not resolved, there is
\* no answer, or one without a country; or a region.
Outcome == {"unresolved", "resolved"}

\* A region is put into the buffer, and a full one is written.
Fetch(r) ==
    /\ resolver[r].at = "fetch"
    /\ \E outcome \in Outcome :
          /\ fate' = [fate EXCEPT ![resolver[r].target] = outcome]
          /\ buffer' = buffer \cup {t \in {resolver[r].target} : outcome = "resolved"}
          /\ LET full == outcome = "resolved" /\ Cardinality(buffer') >= FlushSize
             IN Moves(r, [at |-> IF full THEN "flush" ELSE "loop"])
    /\ UNCHANGED <<job, batches, mishaps>> /\ ResolverUnchanged

\* Mutant: the buffer is emptied after it was written.
TakeCopy(r) ==
    /\ resolver[r].at = "flush"
    /\ batches' = [batches EXCEPT ![r] = buffer]
    /\ Moves(r, [at |-> "write"])
    /\ UNCHANGED <<job, buffer, fate, mishaps>> /\ ResolverUnchanged

\* flushRegionBuffer(): the buffer is taken over under its lock; another thread may
\* have taken it before.
TakeBuffer(r) ==
    /\ resolver[r].at = "flush"
    /\ batches' = [batches EXCEPT ![r] = buffer]
    /\ buffer' = {}
    /\ Moves(r, [at |-> "write"])
    /\ UNCHANGED <<job, fate, mishaps>> /\ ResolverUnchanged

\* One transaction, under the lock of the connection: it is committed, or - also when it
\* cannot be begun within somebody else's - lost as a whole.
WriteBatch(r) ==
    /\ resolver[r].at = "write"
    /\ \E outcome \in {"written", "lost"} :
          /\ outcome = "lost" => mishaps < MaxMishaps /\ batches[r] # {}
          /\ mishaps' = IF outcome = "lost" THEN mishaps + 1 ELSE mishaps
          /\ fate' = [t \in Target |-> IF t \in batches[r] THEN outcome ELSE fate[t]]
    /\ batches' = [batches EXCEPT ![r] = {}]
    /\ Moves(r, [at |-> IF r = "main" THEN "report" ELSE "loop"])
    /\ UNCHANGED <<job, buffer>> /\ ResolverUnchanged

AllEnded ==
    /\ resolver["main"].at = "join" /\ \A r \in Resolver : resolver[r] = Nothing
    /\ Moves("main", [at |-> "flush"])
    /\ UNCHANGED <<job, buffer, batches, fate, mishaps>> /\ ResolverUnchanged

ReportLookup ==
    /\ resolver["main"].at = "report"
    /\ Moves("main", Nothing)
    /\ job' = [job EXCEPT !.report = "resolved"]
    /\ UNCHANGED <<buffer, batches, fate, mishaps>> /\ ResolverUnchanged

-----------------------------------------------------------------------------

SearchStep ==
    \/ \E kind \in {"first", "best"} : StartSearch(kind)
    \/ InjectCandidate \/ TestCandidate \/ StopSearch
    \/ ReinjectFastest \/ NothingFound \/ ReportSearch
    \/ \E i \in Instance : InstanceDies(i)

LookupStep ==
    \/ StartLookup \/ AllEnded \/ ReportLookup
    \/ \E r \in Resolver :
          ThreadEnds(r) \/ TakeTarget(r) \/ Fetch(r)
    \/ \E r \in Thread : TakeBuffer(r) \/ WriteBatch(r)

JobsNext == MonitorRound \/ RestartMonitor \/ CancelJob \/ SearchStep \/ LookupStep

JobsSpec == JobsInit /\ [][JobsNext]_jobVars

-----------------------------------------------------------------------------
(* Properties.                                                              *)

JobsTypeOK ==
    /\ monitor \in [enabled : BOOLEAN, connected : BOOLEAN]
    /\ job.kind \in {"none", "first", "best", "regions"}
    /\ finder.at \in {"off", "inject", "test", "done", "aborted"}
    /\ finder.n \in 1 .. Candidates + 1
    /\ finder.working \subseteq Candidate
    /\ carries \in [Instance -> -1 .. Candidates]
    /\ verdict \in [Candidate -> -1 .. 2]
    /\ \A r \in Thread :
          resolver[r].at \in {"off", "loop", "fetch", "flush", "write", "join", "report"}
    /\ buffer \subseteq Target /\ batches \in [Thread -> SUBSET Target]
    /\ mishaps \in 0 .. MaxMishaps

\* The ports of a search lead to the proxy it names, although each instance was given
\* several in turn, and no proxy that the table says has worked in this search is faster
\* (for the first search: comes before it).  A search that names none, and was not
\* stopped, has found none that works.
FoundWorks ==
    finder.at = "done" =>
        /\ finder.ports # 0 /\ job.report # "cancelled" =>
              carries[finder.ports] = finder.result
        /\ finder.result # 0 =>
              \A c \in Candidate : verdict[c] > 0 =>
                  0 < verdict[finder.result] /\ verdict[finder.result] <= verdict[c]
        /\ finder.result = 0 => \A c \in Candidate : verdict[c] <= 0

\* Every region that was found is in one place until it is written or its write fails,
\* whoever writes whose; when the lookup reports, none is left in memory, and unless it
\* was cancelled or the network was down no profile is left out.
RegionsAccounted ==
    /\ \A t \in Target :
          LET holders == {r \in Thread : t \in batches[r]}
                         \cup (IF t \in buffer THEN {"buffer"} ELSE {})
          IN Cardinality(holders) = IF fate[t] = "resolved" THEN 1 ELSE 0
    /\ job.report = "resolved" =>
          \A t \in Target : fate[t] \in {"written", "lost", "unresolved"}
                            \cup (IF job.cancelled THEN {"queued"} ELSE {})

\* What a search and what a lookup report is true (ProxyFinder::findWorkingProxy(),
\* RegionBatchResolver::run()).
JobsReportTruth == FoundWorks /\ RegionsAccounted

=============================================================================
