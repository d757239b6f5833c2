----------------------------- MODULE Standalone -----------------------------
(***************************************************************************)
(* One standalone proxy (src/src/ui/AppController.cpp,                     *)
(* src/src/ProcessExitListener.cpp, src/src/ProxyRuntimeHistory.cpp): an   *)
(* xray process that outlives the program.  The window's thread starts and *)
(* stops it; a watcher thread waits for the exit of each process and may   *)
(* take over another process with the same configuration file; sweeps      *)
(* adopt processes that nobody watches; the history table has one open row *)
(* per running session.  Other programs may launch a process with this     *)
(* configuration file, and every process may die, at any time.             *)
(***************************************************************************)
EXTENDS Naturals, Sequences

CONSTANTS
    Pid,         \* process ids, positive numbers; an id is used once
    Sweepers,    \* bound: sweeps at one time
    MaxSwitches  \* bound: how often the database is switched

ASSUME StandaloneAssumption ==
    /\ Pid \subseteq Nat \ {0}
    /\ Sweepers \in Nat /\ MaxSwitches \in Nat

Sweeper == 1 .. Sweepers

VARIABLES
    proc,        \* the processes with this proxy's configuration file
    entry,       \* standaloneProxies_[indexId]; its handle is named by the pid, 0: null
    watchKey,    \* proxyWatchKeys_[indexId]; 0: none
    ours,        \* sessionStartedProxies_
    rows,        \* the history table of each database
    db,          \* the database in use
    watch,       \* the watchers, by key
    ui,          \* what the window's thread is doing
    sweep,       \* what each sweep is doing
    adoptInFlight

saVars == <<proc, entry, watchKey, ours, rows, db, watch, ui, sweep, adoptInFlight>>

NoEntry == [in |-> FALSE, pid |-> 0, running |-> FALSE, row |-> 0, key |-> 0]
Idle == [at |-> "idle", pid |-> 0, key |-> 0]
NoSweep == [at |-> "off", todo |-> {}, pid |-> 0, row |-> 0, key |-> 0]

Alive == {p \in Pid : proc[p] = "alive"}
Key == DOMAIN watch

\* standaloneMutex_ is held by startStandaloneProxy() for as long as no dialog is open;
\* everybody else takes it and gives it back within a step.
\* Mutant: stopStandaloneProxy() joins the watcher with the mutex held.
LockedInJoin == ui.at \in {"launch", "verify", "track", "join"}
Locked == ui.at \in {"launch", "verify", "track"}

SaTypeOK ==
    /\ proc \in [Pid -> {"none", "alive", "dead"}]
    /\ entry \in [in : BOOLEAN, pid : Pid \cup {0}, running : BOOLEAN,
                  row : Nat, key : Key \cup {0}]
    /\ watchKey \in Key \cup {0}
    /\ ours \subseteq Pid
    /\ db \in 1 .. MaxSwitches + 1
    /\ \A d \in DOMAIN rows : \A r \in DOMAIN rows[d] :
          rows[d][r] \in [pid : Pid, open : BOOLEAN]
    /\ \A k \in Key :
          watch[k] \in [pid : Pid, row : Nat, db : 1 .. db,
                        by : {"start", "sweep", "takeover"}, to : Pid \cup {0},
                        next : [row : Nat, db : 1 .. db],
                        open : BOOLEAN,
                        at : {"busy", "watching", "exited", "taking", "moved", "entered",
                              "took", "notify", "finalize", "done", "lost"}]
    /\ \A k \in Key : watch[k].row \in DOMAIN rows[watch[k].db]
    /\ ui.at \in {"idle", "consent", "launch", "verify", "unready", "unverified",
                  "track", "kill", "erase", "join"}
    /\ \A s \in Sweeper : sweep[s].at \in {"off", "scan", "bypass", "detect", "adopt",
                                           "register"}
    /\ adoptInFlight \in BOOLEAN

\* The last session may have left processes and an open row behind.
SaInit ==
    /\ proc \in [Pid -> {"none", "alive"}]
    /\ entry = NoEntry /\ watchKey = 0 /\ ours = {} /\ db = 1
    /\ \E left \in {<<>>} \cup {<<[pid |-> p, open |-> TRUE]>> : p \in Alive} :
          rows = [d \in 1 .. MaxSwitches + 1 |-> IF d = 1 THEN left ELSE <<>>]
    /\ watch = <<>> /\ ui = Idle
    /\ sweep = [s \in Sweeper |-> NoSweep]
    /\ adoptInFlight = FALSE

-----------------------------------------------------------------------------
(* The history table.                                                       *)

InsertStart(p) == rows' = [rows EXCEPT ![db] = Append(@, [pid |-> p, open |-> TRUE])]

\* Mutant: the number of the last row is taken before the new one is inserted.
LastRow == Len(rows[db])

NextRow == Len(rows[db]) + 1

\* Mutant: the open row of another process is taken.
FindAnyInProgress(p) == {r \in DOMAIN rows[db] : rows[db][r].open}

\* findInProgressHistory(), findInProgressHistoryLoose().
FindInProgress(p) == {r \in DOMAIN rows[db] : rows[db][r].pid = p /\ rows[db][r].open}

\* finalizeStop(): by number, in whichever database is in use now.
FinalizeStop(r) ==
    rows' = IF r \in DOMAIN rows[db] THEN [rows EXCEPT ![db][r].open = FALSE] ELSE rows

\* ProcessExitListener::watch(): process p, whose row is r of database d.  The handle
\* stays with the caller.  A takeover notes the row of the next session in next, before
\* that session has its watcher.
Watcher(p, r, d, by) ==
    [pid |-> p, row |-> r, db |-> d, by |-> by, to |-> 0, next |-> [row |-> 0, db |-> d],
     open |-> TRUE, at |-> "busy"]

Watch(p, r, by) == watch' = Append(watch, Watcher(p, r, db, by))

\* CloseHandle(): whoever watches process p has a handle that is no longer valid.
Closed(p) == [k \in Key |-> IF watch[k].pid = p THEN [watch[k] EXCEPT !.open = FALSE]
                            ELSE watch[k]]

-----------------------------------------------------------------------------
(* startStandaloneProxy(), on the window's thread.                          *)

GoUi(at) == ui' = [ui EXCEPT !.at = at]

\* A process with this configuration file: the user is asked, without the mutex.
StartProxy ==
    /\ ui = Idle
    /\ GoUi(IF Alive # {} THEN "consent" ELSE "launch")
    /\ UNCHANGED <<proc, entry, watchKey, ours, rows, db, watch, sweep, adoptInFlight>>

\* The user declines, or the processes are terminated; one may survive.
Consent ==
    /\ ui.at = "consent"
    /\ \/ ui' = Idle /\ UNCHANGED proc
       \/ \E killed \in SUBSET Alive :
             /\ proc' = [p \in Pid |-> IF p \in killed THEN "dead" ELSE proc[p]]
             /\ IF killed = Alive THEN GoUi("launch") ELSE ui' = Idle
    /\ UNCHANGED <<entry, watchKey, ours, rows, db, watch, sweep, adoptInFlight>>

LaunchFails ==
    /\ ui.at = "launch"
    /\ ui' = Idle
    /\ UNCHANGED <<proc, entry, watchKey, ours, rows, db, watch, sweep, adoptInFlight>>

Launch ==
    /\ ui.at = "launch"
    /\ \E p \in Pid :
          /\ proc[p] = "none"
          /\ proc' = [proc EXCEPT ![p] = "alive"]
          /\ entry' = [NoEntry EXCEPT !.in = TRUE, !.pid = p, !.running = TRUE]
          /\ ours' = ours \cup {p}
          /\ ui' = [Idle EXCEPT !.at = "verify", !.pid = p]
    /\ UNCHANGED <<watchKey, rows, db, watch, sweep, adoptInFlight>>

\* The port never opens or the process has crashed; the test fails; the test passes.
Verify ==
    /\ ui.at = "verify"
    /\ \/ GoUi("unready")
       \/ proc[ui.pid] = "alive" /\ GoUi("unverified")
       \/ proc[ui.pid] = "alive" /\ GoUi("track")
    /\ UNCHANGED <<proc, entry, watchKey, ours, rows, db, watch, sweep, adoptInFlight>>

\* The user has the process terminated: its registrations are dropped.
GiveUp ==
    /\ ui.at \in {"unready", "unverified"}
    /\ proc' = [proc EXCEPT ![ui.pid] = "dead"]
    /\ entry' = NoEntry
    /\ ours' = ours \ {ui.pid}
    /\ ui' = Idle
    /\ UNCHANGED <<watchKey, rows, db, watch, sweep, adoptInFlight>>

\* It is left alone, unmanaged ...
LeaveUnmanaged ==
    /\ ui.at = "unready"
    /\ entry' = [entry EXCEPT !.in = TRUE, !.running = FALSE]
    /\ ui' = Idle
    /\ UNCHANGED <<proc, watchKey, ours, rows, db, watch, sweep, adoptInFlight>>

\* ... or, if only the test had failed, tracked all the same.
KeepUnverified ==
    /\ ui.at = "unverified"
    /\ GoUi("track")
    /\ UNCHANGED <<proc, entry, watchKey, ours, rows, db, watch, sweep, adoptInFlight>>

Track ==
    /\ ui.at = "track"
    /\ InsertStart(ui.pid)
    /\ Watch(ui.pid, NextRow, "start")
    /\ watchKey' = Len(watch) + 1
    /\ entry' = [entry EXCEPT !.in = TRUE, !.row = NextRow, !.key = Len(watch) + 1]
    /\ ui' = Idle
    /\ UNCHANGED <<proc, ours, db, sweep, adoptInFlight>>

-----------------------------------------------------------------------------
(* stopStandaloneProxy(), on the window's thread.                           *)

StopProxy ==
    /\ ui = Idle /\ entry.running
    /\ ui' = [at |-> "kill", pid |-> entry.pid, key |-> entry.key]
    /\ UNCHANGED <<proc, entry, watchKey, ours, rows, db, watch, sweep, adoptInFlight>>

\* A null handle, a process that is dead already, a refusal: nothing is changed.
KillFails ==
    /\ ui.at = "kill"
    /\ ui' = Idle
    /\ UNCHANGED <<proc, entry, watchKey, ours, rows, db, watch, sweep, adoptInFlight>>

Kill ==
    /\ ui.at = "kill" /\ ui.pid \in Alive
    /\ proc' = [proc EXCEPT ![ui.pid] = "dead"]
    /\ GoUi("erase")
    /\ UNCHANGED <<entry, watchKey, ours, rows, db, watch, sweep, adoptInFlight>>

\* Whatever entry is there now is erased, and the handle is closed.
EraseEntry ==
    /\ ui.at = "erase"
    /\ entry' = NoEntry
    /\ ours' = ours \ {ui.pid}
    /\ watch' = Closed(ui.pid)
    /\ GoUi("join")
    /\ UNCHANGED <<proc, watchKey, rows, db, sweep, adoptInFlight>>

\* unwatch(): the watcher's thread is joined.
JoinWatcher ==
    /\ ui.at = "join"
    /\ ui.key # 0 => watch[ui.key].at \in {"done", "lost"}
    /\ ui' = Idle
    /\ UNCHANGED <<proc, entry, watchKey, ours, rows, db, watch, sweep, adoptInFlight>>

\* switchDatabase(): the registrations are dropped, the watchers go on.
SwitchDatabase ==
    /\ ui = Idle /\ db <= MaxSwitches
    /\ db' = db + 1
    /\ entry' = NoEntry /\ watchKey' = 0
    /\ UNCHANGED <<proc, ours, rows, watch, ui, sweep, adoptInFlight>>

-----------------------------------------------------------------------------
(* A watcher thread, and handleProcessExit().                               *)

GoWatch(k, at) == watch' = [watch EXCEPT ![k].at = at]

\* The wait times out: the heartbeat of a live process is recorded.
WatcherBeats(k) ==
    /\ watch[k].at = "watching" /\ watch[k].pid \in Alive
    /\ GoWatch(k, "busy")
    /\ UNCHANGED <<proc, entry, watchKey, ours, rows, db, ui, sweep, adoptInFlight>>

\* The thread has begun, or the heartbeat is done.  A wait that begins after a stop has
\* closed the handle fails, and the thread ends without a word; a thread that has not
\* begun when unwatch() erases its record ends in the same way.
WatcherWaits(k) ==
    /\ watch[k].at = "busy"
    /\ GoWatch(k, IF watch[k].open THEN "watching" ELSE "lost")
    /\ UNCHANGED <<proc, entry, watchKey, ours, rows, db, ui, sweep, adoptInFlight>>

\* Mutant: unwatch() is looked at before the exit of the process.
WatcherQuits(k) ==
    /\ watch[k].at = "watching" /\ proc[watch[k].pid] = "dead"
    /\ watch' = [watch EXCEPT ![k].at = IF ui.at = "join" /\ ui.key = k THEN "done"
                                       ELSE "exited", ![k].open = FALSE]
    /\ UNCHANGED <<proc, entry, watchKey, ours, rows, db, ui, sweep, adoptInFlight>>

\* The wait reports the exit even when unwatch() has set the wake event too.  From here on
\* the handle is of no use.
WatcherExits(k) ==
    /\ watch[k].at = "watching" /\ proc[watch[k].pid] = "dead"
    /\ watch' = [watch EXCEPT ![k].at = "exited", ![k].open = FALSE]
    /\ UNCHANGED <<proc, entry, watchKey, ours, rows, db, ui, sweep, adoptInFlight>>

\* Only a watcher of a process that was started here looks for a successor, and only
\* while the entry says that the proxy is running.
TakeoverChecks(k) ==
    /\ watch[k].at = "exited"
    /\ watch[k].by = "start" => ~Locked
    /\ GoWatch(k, IF watch[k].by = "start" /\ entry.running THEN "taking" ELSE "notify")
    /\ UNCHANGED <<proc, entry, watchKey, ours, rows, db, ui, sweep, adoptInFlight>>

TakeoverFindsNone(k) ==
    /\ watch[k].at = "taking"
    /\ GoWatch(k, "notify")
    /\ UNCHANGED <<proc, entry, watchKey, ours, rows, db, ui, sweep, adoptInFlight>>

\* The entry's handle is closed.
TakeoverOpens(k) ==
    /\ watch[k].at = "taking" /\ ~Locked
    /\ \E p \in Alive : watch' = [Closed(entry.pid) EXCEPT ![k].to = p, ![k].at = "moved"]
    /\ entry' = [entry EXCEPT !.pid = 0]
    /\ UNCHANGED <<proc, watchKey, ours, rows, db, ui, sweep, adoptInFlight>>

\* A row for the new process; the entry, created again if need be, keeps its old key.
TakeoverEnters(k) ==
    /\ watch[k].at = "moved" /\ ~Locked
    /\ InsertStart(watch[k].to)
    /\ entry' = [entry EXCEPT !.in = TRUE, !.pid = watch[k].to, !.running = TRUE,
                              !.row = NextRow]
    /\ watch' = [watch EXCEPT ![k].next = [row |-> NextRow, db |-> db], ![k].at = "entered"]
    /\ UNCHANGED <<proc, watchKey, ours, db, ui, sweep, adoptInFlight>>

TakeoverWatches(k) ==
    /\ watch[k].at = "entered" /\ ~Locked
    /\ LET next == watch[k].next IN
          watch' = [Append(watch, Watcher(watch[k].to, next.row, next.db, "takeover"))
                       EXCEPT ![k].at = "took"]
    /\ watchKey' = Len(watch) + 1
    /\ UNCHANGED <<proc, entry, ours, rows, db, ui, sweep, adoptInFlight>>

\* The notification comes in any case; the row is not closed after a takeover.
NotifyExit(k) ==
    /\ watch[k].at \in {"notify", "took"} /\ ~Locked
    /\ entry' = [entry EXCEPT !.running = FALSE]
    /\ ours' = IF watch[k].by = "takeover" THEN ours ELSE ours \ {watch[k].pid}
    /\ GoWatch(k, IF watch[k].at = "took" THEN "done" ELSE "finalize")
    /\ UNCHANGED <<proc, watchKey, rows, db, ui, sweep, adoptInFlight>>

FinalizeSession(k) ==
    /\ watch[k].at = "finalize"
    /\ FinalizeStop(watch[k].row)
    /\ GoWatch(k, "done")
    /\ UNCHANGED <<proc, entry, watchKey, ours, db, ui, sweep, adoptInFlight>>

-----------------------------------------------------------------------------
(* adoptDanglingStandaloneProxies(): the processes one after the other.     *)

\* alreadyManaged
Managed == entry.in \/ watchKey # 0
Skipped(p) == Managed /\ p \notin ours

\* Each sweep is a thread of its own; it takes the first free slot here.
FreeSlot(s) == sweep[s].at = "off" /\ \A t \in 1 .. s - 1 : sweep[t].at # "off"

Rescan(s) == sweep' = [sweep EXCEPT ![s] = [NoSweep EXCEPT !.at = "scan", !.todo = sweep[s].todo]]

\* Mutant: a second sweep may begin.
SweepBeginsToo(s) ==
    /\ FreeSlot(s)
    /\ adoptInFlight' = TRUE
    /\ sweep' = [sweep EXCEPT ![s].at = "scan", ![s].todo = Alive]
    /\ UNCHANGED <<proc, entry, watchKey, ours, rows, db, watch, ui>>

SweepBegins(s) ==
    /\ FreeSlot(s) /\ ~adoptInFlight
    /\ adoptInFlight' = TRUE
    /\ sweep' = [sweep EXCEPT ![s].at = "scan", ![s].todo = Alive]
    /\ UNCHANGED <<proc, entry, watchKey, ours, rows, db, watch, ui>>

\* decideAdoptionRoute(): skip, bypass the detection, or detect the port.
SweepRoutes(s) ==
    /\ sweep[s].at = "scan" /\ ~Locked
    /\ \E p \in sweep[s].todo :
          sweep' = [sweep EXCEPT ![s].todo = @ \ {p}, ![s].pid = IF Skipped(p) THEN 0 ELSE p,
                                 ![s].at = IF Skipped(p) THEN "scan"
                                           ELSE IF Managed THEN "bypass" ELSE "detect"]
    /\ UNCHANGED <<proc, entry, watchKey, ours, rows, db, watch, ui, adoptInFlight>>

\* A process of ours that is registered: all it may lack is a row.
SweepRecords(s) ==
    /\ sweep[s].at = "bypass"
    /\ IF FindInProgress(sweep[s].pid) = {} THEN InsertStart(sweep[s].pid)
       ELSE UNCHANGED rows
    /\ Rescan(s)
    /\ UNCHANGED <<proc, entry, watchKey, ours, db, watch, ui, adoptInFlight>>

\* No port is found, or the process cannot be opened.
SweepDiscards(s) ==
    /\ sweep[s].at = "detect"
    /\ Rescan(s)
    /\ UNCHANGED <<proc, entry, watchKey, ours, rows, db, watch, ui, adoptInFlight>>

\* The check is repeated after the detection.
SweepRechecks(s) ==
    /\ sweep[s].at = "detect" /\ ~Locked
    /\ IF Managed THEN Rescan(s) ELSE sweep' = [sweep EXCEPT ![s].at = "adopt"]
    /\ UNCHANGED <<proc, entry, watchKey, ours, rows, db, watch, ui, adoptInFlight>>

SweepWatches(s) ==
    /\ sweep[s].at = "adopt"
    /\ LET p == sweep[s].pid
           found == FindInProgress(p)
           r == IF found = {} THEN NextRow ELSE CHOOSE x \in found : TRUE
       IN /\ IF found = {} THEN InsertStart(p) ELSE UNCHANGED rows
          /\ Watch(p, r, "sweep")
          /\ sweep' = [sweep EXCEPT ![s].row = r, ![s].key = Len(watch) + 1,
                                    ![s].at = "register"]
    /\ UNCHANGED <<proc, entry, watchKey, ours, db, ui, adoptInFlight>>

\* The registration that is there now, if any, is overwritten.
SweepRegisters(s) ==
    /\ sweep[s].at = "register" /\ ~Locked
    /\ entry' = [in |-> TRUE, pid |-> sweep[s].pid, running |-> TRUE,
                 row |-> sweep[s].row, key |-> sweep[s].key]
    /\ watchKey' = sweep[s].key
    /\ Rescan(s)
    /\ UNCHANGED <<proc, ours, rows, db, watch, ui, adoptInFlight>>

SweepEnds(s) ==
    /\ sweep[s].at = "scan" /\ sweep[s].todo = {}
    /\ sweep' = [sweep EXCEPT ![s] = NoSweep]
    /\ adoptInFlight' = FALSE
    /\ UNCHANGED <<proc, entry, watchKey, ours, rows, db, watch, ui>>

-----------------------------------------------------------------------------
(* The processes.                                                           *)

LaunchedElsewhere(p) ==
    /\ proc[p] = "none"
    /\ proc' = [proc EXCEPT ![p] = "alive"]
    /\ UNCHANGED <<entry, watchKey, ours, rows, db, watch, ui, sweep, adoptInFlight>>

ProcessDies(p) ==
    /\ p \in Alive
    /\ proc' = [proc EXCEPT ![p] = "dead"]
    /\ UNCHANGED <<entry, watchKey, ours, rows, db, watch, ui, sweep, adoptInFlight>>

-----------------------------------------------------------------------------

UiProceeds ==
    LaunchFails \/ Launch \/ Verify \/ Track \/ KillFails \/ Kill \/ EraseEntry
        \/ JoinWatcher

WatcherStep(k) ==
    \/ WatcherWaits(k) \/ WatcherExits(k) \/ TakeoverChecks(k) \/ TakeoverFindsNone(k)
    \/ TakeoverOpens(k) \/ TakeoverEnters(k) \/ TakeoverWatches(k) \/ NotifyExit(k) \/ FinalizeSession(k)

SweepStep(s) ==
    \/ SweepBegins(s) \/ SweepRoutes(s) \/ SweepRecords(s) \/ SweepDiscards(s)
    \/ SweepRechecks(s) \/ SweepWatches(s) \/ SweepRegisters(s) \/ SweepEnds(s)

SaNext ==
    \/ StartProxy \/ Consent \/ GiveUp \/ LeaveUnmanaged \/ KeepUnverified \/ StopProxy
    \/ UiProceeds \/ SwitchDatabase
    \/ \E k \in Key : WatcherBeats(k) \/ WatcherStep(k)
    \/ \E s \in Sweeper : SweepStep(s)
    \/ \E p \in Pid : LaunchedElsewhere(p) \/ ProcessDies(p)

\* The window's thread goes on when no dialog is open.  Watcher threads are scheduled and
\* get the mutex in the end: between two clicks of the user it is free for a long time.
SaFairness ==
    /\ WF_saVars(UiProceeds)
    /\ \A p \in Pid : SF_saVars(\E k \in Key : watch[k].pid = p /\ WatcherStep(k))

SaSpec == SaInit /\ [][SaNext]_saVars /\ SaFairness

-----------------------------------------------------------------------------
(* Properties.                                                              *)

\* Sweeps give a process one watcher, and so one row, however many of them are begun
\* at once; only after a switch of the database is a process adopted a second time.
AdoptedOnce ==
    \A j, k \in Key :
        /\ watch[j].by = "sweep" /\ watch[k].by = "sweep"
        /\ watch[j].pid = watch[k].pid /\ watch[j].db = watch[k].db
        => j = k

\* Until the database is switched, a session is closed only when its process is dead,
\* even when an orphan's open row is reused and several processes share the proxy.
LiveSessionStaysOpen ==
    db = 1 => \A r \in DOMAIN rows[1] : rows[1][r].open \/ proc[rows[1][r].pid] = "dead"

\* The row of a session that a watcher was started for is closed after the process has
\* died, also when the stop that killed it unwatches it at once - unless the watcher has
\* taken another process over, the database was switched, or the stop closed the handle
\* before the watcher's thread was back in its wait.
Ended(k) == proc[watch[k].pid] = "dead"
Settled(k) == \/ db # 1 \/ watch[k].to # 0 \/ watch[k].at = "lost"
              \/ ~rows[1][watch[k].row].open

\* And a stop comes to its end: nobody the window's thread waits for is waiting for it.
SessionsEnd ==
    /\ (\E k \in Key : Ended(k) /\ ~Settled(k)) ~> (\A k \in Key : Ended(k) => Settled(k))
    /\ ui.at = "kill" ~> ui = Idle

\* Both safety properties of the sessions: one open row of this start for each process,
\* and none is closed while its process lives (startStandaloneProxy(),
\* stopStandaloneProxy(), handleProcessExit() and the sweeps).
SessionsAreTrue == AdoptedOnce /\ LiveSessionStaysOpen

=============================================================================
