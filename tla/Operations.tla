----------------------------- MODULE Operations -----------------------------
(***************************************************************************)
(* Who works with the database of the running window                       *)
(* (src/src/ui/AppController.cpp, src/include/ui/AsyncOperationGuard.h,    *)
(* src/include/DatabaseSwitchPolicy.h, src/src/ui/MainFrame.cpp): at most  *)
(* one user operation on the worker thread, the periodic silent probe on a *)
(* thread of its own, deduplications on threads that nobody counts, and    *)
(* the window's thread, which can replace the database and shut the        *)
(* program down.  One flag, cancelRequested_, stops the operation and the  *)
(* probe.                                                                  *)
(***************************************************************************)
EXTENDS Naturals, Sequences

CONSTANTS
    Path,        \* database files the user may choose
    MaxConns     \* bound: connections that are opened

ASSUME OperationsAssumption == Path # {} /\ MaxConns \in Nat \ {0}

VARIABLES
    isRunning, onlineProbeRunning, cancelRequested,
    worker,      \* workerThread_: not joinable, at work, or ended; its connection
    probe,       \* probeThread_, likewise; late: it began behind the save error
    dedups,      \* the connections deduplications are at work on
    conns,       \* every connection opened so far
    handle,      \* db_; 0 when the controller is gone
    retired,     \* retiredDbHandles_
    paths,       \* config_.database_path of the controller and of the frame
    window       \* what the window's thread is doing

opVars == <<isRunning, onlineProbeRunning, cancelRequested, worker, probe, dedups,
            conns, handle, retired, paths, window>>

flags == <<isRunning, onlineProbeRunning, cancelRequested>>
threads == <<worker, probe, dedups>>
database == <<conns, handle, retired, paths>>

NoThread == [at |-> "none", conn |-> 0, late |-> FALSE]
UiIdle == [at |-> "idle", to |-> "none", decision |-> "Allow"]

Conn == DOMAIN conns
InUse(c) ==
    \/ worker.at = "work" /\ worker.conn = c
    \/ probe.at = "work" /\ probe.conn = c
    \/ c \in dedups

OpTypeOK ==
    /\ isRunning \in BOOLEAN /\ onlineProbeRunning \in BOOLEAN
    /\ cancelRequested \in BOOLEAN
    /\ \A t \in {worker, probe} :
          /\ t.at \in {"none", "work", "ended"}
          /\ t.conn \in Conn \cup {0} /\ t.late \in BOOLEAN
    /\ dedups \subseteq Conn
    /\ \A c \in Conn : conns[c].path \in Path /\ conns[c].open \in BOOLEAN
    /\ handle \in Conn \cup {0} /\ retired \subseteq Conn \ {handle}
    /\ \A c \in (retired \cup {handle}) \ {0} : conns[c].open
    /\ paths \in [controller : Path, frame : Path]
    /\ window.at \in {"idle", "manual", "message", "quiesce", "switch", "closing", "closed"}
    /\ window.decision \in {"Allow", "QuiesceProbe", "RefuseUserOperation"}

OpInit ==
    /\ isRunning = FALSE /\ onlineProbeRunning = FALSE /\ cancelRequested = FALSE
    /\ worker = NoThread /\ probe = NoThread /\ dedups = {}
    /\ \E f \in Path :
          /\ conns = <<[path |-> f, open |-> TRUE]>>
          /\ paths = [controller |-> f, frame |-> f]
    /\ handle = 1 /\ retired = {}
    /\ window = UiIdle

-----------------------------------------------------------------------------
(* User operations, under the guard; the guard joins a thread that has     *)
(* ended and rejects the operation while one is running.                   *)

AtWork == [at |-> "work", conn |-> handle, late |-> FALSE]

BeginOperation ==
    /\ ~isRunning
    /\ worker' = AtWork
    /\ isRunning' = TRUE /\ cancelRequested' = FALSE

StartOperation ==
    /\ window.at = "idle"
    /\ BeginOperation
    /\ UNCHANGED <<onlineProbeRunning, probe, dedups, database, window>>

\* An operation ends by itself, with an error, or because it finds the cancel flag set;
\* the scope guard then resets isRunning_, whatever the outcome.
OperationEnds ==
    /\ worker.at = "work"
    /\ worker' = [worker EXCEPT !.at = "ended"]
    /\ isRunning' = FALSE
    /\ UNCHANGED <<onlineProbeRunning, cancelRequested, probe, dedups, database, window>>

\* cancelTest(): the Cancel button.
CancelTest ==
    /\ window.at = "idle" /\ ~cancelRequested
    /\ cancelRequested' = TRUE
    /\ UNCHANGED <<isRunning, onlineProbeRunning, threads, database, window>>

-----------------------------------------------------------------------------
(* The periodic silent probe.  Its timer also fires while a message box is *)
(* open.                                                                   *)

\* Mutant: the probe does not look for a running operation.
SilentProbeAnyhow ==
    /\ window.at \in {"idle", "message"}
    /\ ~onlineProbeRunning
    /\ onlineProbeRunning' = TRUE /\ cancelRequested' = FALSE
    /\ probe' = [AtWork EXCEPT !.late = window.at = "message"]
    /\ UNCHANGED <<isRunning, worker, dedups, database, window>>

\* testOnlineProxiesAsync(silent): skipped while anything is running; a probe that has
\* ended is joined.
SilentProbe ==
    /\ window.at \in {"idle", "message"}
    /\ ~isRunning /\ ~onlineProbeRunning
    /\ onlineProbeRunning' = TRUE /\ cancelRequested' = FALSE
    /\ probe' = [AtWork EXCEPT !.late = window.at = "message"]
    /\ UNCHANGED <<isRunning, worker, dedups, database, window>>

ProbeEnds ==
    /\ probe.at = "work"
    /\ probe' = [probe EXCEPT !.at = "ended"]
    /\ onlineProbeRunning' = FALSE
    /\ UNCHANGED <<isRunning, cancelRequested, worker, dedups, database, window>>

\* Mutant: the window waits for the probe without asking it to stop.
ManualProbeWaits ==
    /\ window.at = "idle" /\ ~isRunning
    /\ IF probe.at = "none"
       THEN BeginOperation /\ UNCHANGED window
       ELSE /\ window' = [UiIdle EXCEPT !.at = "manual"]
            /\ UNCHANGED <<isRunning, worker, cancelRequested>>
    /\ UNCHANGED <<onlineProbeRunning, probe, dedups, database>>

\* The online test that the user asks for: refused by the panel while an operation is
\* running, it has the probe stopped first and waits for it.
ManualProbe ==
    /\ window.at = "idle" /\ ~isRunning
    /\ IF probe.at = "none"
       THEN BeginOperation /\ UNCHANGED window
       ELSE /\ cancelRequested' = TRUE
            /\ window' = [UiIdle EXCEPT !.at = "manual"]
            /\ UNCHANGED <<isRunning, worker>>
    /\ UNCHANGED <<onlineProbeRunning, probe, dedups, database>>

ManualProbeGoesOn ==
    /\ window.at = "manual" /\ probe.at = "ended"
    /\ probe' = NoThread
    /\ BeginOperation
    /\ window' = UiIdle
    /\ UNCHANGED <<onlineProbeRunning, dedups, database>>

-----------------------------------------------------------------------------
(* onMenuDedup(): a detached thread, without the guard.                     *)

StartDedup ==
    /\ window.at = "idle" /\ dedups = {}
    /\ dedups' = {handle}
    /\ UNCHANGED <<flags, worker, probe, database, window>>

DedupEnds ==
    /\ dedups # {}
    /\ dedups' = {}
    /\ UNCHANGED <<flags, worker, probe, database, window>>

-----------------------------------------------------------------------------
(* onMenuConfig(): OK in the configuration dialog.                          *)

\* Mutant: a running probe does not matter.
decideUserOnly(userOperation, probeRunning) ==
    IF userOperation THEN "RefuseUserOperation" ELSE "Allow"

\* db_switch_policy::decide()
decide(userOperation, probeRunning) ==
    IF userOperation THEN "RefuseUserOperation"
    ELSE IF probeRunning THEN "QuiesceProbe" ELSE "Allow"

\* The configuration is not saved while an operation is running; otherwise it is, with
\* the new path, before the database is switched.  When the file cannot be written a
\* message box is shown, and the decision is the one made before it.
SaveConfig ==
    /\ window.at = "idle" /\ ~isRunning
    /\ \E f \in Path, at \in {"message", "quiesce"} :
          LET changed == f # paths.frame
              decision == IF changed THEN decide(isRunning, onlineProbeRunning)
                          ELSE "Allow"
          IN  /\ decision # "RefuseUserOperation"
              /\ paths' = [controller |-> f, frame |-> f]
              /\ window' = IF changed
                       THEN [at |-> at, to |-> paths.frame, decision |-> decision]
                       ELSE UiIdle
    /\ UNCHANGED <<flags, threads, conns, handle, retired>>

MessageClosed ==
    /\ window.at = "message"
    /\ window' = [window EXCEPT !.at = "quiesce"]
    /\ UNCHANGED <<flags, threads, database>>

\* quiesceOnlineProbe(), if that was the decision: the probe is told to stop ...
Quiesce ==
    /\ window.at = "quiesce"
    /\ \/ window.decision = "Allow" /\ UNCHANGED <<onlineProbeRunning, cancelRequested>>
       \/ /\ window.decision = "QuiesceProbe"
          /\ IF probe.at = "none"
             THEN onlineProbeRunning' = FALSE /\ UNCHANGED cancelRequested
             ELSE cancelRequested' = TRUE /\ UNCHANGED onlineProbeRunning
    /\ window' = [window EXCEPT !.at = "switch"]
    /\ UNCHANGED <<isRunning, threads, database>>

\* sqlite3_close() refuses a connection with a statement in progress; a user who is
\* between two statements does not keep it from being closed.
Busy(cs) == SUBSET {c \in cs : InUse(c)}

CloseConns(cs) ==
    [c \in Conn |-> IF c \in cs THEN [conns[c] EXCEPT !.open = FALSE] ELSE conns[c]]

\* ... and joined, before switchDatabase().  When the new file cannot be opened only
\* the controller's path is restored.  Handles replaced earlier are tried again.
SwitchDatabaseNow ==
    /\ window.at = "switch"
    /\ window.decision = "QuiesceProbe" => probe.at # "work"
    /\ IF window.decision = "QuiesceProbe"
       THEN /\ probe' = NoThread /\ onlineProbeRunning' = FALSE
            /\ cancelRequested' = (probe.at = "none" /\ cancelRequested)
       ELSE UNCHANGED <<probe, onlineProbeRunning, cancelRequested>>
    /\ \/ /\ retired' \in Busy(retired)
          /\ conns' = CloseConns(retired \ retired')
          /\ paths' = [paths EXCEPT !.controller = window.to]
          /\ UNCHANGED handle
       \/ /\ Len(conns) < MaxConns
          /\ retired' \in Busy(retired \cup {handle})
          /\ conns' = Append(CloseConns((retired \cup {handle}) \ retired'),
                             [path |-> paths.frame, open |-> TRUE])
          /\ handle' = Len(conns) + 1
          /\ UNCHANGED paths
    /\ window' = UiIdle
    /\ UNCHANGED <<isRunning, worker, dedups>>

-----------------------------------------------------------------------------
(* ~MainFrame() and ~AppController().                                       *)

Close ==
    /\ window.at = "idle"
    /\ cancelRequested' = TRUE
    /\ window' = [UiIdle EXCEPT !.at = "closing"]
    /\ UNCHANGED <<isRunning, onlineProbeRunning, threads, database>>

\* Both threads are joined before the handles are closed.
Destroyed ==
    /\ window.at = "closing" /\ worker.at # "work" /\ probe.at # "work"
    /\ worker' = NoThread /\ probe' = NoThread
    /\ retired' \in Busy(retired \cup {handle})
    /\ conns' = CloseConns((retired \cup {handle}) \ retired')
    /\ handle' = 0
    /\ window' = [window EXCEPT !.at = "closed"]
    /\ UNCHANGED <<flags, dedups, paths>>

-----------------------------------------------------------------------------

OpNext ==
    \/ StartOperation \/ OperationEnds \/ CancelTest
    \/ SilentProbe \/ ProbeEnds \/ ManualProbe \/ ManualProbeGoesOn
    \/ StartDedup \/ DedupEnds
    \/ SaveConfig \/ MessageClosed \/ Quiesce \/ SwitchDatabaseNow
    \/ Close \/ Destroyed

\* The operation and the probe poll the flag between two items of work; how long the
\* list of items is, and so when they end by themselves, is not known.  The window's
\* thread goes on when what it waits for has happened.
OpFairness ==
    /\ WF_opVars(cancelRequested /\ OperationEnds)
    /\ WF_opVars(cancelRequested /\ ProbeEnds)
    /\ WF_opVars(ManualProbeGoesOn \/ Quiesce \/ SwitchDatabaseNow \/ Destroyed)

OpSpec == OpInit /\ [][OpNext]_opVars /\ OpFairness

-----------------------------------------------------------------------------
(* Properties.                                                              *)

\* The operation never finds its connection closed, and no more does the probe - unless
\* it was begun while the message about the failed save was open: it is then running
\* although the decision to switch was made when no probe was.
HandlesInUse ==
    \A t \in {worker, probe} : t.at = "work" /\ ~t.late => conns[t.conn].open

\* Once the user has pressed Cancel the operation comes to its end: no probe that is
\* begun, stopped or waited for meanwhile takes the request back.  And whatever the
\* window's thread waits for - a probe to stop, the threads to end - it has asked for,
\* and gets.
RequestsAreMet ==
    /\ (worker.at = "work" /\ cancelRequested) ~> worker.at # "work"
    /\ window.at \in {"manual", "quiesce", "switch", "closing"}
          ~> window.at \in {"idle", "closed"}

=============================================================================
