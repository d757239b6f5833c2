-------------------------- MODULE SharedConnection --------------------------
(***************************************************************************)
(* The one SQLite connection (db_) that the batch tester's flush thread    *)
(* and the writers of the runtime history share.  SQLite serializes single *)
(* calls on it; a transaction belongs to the connection, not to the thread *)
(* that opened it.  Every writer asks sqlite3_get_autocommit() first:      *)
(* whoever finds no transaction begins one and ends it, everybody else     *)
(* writes into the open one and leaves COMMIT and ROLLBACK to its owner.   *)
(*                                                                         *)
(* The history writers are calls of ProxyRuntimeHistoryDAO (insertStart    *)
(* and finalizeStop, src/src/ProxyRuntimeHistory.cpp), made by the UI      *)
(* thread and by the process watchers while a batch is being tested.       *)
(***************************************************************************)
EXTENDS Integers

CONSTANTS
    Result,        \* the test results of a run
    Session        \* calls of insertStart() or finalizeStop()

Row == Result \cup Session
NoOwner == "autocommit"
Tester == "tester"     \* updateTestResultBatch, under dbMutex_

VARIABLES
    owner,         \* who began the open transaction
    live,          \* how many writes of each row the connection sees
    saved,         \* how many of them are committed
    session        \* where each call of the history DAO is

connVars == <<owner, live, saved>>

\* COMMIT, ROLLBACK and one write, for a caller that may issue them.
Begin(c) == owner = NoOwner /\ owner' = c /\ UNCHANGED <<live, saved>>
Commit == saved' = live /\ owner' = NoOwner /\ UNCHANGED live
Rollback == live' = saved /\ owner' = NoOwner /\ UNCHANGED saved
Put(x) ==
    /\ live' = [live EXCEPT ![x] = @ + 1]
    /\ saved' = IF owner = NoOwner THEN live' ELSE saved
    /\ UNCHANGED owner

ConnInit ==
    /\ owner = NoOwner
    /\ live = [x \in Row |-> 0]
    /\ saved = [x \in Row |-> 0]
    /\ session = [s \in Session |-> "new"]

-----------------------------------------------------------------------------
(* insertStart() / finalizeStop(): the detail row, then the aggregate.      *)

SessionPc == {"new", "detail", "aggregate", "end", "undo", "ok", "failed"}

GoSession(s, l) == session' = [session EXCEPT ![s] = l]

\* Join an open transaction, begin one, or fail to begin one.
SessionBegin(s) ==
    /\ session[s] = "new"
    /\ \/ owner # NoOwner /\ GoSession(s, "detail") /\ UNCHANGED connVars
       \/ Begin(s) /\ GoSession(s, "detail")
       \/ owner = NoOwner /\ GoSession(s, "failed") /\ UNCHANGED connVars

\* The detail row is written, or the statement fails (or finds no row), or the
\* session was finalized before and the call has nothing to do.
SessionDetail(s) ==
    /\ session[s] = "detail"
    /\ \/ Put(s) /\ GoSession(s, "aggregate")
       \/ GoSession(s, "undo") /\ UNCHANGED connVars
       \/ GoSession(s, "end") /\ UNCHANGED connVars

SessionAggregate(s) ==
    /\ session[s] = "aggregate"
    /\ \/ Put(s) /\ GoSession(s, "end")
       \/ GoSession(s, "undo") /\ UNCHANGED connVars

\* Only the call that began the transaction commits it.
SessionEnd(s) ==
    /\ session[s] = "end"
    /\ \/ owner # s /\ GoSession(s, "ok") /\ UNCHANGED connVars
       \/ owner = s /\ Commit /\ GoSession(s, "ok")
       \/ owner = s /\ Rollback /\ GoSession(s, "failed")    \* COMMIT failed

SessionUndo(s) ==
    /\ session[s] = "undo"
    /\ IF owner = s THEN Rollback ELSE UNCHANGED connVars
    /\ GoSession(s, "failed")

SessionStep(s) ==
    \/ SessionBegin(s) \/ SessionDetail(s) \/ SessionAggregate(s)
    \/ SessionEnd(s) \/ SessionUndo(s)

=============================================================================
