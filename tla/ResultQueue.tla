---------------------------- MODULE ResultQueue ----------------------------
(***************************************************************************)
(* The way of a test result into the database: TestResultQueue             *)
(* (src/include/TestResultQueue.h) as ProxyBatchTester uses it in one run, *)
(* and its callback ProfileExItemDAO::updateTestResultBatch                *)
(* (src/src/ProfileExItemDAO.cpp), which commits a batch in sub-batches on *)
(* the shared connection and is called again for the whole batch when it   *)
(* fails.  Workers enqueue; the flush thread swaps the buffer out at any   *)
(* time (a full batch, the 5 s interval, or stop()); stop() joins it and   *)
(* drains what is left.  Only one of the two threads flushes at a time, so *)
(* there is one flush context.  The order of results inside a batch is     *)
(* left open: no property depends on it.                                   *)
(***************************************************************************)
EXTENDS SharedConnection

CONSTANTS
    SubBatch,      \* SUB_BATCH_SIZE (50 in the code)
    MaxRetries     \* MAX_FLUSH_RETRIES (3 in the code)

ASSUME QueueAssumption ==
    /\ Result \cap Session = {}
    /\ Session \cap {NoOwner, Tester} = {}
    /\ SubBatch \in Nat \ {0}
    /\ MaxRetries \in Nat

VARIABLES
    main,          \* the thread that calls start() and stop()
    running,       \* running_
    flusher,       \* the flush thread
    buffer,        \* buffer_
    batch,         \* the batch inside flushWithRetry(); empty: not flushing
    rest,          \* what this call of the callback has not reached yet
    written,       \* items handled in the current sub-batch
    call,          \* where the callback is
    bad,           \* ~allOk: a statement of the sub-batch failed
    tries,         \* retryCount
    produced,      \* results enqueued so far
    acked,         \* results the queue took as flushed
    dropped,       \* results the queue gave up
    refusals,      \* how often the callback failed for each result
    split,         \* results of a batch that took several sub-batches
    shared         \* results whose batch joined a transaction of others

queueVars == <<main, running, flusher, buffer, produced>>
flushVars == <<batch, rest, written, call, bad, tries>>
ledgerVars == <<acked, dropped, refusals>>
auxVars == <<split, shared>>
vars == <<owner, live, saved, session, queueVars, flushVars, ledgerVars,
          auxVars>>

TypeOK ==
    /\ owner \in Session \cup {NoOwner, Tester}
    /\ live \in [Row -> Nat] /\ saved \in [Row -> Nat]
    /\ session \in [Session -> SessionPc]
    /\ main \in {"new", "working", "stopping", "draining", "stopped"}
    /\ running \in BOOLEAN
    /\ flusher \in {"none", "waiting", "checking", "leaving", "exited"}
    /\ buffer \subseteq Result /\ batch \subseteq Result /\ rest \subseteq batch
    /\ written \in 0 .. SubBatch
    /\ call \in {"idle", "begin", "write", "end"}
    /\ bad \in BOOLEAN
    /\ tries \in 0 .. MaxRetries
    /\ produced \subseteq Result
    /\ acked \subseteq Result /\ dropped \subseteq Result
    /\ refusals \in [Result -> 0 .. MaxRetries + 1]
    /\ split \subseteq Result /\ shared \subseteq Result

Init ==
    /\ ConnInit
    /\ main = "new" /\ running = FALSE /\ flusher = "none"
    /\ buffer = {} /\ batch = {} /\ rest = {}
    /\ written = 0 /\ call = "idle" /\ bad = FALSE /\ tries = 0
    /\ produced = {} /\ acked = {} /\ dropped = {}
    /\ refusals = [r \in Result |-> 0]
    /\ split = {} /\ shared = {}

-----------------------------------------------------------------------------
(* The queue: start(), enqueue(), flushLoop(), stop().                      *)

Start ==
    /\ main = "new"
    /\ main' = "working" /\ running' = TRUE /\ flusher' = "waiting"
    /\ UNCHANGED <<connVars, session, buffer, produced, flushVars, ledgerVars,
                   auxVars>>

\* A worker of the batch; all of them are joined before stop().
Enqueue(r) ==
    /\ main = "working" /\ r \notin produced
    /\ produced' = produced \cup {r}
    /\ buffer' = buffer \cup {r}
    /\ UNCHANGED <<connVars, session, main, running, flusher, flushVars,
                   ledgerVars, auxVars>>

Flushing == call # "idle"

\* Mutant: the buffer is copied, not swapped.
TakeCopies ==
    /\ ~Flushing
    /\ batch' = buffer /\ rest' = buffer /\ UNCHANGED buffer
    /\ call' = IF buffer = {} THEN "idle" ELSE "begin"
    /\ UNCHANGED <<connVars, session, running, produced, written, bad, tries,
                   ledgerVars, auxVars>>

\* Under mutex_ the buffer is swapped out; an empty one is not flushed.
Take ==
    /\ ~Flushing
    /\ batch' = buffer /\ rest' = buffer /\ buffer' = {}
    /\ call' = IF buffer = {} THEN "idle" ELSE "begin"
    /\ UNCHANGED <<connVars, session, running, produced, written, bad, tries,
                   ledgerVars, auxVars>>

\* The wait has a predicate and a time limit: it may end at any moment.
WaitOver ==
    /\ flusher = "waiting"
    /\ Take
    /\ flusher' = "checking"
    /\ UNCHANGED main

\* running_ is read without the lock, after the flush.
LoopAgain ==
    /\ flusher = "checking" /\ ~Flushing /\ running
    /\ flusher' = "waiting"
    /\ UNCHANGED <<connVars, session, main, running, buffer, produced,
                   flushVars, ledgerVars, auxVars>>

LastFlush ==
    /\ flusher = "checking" /\ ~running
    /\ Take
    /\ flusher' = "leaving"
    /\ UNCHANGED main

FlusherExits ==
    /\ flusher = "leaving" /\ ~Flushing
    /\ flusher' = "exited"
    /\ UNCHANGED <<connVars, session, main, running, buffer, produced,
                   flushVars, ledgerVars, auxVars>>

Stop ==
    /\ main = "working"
    /\ main' = "stopping" /\ running' = FALSE
    /\ UNCHANGED <<connVars, session, flusher, buffer, produced, flushVars,
                   ledgerVars, auxVars>>

\* Mutant: stop() does not join the flush thread before its own drain.
StopWithoutJoin ==
    /\ main = "stopping"
    /\ main' = "draining"
    /\ UNCHANGED <<connVars, session, running, flusher, buffer, produced,
                   flushVars, ledgerVars, auxVars>>

\* stop() has joined the flush thread and drains once more: flushBatch().
Joined ==
    /\ main = "stopping" /\ flusher = "exited"
    /\ Take
    /\ main' = "draining"
    /\ UNCHANGED flusher

Stopped ==
    /\ main = "draining" /\ ~Flushing
    /\ main' = "stopped"
    /\ UNCHANGED <<connVars, session, running, flusher, buffer, produced,
                   flushVars, ledgerVars, auxVars>>

-----------------------------------------------------------------------------
(* flushWithRetry() around updateTestResultBatch().                         *)

Idle ==
    /\ batch' = {} /\ rest' = {} /\ written' = 0
    /\ call' = "idle" /\ bad' = FALSE /\ tries' = 0

Refused(r) == refusals[r] + (IF r \in batch THEN 1 ELSE 0)

\* Again(t): the callback is called again for the whole batch.
Again(t) ==
    /\ tries' = t
    /\ call' = "begin" /\ bad' = FALSE /\ written' = 0 /\ rest' = batch
    /\ UNCHANGED <<batch, dropped>>

GiveUp == dropped' = dropped \cup batch /\ Idle

\* Mutants: one call too many, the last retry given away, no limit at all.
RefuseOnceMore ==
    /\ refusals' = [r \in Result |-> Refused(r)]
    /\ IF tries <= MaxRetries THEN Again(tries + 1) ELSE GiveUp
    /\ UNCHANGED acked
RefuseTooEarly ==
    /\ refusals' = [r \in Result |-> Refused(r)]
    /\ IF tries + 1 < MaxRetries THEN Again(tries + 1) ELSE GiveUp
    /\ UNCHANGED acked
RefuseForever == Again(tries) /\ UNCHANGED <<acked, refusals>>

\* The callback returned false (or threw): back off and repeat the whole batch,
\* or give it up after the last retry.
Refuse ==
    /\ refusals' = [r \in Result |-> Refused(r)]
    /\ IF tries < MaxRetries THEN Again(tries + 1) ELSE GiveUp
    /\ UNCHANGED acked

Accept ==
    /\ acked' = acked \cup batch
    /\ Idle
    /\ UNCHANGED <<dropped, refusals>>

\* Mutant: BEGIN succeeded, a prepare failed, and nothing rolls back.
SubBatchBeginLeaks ==
    /\ call = "begin"
    /\ \/ /\ \/ Begin(Tester) /\ UNCHANGED shared
             \/ /\ owner # NoOwner
                /\ shared' = shared \cup batch
                /\ UNCHANGED connVars
          /\ call' = "write"
          /\ UNCHANGED <<batch, rest, written, bad, tries, ledgerVars>>
       \/ Begin(Tester) /\ Refuse /\ UNCHANGED shared
    /\ UNCHANGED <<session, queueVars, split>>

\* The head of a sub-batch: begin a transaction, or write into the open one; or
\* BEGIN or a prepare fails, which leaves no transaction behind.
SubBatchBegin ==
    /\ call = "begin"
    /\ \/ /\ \/ Begin(Tester) /\ UNCHANGED shared
             \/ /\ owner # NoOwner
                /\ shared' = shared \cup batch
                /\ UNCHANGED connVars
          /\ call' = "write"
          /\ UNCHANGED <<batch, rest, written, bad, tries, ledgerVars>>
       \/ Refuse /\ UNCHANGED <<connVars, shared>>
    /\ UNCHANGED <<session, queueVars, split>>

\* One result: its insert succeeds, or fails and spoils the sub-batch.
WriteItem ==
    /\ call = "write"
    /\ \E r \in rest :
          /\ \/ Put(r) /\ UNCHANGED bad
             \/ bad' = TRUE /\ UNCHANGED connVars
          /\ rest' = rest \ {r}
          /\ call' = IF written + 1 = SubBatch \/ rest' = {} THEN "end"
                     ELSE "write"
    /\ written' = written + 1
    /\ UNCHANGED <<session, queueVars, batch, tries, ledgerVars, auxVars>>

\* Mutant: allOk is not looked at before COMMIT.
SubBatchEndIgnoresErrors ==
    /\ call = "end"
    /\ IF owner = Tester THEN Commit ELSE UNCHANGED connVars
    /\ IF rest = {} THEN Accept /\ UNCHANGED split
       ELSE /\ call' = "begin" /\ written' = 0 /\ bad' = FALSE
            /\ split' = split \cup batch
            /\ UNCHANGED <<batch, rest, tries, ledgerVars>>
    /\ UNCHANGED <<session, queueVars, shared>>

\* The end of a sub-batch: roll back what failed, commit what succeeded (or fail
\* to), each only in a transaction of its own, and go on with the next one.
SubBatchEnd ==
    /\ call = "end"
    /\ \/ /\ bad \/ owner = Tester
          /\ IF owner = Tester THEN Rollback ELSE UNCHANGED connVars
          /\ Refuse
          /\ UNCHANGED split
       \/ /\ ~bad
          /\ IF owner = Tester THEN Commit ELSE UNCHANGED connVars
          /\ IF rest = {} THEN Accept /\ UNCHANGED split
             ELSE /\ call' = "begin" /\ written' = 0
                  /\ split' = split \cup batch
                  /\ UNCHANGED <<batch, rest, bad, tries, ledgerVars>>
    /\ UNCHANGED <<session, queueVars, shared>>

-----------------------------------------------------------------------------

HistoryStep(s) ==
    /\ SessionStep(s)
    /\ UNCHANGED <<queueVars, flushVars, ledgerVars, auxVars>>

FlushStep == SubBatchBegin \/ WriteItem \/ SubBatchEnd
FlusherStep == WaitOver \/ LoopAgain \/ LastFlush \/ FlusherExits
StopStep == Joined \/ Stopped

Terminated ==
    /\ main = "stopped" /\ \A s \in Session : session[s] \in {"ok", "failed"}
    /\ UNCHANGED vars

Next ==
    \/ Start \/ Stop \/ StopStep
    \/ \E r \in Result : Enqueue(r)
    \/ FlusherStep
    \/ FlushStep
    \/ \E s \in Session : HistoryStep(s)
    \/ Terminated

Spec == Init /\ [][Next]_vars

\* The flush thread and the thread in stop() keep running.
FairSpec == Spec /\ WF_vars(FlusherStep) /\ WF_vars(FlushStep) /\ WF_vars(StopStep)

-----------------------------------------------------------------------------
(* Properties.                                                              *)

\* No result is lost between the buffer, the batch being flushed and the
\* verdict of the queue, and none is in two of these places.
InOnePlace ==
    /\ produced = buffer \cup batch \cup acked \cup dropped
    /\ buffer \cap batch = {} /\ acked \cap dropped = {}
    /\ (buffer \cup batch) \cap (acked \cup dropped) = {}

\* When stop() returns, nothing is pending: the flush thread is gone and every
\* result that was enqueued has been flushed or given up.
DrainedByStop ==
    main = "stopped" =>
        flusher = "exited" /\ ~Flushing /\ produced = acked \cup dropped

\* A transaction is open only while the call that began it is still going to
\* end it: no path through either DAO leaves one behind on the connection.
TransactionHasOwner ==
    /\ owner = Tester => call \in {"write", "end"}
    /\ \A s \in Session :
          owner = s => session[s] \in {"detail", "aggregate", "end", "undo"}

\* Only results that the database refused on every attempt are given up.
DroppedWasRefused == \A r \in dropped : refusals[r] = MaxRetries + 1

\* A flushed result is committed, and a batch that fits into one sub-batch is
\* committed exactly once if flushed and not at all if given up - as long as the
\* batch did not write into a transaction that belongs to somebody else.
VerdictIsDurable ==
    /\ \A r \in acked \ shared :
          saved[r] >= 1 /\ (r \notin split => saved[r] = 1)
    /\ \A r \in dropped \ (shared \cup split) : saved[r] = 0

\* stop() returns, however often the database refuses.
StopReturns == main = "stopping" ~> main = "stopped"

\* "detail-row write and the aggregate update always happen inside ONE
\* transaction" (ProxyRuntimeHistory.h): no committed state has one only.
DetailAndAggregateTogether == \A s \in Session : saved[s] # 1

DeliveryState ==
    [r \in Result |->
        CASE r \in acked -> "delivered"
          [] r \in dropped -> "writtenOff"
          [] r \in produced \ (acked \cup dropped) -> "pending"
          [] OTHER -> "unborn"]

Delivery == INSTANCE ResultDelivery
              WITH state <- DeliveryState, closed <- (main = "stopped")

\* The queue implements the delivery promise.
ImplementsDelivery == Delivery!Spec

=============================================================================
