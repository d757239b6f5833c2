------------------------ MODULE ResultQueue_proofs ------------------------
(* Theorems about ResultQueue for any results, sub-batch size, retry limit  *)
(* and number of concurrent history writers.                                *)
EXTENDS ResultQueue, TLAPS

-----------------------------------------------------------------------------
(* The inductive invariant, besides the properties themselves.              *)

\* Which thread is where: the flush thread lives between start() and stop(),
\* and nothing is enqueued after it took the buffer for the last time.
Threads ==
    /\ running <=> main = "working"
    /\ main = "new" <=> flusher = "none"
    /\ main \in {"draining", "stopped"} => flusher = "exited"
    /\ flusher \in {"leaving", "exited"} => ~running /\ buffer = {}
    /\ flusher \in {"none", "waiting"} => ~Flushing
    /\ flusher = "exited" /\ main # "draining" => ~Flushing

\* The callback runs exactly while there is a batch.
Calls ==
    /\ Flushing <=> batch # {}
    /\ ~Flushing => tries = 0 /\ written = 0
    /\ call \in {"idle", "begin"} => ~bad /\ written = 0
    /\ call \in {"begin", "write"} => rest # {}
    /\ call = "write" => written < SubBatch
    /\ call = "end" => rest # batch

\* A result was refused as often as its batch was retried.
Refusals ==
    /\ \A r \in batch : refusals[r] = tries
    /\ \A r \in Result \ (batch \cup acked \cup dropped) : refusals[r] = 0
    /\ DroppedWasRefused

\* What the connection sees of a result is committed, except while its batch is
\* being written; then the transaction is the batch's own.
Durable ==
    /\ \A x \in Row : live[x] >= saved[x]
    /\ \A r \in Result \ shared :
          /\ r \notin batch \/ call = "begin" => live[r] = saved[r]
          /\ r \in batch /\ call \in {"write", "end"} => owner = Tester
          /\ r \in acked => saved[r] >= 1
          /\ r \in batch \ rest => bad \/ live[r] >= 1
          /\ r \notin split =>
                /\ saved[r] = IF r \in acked THEN 1 ELSE 0
                /\ r \in rest => live[r] = 0
                /\ r \in batch => live[r] <= 1

Queue ==
    /\ TypeOK /\ InOnePlace /\ Threads /\ Calls /\ TransactionHasOwner
    /\ Refusals /\ Durable

USE QueueAssumption DEF Flushing, NoOwner, Tester, Row

\* TypeOK in parts, which the provers take one at a time.
ConnType ==
    /\ owner \in Session \cup {NoOwner, Tester}
    /\ live \in [Row -> Nat] /\ saved \in [Row -> Nat]
    /\ session \in [Session -> SessionPc]

ThreadType ==
    /\ main \in {"new", "working", "stopping", "draining", "stopped"}
    /\ running \in BOOLEAN
    /\ flusher \in {"none", "waiting", "checking", "leaving", "exited"}
    /\ call \in {"idle", "begin", "write", "end"}
    /\ bad \in BOOLEAN

ItemType ==
    /\ buffer \subseteq Result /\ batch \subseteq Result /\ rest \subseteq batch
    /\ produced \subseteq Result
    /\ acked \subseteq Result /\ dropped \subseteq Result
    /\ split \subseteq Result /\ shared \subseteq Result

CountType == written \in 0 .. SubBatch /\ tries \in 0 .. MaxRetries

RefusalType == refusals \in [Result -> 0 .. MaxRetries + 1]

LEMMA QueueInit == Init => Queue
<1> SUFFICES ASSUME Init PROVE Queue
  OBVIOUS
<1>1. TypeOK
  <2>1. ConnType
    BY DEF Init, ConnInit, ConnType, SessionPc
  <2>2. ThreadType
    BY DEF Init, ThreadType
  <2>3. ItemType
    BY DEF Init, ItemType
  <2>4. CountType
    BY DEF Init, CountType
  <2>5. RefusalType
    BY DEF Init, RefusalType
  <2> QED
    BY <2>1, <2>2, <2>3, <2>4, <2>5
       DEF TypeOK, ConnType, ThreadType, ItemType, CountType, RefusalType
<1>2. InOnePlace /\ Threads /\ Calls /\ TransactionHasOwner
  BY DEF Init, ConnInit, InOnePlace, Threads, Calls, TransactionHasOwner
<1>3. Refusals
  BY DEF Init, Refusals, DroppedWasRefused
<1>4. Durable
  BY DEF Init, ConnInit, Durable
<1> QED
  BY <1>1, <1>2, <1>3, <1>4 DEF Queue

-----------------------------------------------------------------------------
(* One lemma per group of actions; each conjunct of Queue is a step.        *)

LEMMA StartQueue ==
    ASSUME Queue, Start
    PROVE  Queue'
<1> USE DEF Queue, Start, queueVars, flushVars, ledgerVars, auxVars, connVars
<1>1. TypeOK'
  <2>1. ConnType'
    BY DEF TypeOK, ConnType, SessionPc
  <2>2. ThreadType'
    BY DEF TypeOK, ThreadType
  <2>3. ItemType'
    BY DEF TypeOK, ItemType
  <2>4. CountType'
    BY DEF TypeOK, CountType, Calls
  <2>5. RefusalType'
    BY DEF TypeOK, RefusalType, Refusals
  <2> QED
    BY <2>1, <2>2, <2>3, <2>4, <2>5
       DEF TypeOK, ConnType, ThreadType, ItemType, CountType, RefusalType
<1>2. InOnePlace'
  BY DEF TypeOK, InOnePlace, Threads, Calls
<1>3. Threads'
  BY DEF TypeOK, Threads, Calls
<1>4. Calls'
  BY DEF TypeOK, Calls, Threads
<1>5. TransactionHasOwner'
  BY DEF TypeOK, TransactionHasOwner, Calls, Threads
<1>6. Refusals'
  BY DEF TypeOK, InOnePlace, Refusals, DroppedWasRefused, Calls
<1>7. Durable'
  BY DEF TypeOK, InOnePlace, Threads, Calls, TransactionHasOwner, Durable
<1> QED
  BY <1>1, <1>2, <1>3, <1>4, <1>5, <1>6, <1>7

LEMMA EnqueueQueue ==
    ASSUME Queue, NEW r \in Result, Enqueue(r)
    PROVE  Queue'
<1> USE DEF Queue, Enqueue, queueVars, flushVars, ledgerVars, auxVars,
          connVars
<1>1. TypeOK'
  <2>1. ConnType'
    BY DEF TypeOK, ConnType, SessionPc
  <2>2. ThreadType'
    BY DEF TypeOK, ThreadType
  <2>3. ItemType'
    BY DEF TypeOK, ItemType
  <2>4. CountType'
    BY DEF TypeOK, CountType, Calls
  <2>5. RefusalType'
    BY DEF TypeOK, RefusalType, Refusals
  <2> QED
    BY <2>1, <2>2, <2>3, <2>4, <2>5
       DEF TypeOK, ConnType, ThreadType, ItemType, CountType, RefusalType
<1>2. InOnePlace'
  BY DEF TypeOK, InOnePlace, Threads, Calls
<1>3. Threads'
  BY DEF TypeOK, Threads, Calls
<1>4. Calls'
  BY DEF TypeOK, Calls, Threads
<1>5. TransactionHasOwner'
  BY DEF TypeOK, TransactionHasOwner, Calls, Threads
<1>6. Refusals'
  BY DEF TypeOK, InOnePlace, Refusals, DroppedWasRefused, Calls
<1>7. Durable'
  BY DEF TypeOK, InOnePlace, Threads, Calls, TransactionHasOwner, Durable
<1> QED
  BY <1>1, <1>2, <1>3, <1>4, <1>5, <1>6, <1>7

\* The buffer becomes the batch.
LEMMA TakeQueue ==
    ASSUME Queue, WaitOver \/ LastFlush \/ Joined
    PROVE  Queue'
<1> USE DEF Queue, WaitOver, LastFlush, Joined, Take, queueVars, flushVars,
          ledgerVars, auxVars, connVars
<1>1. TypeOK'
  <2>1. ConnType'
    BY DEF TypeOK, ConnType, SessionPc
  <2>2. ThreadType'
    BY DEF TypeOK, ThreadType
  <2>3. ItemType'
    BY DEF TypeOK, ItemType
  <2>4. CountType'
    BY DEF TypeOK, CountType, Calls
  <2>5. RefusalType'
    BY DEF TypeOK, RefusalType, Refusals
  <2> QED
    BY <2>1, <2>2, <2>3, <2>4, <2>5
       DEF TypeOK, ConnType, ThreadType, ItemType, CountType, RefusalType
<1>2. InOnePlace'
  BY DEF TypeOK, InOnePlace, Threads, Calls
<1>3. Threads'
  BY DEF TypeOK, Threads, Calls
<1>4. Calls'
  BY DEF TypeOK, Calls, Threads
<1>5. TransactionHasOwner'
  BY DEF TypeOK, TransactionHasOwner, Calls, Threads
<1>6. Refusals'
  BY DEF TypeOK, InOnePlace, Refusals, DroppedWasRefused, Calls
<1>7. Durable'
  BY DEF TypeOK, InOnePlace, Threads, Calls, TransactionHasOwner, Durable
<1> QED
  BY <1>1, <1>2, <1>3, <1>4, <1>5, <1>6, <1>7

\* A thread moves on and no result does.
LEMMA MoveQueue ==
    ASSUME Queue, LoopAgain \/ FlusherExits \/ Stop \/ Stopped
    PROVE  Queue'
<1> USE DEF Queue, LoopAgain, FlusherExits, Stop, Stopped, queueVars,
          flushVars, ledgerVars, auxVars, connVars
<1>1. TypeOK'
  <2>1. ConnType'
    BY DEF TypeOK, ConnType, SessionPc
  <2>2. ThreadType'
    BY DEF TypeOK, ThreadType
  <2>3. ItemType'
    BY DEF TypeOK, ItemType
  <2>4. CountType'
    BY DEF TypeOK, CountType, Calls
  <2>5. RefusalType'
    BY DEF TypeOK, RefusalType, Refusals
  <2> QED
    BY <2>1, <2>2, <2>3, <2>4, <2>5
       DEF TypeOK, ConnType, ThreadType, ItemType, CountType, RefusalType
<1>2. InOnePlace'
  BY DEF TypeOK, InOnePlace, Threads, Calls
<1>3. Threads'
  BY DEF TypeOK, Threads, Calls
<1>4. Calls'
  BY DEF TypeOK, Calls, Threads
<1>5. TransactionHasOwner'
  BY DEF TypeOK, TransactionHasOwner, Calls, Threads
<1>6. Refusals'
  BY DEF TypeOK, InOnePlace, Refusals, DroppedWasRefused, Calls
<1>7. Durable'
  BY DEF TypeOK, InOnePlace, Threads, Calls, TransactionHasOwner, Durable
<1> QED
  BY <1>1, <1>2, <1>3, <1>4, <1>5, <1>6, <1>7

\* A sub-batch begins, joins another transaction, or is refused.
LEMMA BeginQueue ==
    ASSUME Queue, SubBatchBegin
    PROVE  Queue'
<1> USE DEF Queue, SubBatchBegin, Begin, Refuse, Refused, Again, GiveUp, Idle,
          queueVars, flushVars, ledgerVars, auxVars, connVars
<1>1. TypeOK'
  <2>1. ConnType'
    BY DEF TypeOK, ConnType, SessionPc
  <2>2. ThreadType'
    BY DEF TypeOK, ThreadType
  <2>3. ItemType'
    BY DEF TypeOK, ItemType
  <2>4. CountType'
    BY DEF TypeOK, CountType, Calls
  <2>5. RefusalType'
    BY DEF TypeOK, RefusalType, Refusals
  <2> QED
    BY <2>1, <2>2, <2>3, <2>4, <2>5
       DEF TypeOK, ConnType, ThreadType, ItemType, CountType, RefusalType
<1>2. InOnePlace'
  BY DEF TypeOK, InOnePlace, Threads, Calls
<1>3. Threads'
  BY DEF TypeOK, Threads, Calls
<1>4. Calls'
  BY DEF TypeOK, Calls, Threads
<1>5. TransactionHasOwner'
  BY DEF TypeOK, TransactionHasOwner, Calls, Threads
<1>6. Refusals'
  BY DEF TypeOK, InOnePlace, Refusals, DroppedWasRefused, Calls
<1>7. Durable'
  BY DEF TypeOK, InOnePlace, Threads, Calls, TransactionHasOwner, Durable
<1> QED
  BY <1>1, <1>2, <1>3, <1>4, <1>5, <1>6, <1>7

\* One result is written into the transaction, or is not.
LEMMA WriteQueue ==
    ASSUME Queue, WriteItem
    PROVE  Queue'
<1> USE DEF Queue, WriteItem, Put, queueVars, flushVars, ledgerVars, auxVars,
          connVars
<1>1. TypeOK'
  <2>1. ConnType'
    BY DEF TypeOK, ConnType, SessionPc
  <2>2. ThreadType'
    BY DEF TypeOK, ThreadType
  <2>3. ItemType'
    BY DEF TypeOK, ItemType
  <2>4. CountType'
    BY DEF TypeOK, CountType, Calls
  <2>5. RefusalType'
    BY DEF TypeOK, RefusalType, Refusals
  <2> QED
    BY <2>1, <2>2, <2>3, <2>4, <2>5
       DEF TypeOK, ConnType, ThreadType, ItemType, CountType, RefusalType
<1>2. InOnePlace'
  BY DEF TypeOK, InOnePlace, Threads, Calls
<1>3. Threads'
  BY DEF TypeOK, Threads, Calls
<1>4. Calls'
  BY DEF TypeOK, Calls, Threads
<1>5. TransactionHasOwner'
  BY DEF TypeOK, TransactionHasOwner, Calls, Threads
<1>6. Refusals'
  BY DEF TypeOK, InOnePlace, Refusals, DroppedWasRefused, Calls
<1>7. Durable'
  BY DEF TypeOK, InOnePlace, Threads, Calls, TransactionHasOwner, Durable
<1> QED
  BY <1>1, <1>2, <1>3, <1>4, <1>5, <1>6, <1>7

\* A sub-batch is committed or rolled back, if the transaction is its own.
LEMMA EndQueue ==
    ASSUME Queue, SubBatchEnd
    PROVE  Queue'
<1> USE DEF Queue, SubBatchEnd, Commit, Rollback, Refuse, Refused, Again,
          GiveUp, Idle, Accept, queueVars, flushVars, ledgerVars, auxVars,
          connVars
<1>1. TypeOK'
  <2>1. ConnType'
    BY DEF TypeOK, ConnType, SessionPc
  <2>2. ThreadType'
    BY DEF TypeOK, ThreadType
  <2>3. ItemType'
    BY DEF TypeOK, ItemType
  <2>4. CountType'
    BY DEF TypeOK, CountType, Calls
  <2>5. RefusalType'
    BY DEF TypeOK, RefusalType, Refusals
  <2> QED
    BY <2>1, <2>2, <2>3, <2>4, <2>5
       DEF TypeOK, ConnType, ThreadType, ItemType, CountType, RefusalType
<1>2. InOnePlace'
  BY DEF TypeOK, InOnePlace, Threads, Calls
<1>3. Threads'
  BY DEF TypeOK, Threads, Calls
<1>4. Calls'
  BY DEF TypeOK, Calls, Threads
<1>5. TransactionHasOwner'
  BY DEF TypeOK, TransactionHasOwner, Calls, Threads
<1>6. Refusals'
  BY DEF TypeOK, InOnePlace, Refusals, DroppedWasRefused, Calls
<1>7. Durable'
  BY DEF TypeOK, InOnePlace, Threads, Calls, TransactionHasOwner, Durable
<1> QED
  BY <1>1, <1>2, <1>3, <1>4, <1>5, <1>6, <1>7

\* A history writer shares the connection but no row with the results.
LEMMA HistoryQueue ==
    ASSUME Queue, NEW s \in Session, HistoryStep(s)
    PROVE  Queue'
<1> USE DEF Queue, HistoryStep, SessionStep, SessionBegin, SessionDetail,
          SessionAggregate, SessionEnd, SessionUndo, GoSession, Begin, Put,
          Commit, Rollback, queueVars, flushVars, ledgerVars, auxVars,
          connVars
<1>1. TypeOK'
  <2>1. ConnType'
    BY DEF TypeOK, ConnType, SessionPc
  <2>2. ThreadType'
    BY DEF TypeOK, ThreadType
  <2>3. ItemType'
    BY DEF TypeOK, ItemType
  <2>4. CountType'
    BY DEF TypeOK, CountType, Calls
  <2>5. RefusalType'
    BY DEF TypeOK, RefusalType, Refusals
  <2> QED
    BY <2>1, <2>2, <2>3, <2>4, <2>5
       DEF TypeOK, ConnType, ThreadType, ItemType, CountType, RefusalType
<1>2. InOnePlace'
  BY DEF TypeOK, InOnePlace, Threads, Calls
<1>3. Threads'
  BY DEF TypeOK, Threads, Calls
<1>4. Calls'
  BY DEF TypeOK, Calls, Threads
<1>5. TransactionHasOwner'
  BY DEF TypeOK, TransactionHasOwner, Calls, Threads
<1>6. Refusals'
  BY DEF TypeOK, InOnePlace, Refusals, DroppedWasRefused, Calls
<1>7. Durable'
  BY DEF TypeOK, InOnePlace, Threads, Calls, TransactionHasOwner, Durable
<1> QED
  BY <1>1, <1>2, <1>3, <1>4, <1>5, <1>6, <1>7

-----------------------------------------------------------------------------

LEMMA QueueNext == Queue /\ [Next]_vars => Queue'
<1> SUFFICES ASSUME Queue, [Next]_vars PROVE Queue'
  OBVIOUS
<1>1. CASE Start
  BY <1>1, StartQueue
<1>2. ASSUME NEW r \in Result, Enqueue(r) PROVE Queue'
  BY <1>2, EnqueueQueue
<1>3. CASE FlusherStep \/ StopStep \/ Stop
  BY <1>3, TakeQueue, MoveQueue DEF FlusherStep, StopStep
<1>4. CASE FlushStep
  BY <1>4, BeginQueue, WriteQueue, EndQueue DEF FlushStep
<1>5. ASSUME NEW s \in Session, HistoryStep(s) PROVE Queue'
  BY <1>5, HistoryQueue
<1>6. CASE UNCHANGED vars
  BY <1>6
     DEF vars, queueVars, flushVars, ledgerVars, auxVars, Queue, TypeOK,
         InOnePlace, Threads, Calls, TransactionHasOwner, Refusals,
         DroppedWasRefused, Durable
<1> QED
  BY <1>1, <1>2, <1>3, <1>4, <1>5, <1>6 DEF Next, Terminated

LEMMA QueueAlways == Spec => []Queue
BY QueueInit, QueueNext, PTL DEF Spec

\* The model stays well-typed for any set of results, any sub-batch size and any
\* retry limit; in particular the retry counter never passes its limit.
THEOREM QueueTypeCorrect == Spec => []TypeOK
<1>1. Queue => TypeOK
  BY DEF Queue
<1> QED
  BY <1>1, QueueAlways, PTL

\* No result is lost or duplicated between enqueue() and the queue's verdict.
THEOREM ResultsInOnePlace == Spec => []InOnePlace
<1>1. Queue => InOnePlace
  BY DEF Queue
<1> QED
  BY <1>1, QueueAlways, PTL

\* stop() returns with nothing pending.
THEOREM StopDrains == Spec => []DrainedByStop
<1>1. Queue => DrainedByStop
  <2> SUFFICES ASSUME Queue, main = "stopped" PROVE DrainedByStop
    BY DEF DrainedByStop
  <2>1. flusher = "exited" /\ ~Flushing /\ buffer = {} /\ batch = {}
    BY DEF Queue, Threads, Calls
  <2> QED
    BY <2>1 DEF Queue, InOnePlace, DrainedByStop
<1> QED
  BY <1>1, QueueAlways, PTL

\* No transaction is left open on the shared connection.
THEOREM TransactionsAreClosed == Spec => []TransactionHasOwner
<1>1. Queue => TransactionHasOwner
  BY DEF Queue
<1> QED
  BY <1>1, QueueAlways, PTL

\* The queue gives a result up only after MAX_FLUSH_RETRIES + 1 refusals.
THEOREM LossIsJustified == Spec => []DroppedWasRefused
<1>1. Queue => DroppedWasRefused
  BY DEF Queue, Refusals
<1> QED
  BY <1>1, QueueAlways, PTL

\* A batch in transactions of its own is in the database exactly when the queue
\* says so; once, if it fits into one sub-batch.
THEOREM VerdictsAreDurable == Spec => []VerdictIsDurable
<1>1. Queue => VerdictIsDurable
  <2> SUFFICES ASSUME Queue PROVE VerdictIsDurable
    OBVIOUS
  <2>1. ASSUME NEW r \in acked \ shared
        PROVE  saved[r] >= 1 /\ (r \notin split => saved[r] = 1)
    BY <2>1 DEF Queue, TypeOK, Durable
  <2>2. ASSUME NEW r \in dropped \ (shared \cup split)
        PROVE  saved[r] = 0
    BY <2>2 DEF Queue, TypeOK, InOnePlace, Durable
  <2> QED
    BY <2>1, <2>2 DEF VerdictIsDurable
<1> QED
  BY <1>1, QueueAlways, PTL

-----------------------------------------------------------------------------
(* The queue implements ResultDelivery.                                     *)

LEMMA DeliveryInit == Init => Delivery!Init
BY DEF Init, Delivery!Init, DeliveryState

\* What a step does to the places of the results decides what it maps to.
LEMMA SamePlaces ==
    ASSUME UNCHANGED <<produced, acked, dropped>>,
           main' = main \/ (main # "stopped" /\ main' # "stopped")
    PROVE  UNCHANGED Delivery!vars
BY DEF Delivery!vars, DeliveryState

LEMMA EnqueueMaps ==
    ASSUME Queue, NEW r \in Result, Enqueue(r)
    PROVE  Delivery!HandOver(r)
<1>1. r \notin acked \cup dropped
  BY DEF Queue, InOnePlace, Enqueue
<1>2. DeliveryState[r] = "unborn"
  BY <1>1 DEF DeliveryState, Enqueue
<1>3. ASSUME NEW q \in Result
      PROVE  DeliveryState'[q] = IF q = r THEN "pending" ELSE DeliveryState[q]
  BY <1>1 DEF DeliveryState, Enqueue, ledgerVars
<1>4. DeliveryState' = [DeliveryState EXCEPT ![r] = "pending"]
  BY <1>3 DEF DeliveryState
<1> QED
  BY <1>2, <1>4 DEF Delivery!HandOver, Enqueue

LEMMA BatchPending ==
    ASSUME Queue, Flushing
    PROVE  /\ batch \in SUBSET Result /\ batch # {} /\ main # "stopped"
           /\ \A r \in batch : DeliveryState[r] = "pending"
<1>1. batch \subseteq produced \ (acked \cup dropped)
  BY DEF Queue, InOnePlace
<1>2. main # "stopped"
  BY DEF Queue, Threads
<1> QED
  BY <1>1, <1>2 DEF Queue, Calls, TypeOK, DeliveryState

LEMMA AcceptMaps ==
    ASSUME Queue, Flushing, acked' = acked \cup batch,
           UNCHANGED <<produced, dropped, main>>
    PROVE  Delivery!Conclude(batch, "delivered")
<1>1. ASSUME NEW r \in Result
      PROVE  DeliveryState'[r] = IF r \in batch THEN "delivered"
                                 ELSE DeliveryState[r]
  <2>1. CASE r \in batch
    BY <2>1 DEF DeliveryState, Queue, InOnePlace
  <2>2. CASE r \notin batch
    <3>1. (r \in acked' <=> r \in acked) /\ dropped' = dropped
      BY <2>2
    <3> QED
      BY <2>2, <3>1 DEF DeliveryState
  <2> QED
    BY <2>1, <2>2
<1>2. DeliveryState' =
          [r \in Result |-> IF r \in batch THEN "delivered"
                            ELSE DeliveryState[r]]
  BY <1>1 DEF DeliveryState
<1> QED
  BY <1>2, BatchPending DEF Delivery!Conclude

LEMMA DropMaps ==
    ASSUME Queue, Flushing, dropped' = dropped \cup batch,
           UNCHANGED <<produced, acked, main>>
    PROVE  Delivery!Conclude(batch, "writtenOff")
<1>1. batch \subseteq Result /\ batch \cap acked = {}
  BY DEF Queue, TypeOK, InOnePlace
<1>2. DeliveryState' =
          [r \in Result |-> IF r \in batch THEN "writtenOff"
                            ELSE DeliveryState[r]]
  BY <1>1 DEF DeliveryState
<1> QED
  BY <1>2, BatchPending DEF Delivery!Conclude

\* A step of the callback leaves the places alone, accepts or drops the batch.
LEMMA FlushMaps ==
    ASSUME Queue, FlushStep
    PROVE  Delivery!Next \/ UNCHANGED Delivery!vars
<1>1. Flushing /\ UNCHANGED <<produced, main>>
  BY DEF FlushStep, SubBatchBegin, WriteItem, SubBatchEnd, queueVars
<1>2. \/ UNCHANGED <<acked, dropped>>
      \/ acked' = acked \cup batch /\ UNCHANGED dropped
      \/ dropped' = dropped \cup batch /\ UNCHANGED acked
  BY DEF FlushStep, SubBatchBegin, WriteItem, SubBatchEnd, ledgerVars, Refuse,
         Again, GiveUp, Accept
<1>3. batch \in SUBSET Result
  BY DEF Queue, TypeOK
<1>4. CASE UNCHANGED <<acked, dropped>>
  BY <1>1, <1>4, SamePlaces
<1>5. CASE acked' = acked \cup batch /\ UNCHANGED dropped
  BY <1>1, <1>3, <1>5, AcceptMaps DEF Delivery!Next
<1>6. CASE dropped' = dropped \cup batch /\ UNCHANGED acked
  BY <1>1, <1>3, <1>6, DropMaps DEF Delivery!Next
<1> QED
  BY <1>2, <1>4, <1>5, <1>6

LEMMA StoppedMaps ==
    ASSUME Queue, Stopped
    PROVE  Delivery!Close
<1>1. produced = acked \cup dropped
  BY DEF Stopped, Queue, InOnePlace, Threads, Calls
<1>2. UNCHANGED DeliveryState
  BY DEF Stopped, ledgerVars, DeliveryState
<1>3. \A r \in Result : DeliveryState[r] # "pending"
  BY <1>1 DEF DeliveryState
<1> QED
  BY <1>2, <1>3 DEF Stopped, Delivery!Close

LEMMA DeliveryNext == Queue /\ [Next]_vars => [Delivery!Next]_(Delivery!vars)
<1> SUFFICES ASSUME Queue, [Next]_vars
             PROVE  Delivery!Next \/ UNCHANGED Delivery!vars
  OBVIOUS
<1>1. CASE Start \/ Stop \/ FlusherStep \/ Joined
  <2>1. /\ UNCHANGED <<produced, acked, dropped>>
        /\ main' = main \/ (main # "stopped" /\ main' # "stopped")
    BY <1>1
       DEF Start, Stop, FlusherStep, WaitOver, LoopAgain, LastFlush,
           FlusherExits, Joined, Take, ledgerVars
  <2> QED
    BY <2>1, SamePlaces
<1>2. CASE Stopped
  BY <1>2, StoppedMaps DEF Delivery!Next
<1>3. ASSUME NEW r \in Result, Enqueue(r)
      PROVE  Delivery!Next
  BY <1>3, EnqueueMaps DEF Delivery!Next
<1>4. CASE FlushStep
  BY <1>4, FlushMaps
<1>5. ASSUME NEW s \in Session, HistoryStep(s)
      PROVE  UNCHANGED Delivery!vars
  <2>1. UNCHANGED <<produced, acked, dropped, main>>
    BY <1>5 DEF HistoryStep, queueVars, ledgerVars
  <2> QED
    BY <2>1, SamePlaces
<1>6. CASE UNCHANGED vars
  <2>1. UNCHANGED <<produced, acked, dropped, main>>
    BY <1>6 DEF vars, queueVars, ledgerVars
  <2> QED
    BY <2>1, SamePlaces
<1> QED
  BY <1>1, <1>2, <1>3, <1>4, <1>5, <1>6 DEF Next, StopStep, Terminated

\* Whatever the database and the other writers on its connection do, a result
\* that was handed over is delivered or written off once, before stop() returns.
THEOREM QueueRefinement == Spec => ImplementsDelivery
<1>1. Init /\ []Queue /\ [][Next]_vars => Delivery!Spec
  BY DeliveryInit, DeliveryNext, PTL DEF Delivery!Spec
<1> QED
  BY <1>1, QueueAlways, PTL DEF Spec, ImplementsDelivery

=============================================================================
