--------------------------- MODULE ResultDelivery ---------------------------
(***************************************************************************)
(* What the result queue promises the workers of a batch: a result that    *)
(* was handed over is delivered to the database or written off, once and   *)
(* for good, and the queue closes only when nothing is pending.            *)
(***************************************************************************)
CONSTANT Result

VARIABLES
    state,      \* where each result is
    closed      \* stop() has returned

vars == <<state, closed>>

State == {"unborn", "pending", "delivered", "writtenOff"}

TypeOK ==
    /\ state \in [Result -> State]
    /\ closed \in BOOLEAN

Init ==
    /\ state = [r \in Result |-> "unborn"]
    /\ closed = FALSE

HandOver(r) ==
    /\ ~closed /\ state[r] = "unborn"
    /\ state' = [state EXCEPT ![r] = "pending"]
    /\ UNCHANGED closed

\* A whole batch of results leaves the queue together.
Conclude(S, verdict) ==
    /\ ~closed /\ S # {}
    /\ \A r \in S : state[r] = "pending"
    /\ state' = [r \in Result |-> IF r \in S THEN verdict ELSE state[r]]
    /\ UNCHANGED closed

Close ==
    /\ ~closed
    /\ \A r \in Result : state[r] # "pending"
    /\ closed' = TRUE
    /\ UNCHANGED state

Next ==
    \/ \E r \in Result : HandOver(r)
    \/ \E S \in SUBSET Result :
          Conclude(S, "delivered") \/ Conclude(S, "writtenOff")
    \/ Close

Spec == Init /\ [][Next]_vars

=============================================================================
