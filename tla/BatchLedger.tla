---------------------------- MODULE BatchLedger ----------------------------
(***************************************************************************)
(* What a batch test run promises about its profiles, without threads,     *)
(* instances or a network: each profile leaves the queue in order, is then *)
(* settled (reported, or deleted as unusable) at most once, and is lost    *)
(* only after the batch was told to stop.  BatchTester implements it.      *)
(***************************************************************************)
EXTENDS Integers

CONSTANT N             \* how many profiles the run loaded

Item == 0 .. N - 1

VARIABLES
    status,     \* where each profile is
    stopping,   \* the batch was told to stop
    closed      \* the batch has ended

vars == <<status, stopping, closed>>

Status == {"queued", "held", "settled", "lost"}

TypeOK ==
    /\ status \in [Item -> Status]
    /\ stopping \in BOOLEAN
    /\ closed \in BOOLEAN

Init ==
    /\ status = [i \in Item |-> "queued"]
    /\ stopping = FALSE
    /\ closed = FALSE

Move(i, from, to) ==
    /\ ~closed
    /\ status[i] = from
    /\ status' = [status EXCEPT ![i] = to]
    /\ UNCHANGED <<stopping, closed>>

Take(i) ==
    /\ \A j \in Item : j < i => status[j] # "queued"
    /\ Move(i, "queued", "held")

SettleItem(i) == Move(i, "held", "settled")

Lose(i) == stopping /\ Move(i, "held", "lost")

Stop ==
    /\ ~closed /\ ~stopping
    /\ stopping' = TRUE
    /\ UNCHANGED <<status, closed>>

\* A profile still queued at the end is left to the caller.
Close ==
    /\ ~closed
    /\ \A i \in Item : status[i] # "held"
    /\ closed' = TRUE
    /\ UNCHANGED <<status, stopping>>

Next ==
    \/ \E i \in Item : Take(i) \/ SettleItem(i) \/ Lose(i)
    \/ Stop
    \/ Close

Spec == Init /\ [][Next]_vars

=============================================================================
