------------------------- MODULE SubscriptionUpdate -------------------------
(***************************************************************************)
(* The update of the subscriptions (src/src/SubitemUpdaterV2.cpp, run(),   *)
(* runSingle() and what they call): every enabled subscription is fetched  *)
(* with the first method of the list, those that failed with the next, and *)
(* so on.  A subscription whose source answers 404 is disabled and its     *)
(* remark gets a marker; a marked one is probed in each run and loses the  *)
(* marker when nodes come back.  The window and the command line update    *)
(* the same table in processes of their own, and the user edits it.        *)
(***************************************************************************)
EXTENDS Naturals, Sequences, FiniteSets, SequencesExt

CONSTANTS
    Updater,     \* processes that update
    Sub,         \* subscriptions
    GitHub,      \* the subscriptions with a GitHub URL
    Names,       \* what the user calls a subscription, a set of strings; "": no remark
    MaxEdits     \* bound: edits by the user

ASSUME UpdateAssumption == GitHub \subseteq Sub /\ MaxEdits \in Nat

Method == {"accelerator", "proxy", "direct"}

VARIABLES
    subItem,     \* the table: enabled, remark, and whether the interval has passed
    update,      \* what each updater is doing
    config,      \* update_methods, and whether accelerator_url is set
    connected,   \* the network monitor
    edits,       \* number of edits by the user
    updateResult \* what each run has returned

subVars == <<subItem, update, config, connected, edits, updateResult>>

Remark == [marks : 0 .. 2, name : Names]
NoUpdate == [at |-> "off", phase |-> 0, todo |-> {}, probes |-> {}, failed |-> {},
             rest |-> {}, snapshot |-> <<>>, fetching |-> {}, port |-> FALSE,
             tried |-> [s \in Sub |-> {}], verdict |-> [s \in Sub |-> "none"],
             attempted |-> {}, asked |-> {}, single |-> FALSE, broken |-> FALSE]

\* parseUpdateMethods(): unknown names and repetitions are dropped, and the default is
\* the accelerator.
parseUpdateMethods(names) ==
    LET new == {n \in DOMAIN names : /\ names[n] \in Method
                                     /\ \A m \in 1 .. n - 1 : names[m] # names[n]}
        Nth(k) == CHOOSE n \in new : Cardinality({m \in new : m <= n}) = k
    IN  IF new = {} THEN <<"accelerator">>
        ELSE [k \in 1 .. Cardinality(new) |-> names[Nth(k)]]

methods == parseUpdateMethods(config.methods)

\* The marker is never doubled.
MarkerOnce == \A s \in Sub : subItem[s].remark.marks < 2

SubTypeOK ==
    /\ MarkerOnce
    /\ subItem \in [Sub -> [on : BOOLEAN, remark : Remark, due : BOOLEAN]]
    /\ \A u \in Updater :
          /\ update[u].at \in {"off", "phase", "fetch"}
          /\ update[u].phase \in 0 .. Len(methods)
          /\ \A f \in {"todo", "probes", "failed", "rest", "fetching", "attempted", "asked"} :
                update[u][f] \subseteq Sub
          /\ update[u].verdict \in [Sub -> {"none", "nodes", "gone"}]
          /\ update[u].tried \in [Sub -> SUBSET ToSet(methods)]
    /\ connected \in BOOLEAN /\ edits \in 0 .. MaxEdits
    /\ updateResult \in [Updater -> {"none", "ok", "failed"}]

SubInit ==
    /\ subItem \in [Sub -> [on : BOOLEAN, remark : [marks : {0, 1}, name : Names],
                            due : {TRUE, FALSE}]]
    /\ update = [u \in Updater |-> NoUpdate]
    /\ config \in [methods : {<<>>, <<"accelerator", "direct">>,
                              <<"direct", "direct", "proxy">>},
                   relay : BOOLEAN]
    /\ connected = TRUE /\ edits = 0
    /\ updateResult = [u \in Updater |-> "none"]

-----------------------------------------------------------------------------
(* The table.                                                               *)

\* getSourceGoneSubscriptions()
Gone == {s \in Sub : ~subItem[s].on /\ subItem[s].remark.marks > 0}

\* Mutant: the prefix is put before the remark that is in the row.
markRow(s, seen) ==
    [subItem EXCEPT ![s].on = FALSE, ![s].remark.marks = IF @ = 2 THEN 2 ELSE @ + 1]

\* markSourceGone(): one statement, with the remark that was read when the run began.
markSourceGone(s, seen) ==
    IF seen.marks > 0 \/ seen.name = ""
    THEN [subItem EXCEPT ![s].on = FALSE]
    ELSE [subItem EXCEPT ![s].on = FALSE, ![s].remark = [seen EXCEPT !.marks = 1]]

\* Mutant: a subscription that has recovered is switched on again.
restoreMarked(s, seen) ==
    IF seen.marks = 0 THEN subItem
    ELSE [subItem EXCEPT ![s].remark = [seen EXCEPT !.marks = @ - 1], ![s].on = TRUE]

\* clearSourceGoneMarker(): Enabled is left alone.
clearSourceGoneMarker(s, seen) ==
    IF seen.marks = 0 THEN subItem
    ELSE [subItem EXCEPT ![s].remark = [seen EXCEPT !.marks = @ - 1]]

-----------------------------------------------------------------------------
(* run() and runSingle().                                                   *)

Set(u, r) == update' = [update EXCEPT ![u] = r]

Remarks == [s \in Sub |-> subItem[s].remark]

\* shouldSkipUpdate() is decided for each subscription when its turn comes; the
\* interval does not pass meanwhile.  Without an enabled subscription the first phase
\* is left out, and with it the probes.  port: a proxy for the fetches was found.
BeginRun(u) ==
    /\ update[u].at = "off" /\ updateResult[u] = "none"
    /\ LET on == {s \in Sub : subItem[s].on}
           due == {s \in on : subItem[s].due}
       IN  IF on = {}
           THEN /\ updateResult' = [updateResult EXCEPT
                                       ![u] = IF Gone = {} THEN "ok" ELSE "failed"]
                /\ UNCHANGED update
           ELSE /\ \E port \in BOOLEAN :
                      /\ port => "proxy" \in ToSet(methods)
                      /\ Set(u, [NoUpdate EXCEPT
                                    !.at = "phase", !.phase = 1, !.todo = due,
                                    !.probes = Gone, !.snapshot = Remarks,
                                    !.port = port, !.asked = due \cup Gone])
                /\ UNCHANGED updateResult
    /\ UNCHANGED <<subItem, config, connected, edits>>

\* runSingle(): one subscription, with each method in turn as long as it fails; the
\* network and the cancel flag are only looked at before the first.
BeginSingle(u, s) ==
    /\ update[u].at = "off" /\ updateResult[u] = "none"
    /\ \/ /\ ~subItem[s].on \/ (subItem[s].due /\ ~connected)
          /\ updateResult' = [updateResult EXCEPT ![u] = "failed"] /\ UNCHANGED update
       \/ /\ subItem[s].on /\ ~subItem[s].due
          /\ updateResult' = [updateResult EXCEPT ![u] = "ok"] /\ UNCHANGED update
       \/ /\ subItem[s].on /\ subItem[s].due /\ connected
          /\ \E port \in BOOLEAN :
                /\ port => "proxy" \in ToSet(methods)
                /\ Set(u, [NoUpdate EXCEPT !.at = "phase", !.phase = 1, !.todo = {s},
                                           !.snapshot = Remarks, !.port = port,
                                           !.asked = {s}, !.single = TRUE])
          /\ UNCHANGED updateResult
    /\ UNCHANGED <<subItem, config, connected, edits>>

\* run() looks at the network before and after each fetch.
GoesOn(u) == connected \/ update[u].single

\* The enabled subscriptions come before the probes; a fetch is begun.
BeginFetch(u) ==
    LET r == update[u] IN
    /\ r.at = "phase" /\ GoesOn(u)
    /\ \E s \in IF r.todo # {} THEN r.todo ELSE r.probes :
          Set(u, [r EXCEPT !.at = "fetch", !.fetching = {s},
                           !.todo = @ \ {s}, !.probes = @ \ {s},
                           !.attempted = IF s \in r.todo THEN @ \cup {s} ELSE @])
    /\ UNCHANGED <<subItem, config, connected, edits, updateResult>>

Fetched(u, s, verdict, rest) ==
    LET r == update[u] IN
    Set(u, [r EXCEPT !.at = "phase", !.fetching = {},
                     !.tried[s] = @ \cup {methods[r.phase]},
                     !.verdict[s] = IF verdict = "none" THEN @ ELSE verdict,
                     !.rest = @ \cup rest])

\* Nodes: the profiles are stored, the marker goes, the time of the update is noted.
FetchNodes(u) ==
    LET r == update[u] IN
    /\ r.at = "fetch" /\ GoesOn(u)
    /\ methods[r.phase] = "proxy" => r.port
    /\ \E s \in r.fetching :
          /\ subItem' = [clearSourceGoneMarker(s, r.snapshot[s]) EXCEPT ![s].due = FALSE]
          /\ Fetched(u, s, "nodes", {})
    /\ UNCHANGED <<config, connected, edits, updateResult>>

\* httpStatusIsAboutOrigin
AboutOrigin(m, s) == m # "accelerator" \/ ~config.relay \/ s \in GitHub

\* Mutant: a 404 is a failure like any other.
FetchGoneAgain(u) ==
    LET r == update[u] IN
    /\ r.at = "fetch" /\ GoesOn(u)
    /\ methods[r.phase] = "proxy" => r.port
    /\ \E s \in r.fetching :
          /\ AboutOrigin(methods[r.phase], s)
          /\ subItem' = markSourceGone(s, r.snapshot[s])
          /\ Fetched(u, s, "gone", {s})
    /\ UNCHANGED <<config, connected, edits, updateResult>>

\* A 404 that can be attributed to the source: it is not tried again in this run.
FetchGone(u) ==
    LET r == update[u] IN
    /\ r.at = "fetch" /\ GoesOn(u)
    /\ methods[r.phase] = "proxy" => r.port
    /\ \E s \in r.fetching :
          /\ AboutOrigin(methods[r.phase], s)
          /\ subItem' = markSourceGone(s, r.snapshot[s])
          /\ Fetched(u, s, "gone", {})
    /\ UNCHANGED <<config, connected, edits, updateResult>>

\* Mutant: a connection that fails is forgotten.
FetchForgets(u) ==
    /\ update[u].at = "fetch" /\ GoesOn(u)
    /\ \E s \in update[u].fetching : Fetched(u, s, "none", {})
    /\ UNCHANGED <<subItem, config, connected, edits, updateResult>>

\* No connection, or an answer without nodes: the next method will be tried.
FetchFails(u) ==
    /\ update[u].at = "fetch" /\ GoesOn(u)
    /\ \E s \in update[u].fetching : Fetched(u, s, "none", {s})
    /\ UNCHANGED <<subItem, config, connected, edits, updateResult>>

\* The user cancels, or the network is gone: the loop over the enabled subscriptions is
\* left, or the one over the probes.  What it had not reached is not among the failed.
LoopBreaks(u) ==
    LET r == update[u] IN
    /\ r.at \in {"phase", "fetch"} /\ ~r.single
    /\ r.todo \cup r.probes \cup r.fetching # {}
    /\ Set(u, [r EXCEPT !.at = "phase", !.fetching = {}, !.todo = {}, !.broken = TRUE,
                        !.probes = IF r.todo # {} \/ r.fetching \cap r.attempted # {}
                                   THEN @ ELSE {}])
    /\ UNCHANGED <<subItem, config, connected, edits, updateResult>>

\* The next phase is about what has failed; after the last one the result is returned.
EndPhase(u) ==
    LET r == update[u] IN
    /\ r.at = "phase" /\ r.todo = {} /\ r.probes = {}
    /\ IF r.rest # {} /\ r.phase < Len(methods)
       THEN /\ Set(u, [r EXCEPT !.phase = @ + 1, !.todo = r.rest, !.rest = {}])
            /\ UNCHANGED updateResult
       ELSE /\ Set(u, [r EXCEPT !.at = "off", !.failed = r.rest, !.rest = {}])
            /\ updateResult' = [updateResult EXCEPT
                  ![u] = IF \/ \E s \in Sub : r.verdict[s] = "nodes"
                            \/ r.attempted = {}   \* "skipped", also when cancelled at once
                         THEN "ok" ELSE "failed"]
    /\ UNCHANGED <<subItem, config, connected, edits>>

-----------------------------------------------------------------------------
(* The user and the network.                                                *)

\* The panel's check box, and the dialog that edits a subscription.
EditSubscription(s) ==
    /\ edits < MaxEdits /\ edits' = edits + 1
    /\ \/ subItem' = [subItem EXCEPT ![s].on = ~@]
       \/ \E n \in Names : subItem' = [subItem EXCEPT ![s].remark = [marks |-> 0, name |-> n]]
    /\ UNCHANGED <<update, config, connected, updateResult>>

NetworkChanges ==
    /\ connected' = ~connected
    /\ UNCHANGED <<subItem, update, config, edits, updateResult>>

-----------------------------------------------------------------------------

UpdaterStep(u) ==
    \/ BeginRun(u) \/ (\E s \in Sub : BeginSingle(u, s))
    \/ BeginFetch(u) \/ FetchNodes(u) \/ FetchGone(u) \/ FetchFails(u)
    \/ LoopBreaks(u) \/ EndPhase(u)

SubNext ==
    \/ \E u \in Updater : UpdaterStep(u)
    \/ \E s \in Sub : EditSubscription(s)
    \/ NetworkChanges

SubSpec == SubInit /\ [][SubNext]_subVars

-----------------------------------------------------------------------------
(* Properties.                                                              *)

\* A subscription that gave nodes, or whose source is gone, is not fetched once more in
\* the same run, although the list of failures is built anew in each phase; and a run
\* that was not broken off has given none up early: what it has no verdict on was tried
\* with every method, and is among the failures it reports.
TriedUntilVerdict ==
    \A u \in Updater : LET r == update[u] IN
        /\ \A s \in r.todo \cup r.probes \cup r.fetching \cup r.rest \cup r.failed :
              r.verdict[s] = "none"
        /\ updateResult[u] # "none" /\ ~r.broken =>
              \A s \in r.asked : r.verdict[s] = "none"
                  => r.tried[s] = ToSet(methods) /\ s \in r.failed

\* No update switches a subscription on: one that was gone waits for the user, whatever
\* two updaters do at once with what they read.
OnlyTheUserEnables ==
    [][edits' = edits => \A s \in Sub : subItem'[s].on => subItem[s].on]_subVars

=============================================================================
