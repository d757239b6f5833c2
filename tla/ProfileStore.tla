----------------------------- MODULE ProfileStore -----------------------------
(***************************************************************************)
(* What is done to the tables of proxies as a whole: the deduplication     *)
(* (src/src/update/Deduplicator.cpp) and the copy of the working proxies   *)
(* into a second database (src/src/SubitemUpdaterV2.cpp, syncDatabases()). *)
(* Each is a sequence of statements in one transaction; a statement may    *)
(* fail, and the statements after it are executed all the same.  Only      *)
(* proxies with one and the same address, port, type, id and network are   *)
(* modelled: the others do not meet.                                       *)
(***************************************************************************)
EXTENDS Naturals, Sequences, FiniteSets, SequencesExt

CONSTANTS
    Index,       \* the proxies, IndexId
    MaxFaults    \* bound: statements that fail; in a copy, proxies of which some fail

ASSUME StoreAssumption == IsFiniteSet(Index) /\ MaxFaults \in Nat

\* The subscriptions: the protected ones of dedup_subids, the blacklist's, any other,
\* and one that is not (no longer) in the table SubItem.
SubId == {"protected", "fallback", "blacklist", "other", "unknown"}

\* What the last tests said (ProfileExItem; "none": no row).  A success resets the
\* counter of failures, so only a failing proxy can be over the blacklist's threshold.
Tested == {"none", "failing", "hopeless", "fast", "slow"}

\* "plain": no StreamSecurity; "private": an address that is not public; "garbage":
\* fields of which no configuration can be made.
Kind == {"tls", "plain", "private", "garbage"}

VARIABLES
    items,       \* ProfileItem, by IndexId
    ex,          \* ProfileExItem, by IndexId
    subs,        \* SubItem of this database
    storeConfig, \* dedup_subids, blacklist_enabled, sync_skip_subids
    target,      \* the second database: its items, its ex rows, its subscriptions
    job,         \* the deduplication or the copy in progress
    before       \* items, ex and target when it began, and for a rollback

storeVars == <<items, ex, subs, storeConfig, target, job, before>>

Working(t) == t \in {"fast", "slow"}
Present(t) == DOMAIN t

Phases == <<"protect", "fallback", "blacklist", "invalid", "garbage", "merge",
            "cleanup", "commit">>
\* Of a copy: the proxies to do, how many failed, and those of which something is left
\* out that is not counted: the proxy itself, its results, its subscription.
NoJob == [kind |-> "none", at |-> "idle", tx |-> FALSE, faults |-> 0, todo |-> {}, failed |-> 0,
          unread |-> {}, untested |-> {}, orphan |-> {}, result |-> "none"]

StoreTypeOK ==
    /\ Present(items) \subseteq Index /\ Present(ex) \subseteq Index
    /\ \A i \in Present(items) : items[i] \in [sub : SubId, kind : Kind]
    /\ \A i \in Present(ex) : ex[i] \in Tested \ {"none"}
    /\ subs \subseteq SubId
    /\ Present(target.items) \subseteq Index /\ Present(target.ex) \subseteq Index
    /\ job.at \in {"idle", "copy"} \cup ToSet(Phases)
    /\ job.todo \cup job.unread \cup job.untested \cup job.orphan \subseteq Index
    /\ job.faults \in 0 .. MaxFaults
    /\ job.result \in {"none", "ok", "error"}

\* The rows that have a state: a table is a function from the ids it has.
StoreInit ==
    /\ items \in [Index -> [sub : {"protected", "fallback", "other", "unknown"},
                            kind : Kind]]
    /\ \E t \in [Index -> Tested] :
          ex = [i \in {j \in Index : t[j] # "none"} |-> t[i]]
    /\ storeConfig \in [subids : {<<>>, <<"protected">>, <<"protected", "fallback">>},
                        blacklist : BOOLEAN, skip : BOOLEAN]
    /\ subs \in {SubId \ {"unknown"}, {"fallback", "blacklist", "other"}}
    /\ target = [items |-> <<>>, ex |-> <<>>, subs |-> {"other"}]
    /\ job = NoJob
    /\ before = [items |-> items, ex |-> ex, target |-> target]

Configured == ToSet(storeConfig.subids)

-----------------------------------------------------------------------------
(* deduplicate().                                                           *)

Keep(is) == [i \in is |-> items[i]]

\* A phase updates or deletes; the next is begun.
NextPhase == Phases[1 + CHOOSE n \in DOMAIN Phases : Phases[n] = job.at]
Move(is, s) ==
    items' = [i \in Present(items) |-> IF i \in is THEN [items[i] EXCEPT !.sub = s]
                                       ELSE items[i]]
Go == job' = [job EXCEPT !.at = NextPhase]

BeginDedup ==
    /\ job = NoJob
    /\ job' = [NoJob EXCEPT !.kind = "dedup", !.at = "protect", !.tx = TRUE]
    /\ UNCHANGED <<items, ex, subs, storeConfig, target, before>>

TestedIn(ts) == {i \in Present(items) \cap Present(ex) : ex[i] \in ts}

\* Working proxies are moved to the first subscription of dedup_subids ...
Protect ==
    /\ job.at = "protect"
    /\ IF storeConfig.subids = <<>> THEN UNCHANGED items
       ELSE Move(TestedIn({"fast", "slow"}), storeConfig.subids[1])
    /\ Go
    /\ UNCHANGED <<ex, subs, storeConfig, target, before>>

\* ... and those in it that fail to the second, if there is one.
Fallback ==
    /\ job.at = "fallback"
    /\ IF Len(storeConfig.subids) < 2 THEN UNCHANGED items
       ELSE Move({i \in TestedIn({"failing", "hopeless"}) :
                    items[i].sub = storeConfig.subids[1]}, storeConfig.subids[2])
    /\ Go
    /\ UNCHANGED <<ex, subs, storeConfig, target, before>>

Blacklist ==
    /\ job.at = "blacklist"
    /\ IF ~storeConfig.blacklist THEN UNCHANGED items
       ELSE Move(TestedIn({"hopeless"}), "blacklist")
    /\ Go
    /\ UNCHANGED <<ex, subs, storeConfig, target, before>>

\* deduplicatePhase1(): private addresses, no subscription, no transport security
\* outside of dedup_subids.
RemoveInvalid ==
    /\ job.at = "invalid"
    /\ items' = Keep({i \in Present(items) :
                        /\ items[i].kind # "private" /\ items[i].sub \in subs
                        /\ storeConfig.subids # <<>> /\ items[i].kind = "plain"
                              => items[i].sub \in Configured})
    /\ Go
    /\ UNCHANGED <<ex, subs, storeConfig, target, before>>

\* deduplicateConfigErrorPhase(): what cannot become a configuration.
RemoveGarbage ==
    /\ job.at = "garbage"
    /\ items' = Keep({i \in Present(items) : items[i].kind \notin {"private", "garbage"}})
    /\ Go
    /\ UNCHANGED <<ex, subs, storeConfig, target, before>>

\* CAST(COALESCE(Delay, 0) AS INTEGER)
Delay(i) ==
    IF i \notin Present(ex) THEN 1
    ELSE CASE ex[i] \in {"failing", "hopeless"} -> 0
           [] ex[i] = "fast" -> 2
           [] ex[i] = "slow" -> 3

\* Mutant: the smallest delay is kept, and a failure has delay -1.
BeforeByDelay(i, j) ==
    LET rank(k) == IF items[k].sub \in Configured THEN 0 ELSE 1 IN
    \/ rank(i) < rank(j)
    \/ rank(i) = rank(j) /\ Delay(i) < Delay(j)

\* ORDER BY: dedup_subids first, then the larger delay - the slower of two that work.
Before(i, j) ==
    LET rank(k) == IF items[k].sub \in Configured THEN 0 ELSE 1 IN
    \/ rank(i) < rank(j)
    \/ rank(i) = rank(j) /\ Delay(i) > Delay(j)

\* deduplicateMergedPhase(): one row of each key is left, any of those that are first.
Merge ==
    /\ job.at = "merge"
    /\ IF items = <<>> THEN UNCHANGED items
       ELSE \E i \in Present(items) :
               /\ \A j \in Present(items) : ~Before(j, i)
               /\ items' = Keep({i})
    /\ Go
    /\ UNCHANGED <<ex, subs, storeConfig, target, before>>

\* Mutant: the rows of deleted proxies stay.
NoCleanup ==
    /\ job.at = "cleanup"
    /\ Go
    /\ UNCHANGED <<items, ex, subs, storeConfig, target, before>>

CleanupEx ==
    /\ job.at = "cleanup"
    /\ ex' = [i \in Present(ex) \cap Present(items) |-> ex[i]]
    /\ Go
    /\ UNCHANGED <<items, subs, storeConfig, target, before>>

\* Without a transaction COMMIT is an error.
CommitDedup ==
    /\ job.at = "commit"
    /\ job' = [job EXCEPT !.at = "idle", !.tx = FALSE,
                          !.result = IF job.tx THEN "ok" ELSE "error"]
    /\ UNCHANGED <<items, ex, subs, storeConfig, target, before>>

\* A statement fails, because the database is locked or a name in dedup_subids has a
\* quote.  Moving proxies then rolls everything back, and what comes after is no longer
\* in a transaction; a failure in another phase is only logged.
StatementFails ==
    /\ job.at \in ToSet(Phases) \ {"commit", "garbage"} /\ job.faults < MaxFaults
    /\ job.at \in {"protect", "fallback"} => storeConfig.subids # <<>>
    /\ job.at = "blacklist" => storeConfig.blacklist
    /\ \E rolledBack \in BOOLEAN :
          /\ job.at \in {"protect", "blacklist"} => rolledBack
          /\ rolledBack => job.at \in {"protect", "fallback", "blacklist"}
          /\ items' = IF rolledBack /\ job.tx THEN before.items ELSE items
          /\ job' = [job EXCEPT !.at = IF @ = "protect" THEN "blacklist" ELSE NextPhase,
                                !.tx = @ /\ ~rolledBack, !.faults = @ + 1]
    /\ UNCHANGED <<ex, subs, storeConfig, target, before>>

-----------------------------------------------------------------------------
(* syncDatabases(): the working proxies, one after the other.               *)

ToCopy == TestedIn({"fast", "slow"})

\* A database cannot be opened, or the transaction not begun.
SyncRefused ==
    /\ job = NoJob /\ job.faults < MaxFaults
    /\ job' = [NoJob EXCEPT !.kind = "copy", !.faults = 1, !.result = "error"]
    /\ UNCHANGED <<items, ex, subs, storeConfig, target, before>>

\* The SELECT of the working proxies, the smallest delay first.  A source that is not
\* there is created empty; there, and wherever the SELECT fails, the list has what was
\* read until then, and that it is not complete is only logged.
BeginSync ==
    /\ job = NoJob
    /\ \E read \in SUBSET ToCopy :
          /\ read # ToCopy => job.faults < MaxFaults
          /\ \A i \in read, j \in ToCopy \ read : Delay(i) <= Delay(j)
          /\ job' = [NoJob EXCEPT !.kind = "copy", !.at = "copy", !.tx = TRUE, !.todo = read,
                                  !.unread = ToCopy \ read,
                                  !.faults = IF read = ToCopy THEN 0 ELSE 1]
    /\ UNCHANGED <<items, ex, subs, storeConfig, target, before>>

Skipped(i) == storeConfig.skip /\ items[i].sub \in Configured

SkipProtected(i) ==
    /\ job.at = "copy" /\ i \in job.todo /\ Skipped(i)
    /\ job' = [job EXCEPT !.todo = @ \ {i}]
    /\ UNCHANGED <<items, ex, subs, storeConfig, target, before>>

\* migrateSubscription(): switched off in the target; without a row in the source there
\* is nothing to bring.
WithSubscription(s) == IF s \in subs THEN target.subs \cup {s} ELSE target.subs

Put(t, i, v) == [j \in DOMAIN t \cup {i} |-> IF j = i THEN v ELSE t[j]]
PutIf(done, t, i, v) == IF done THEN Put(t, i, v) ELSE t
Noted(done, set, i) == IF done THEN set ELSE set \cup {i}

\* migrateSubscription(), which may fail with a warning; migrateProxy(): the proxy, and
\* then its results.  A write that fails counts; results that cannot be read are taken
\* for none.
CopyProxy(i) ==
    /\ job.at = "copy" /\ i \in job.todo /\ ~Skipped(i)
    /\ \E brought, put \in BOOLEAN, results \in {"copied", "unread", "failed"} :
          LET fails == ~put \/ results = "failed"
              clean == brought /\ put /\ results = "copied"
          IN  /\ clean \/ job.faults < MaxFaults
              /\ target' = [items |-> PutIf(put, target.items, i, items[i]),
                            ex |-> PutIf(results = "copied", target.ex, i, ex[i]),
                            subs |-> IF brought THEN WithSubscription(items[i].sub)
                                     ELSE target.subs]
              /\ job' = [job EXCEPT !.todo = @ \ {i},
                                    !.faults = IF clean THEN @ ELSE @ + 1,
                                    !.failed = IF fails THEN @ + 1 ELSE @,
                                    !.untested = Noted(results # "unread", @, i),
                                    !.orphan = Noted(brought, @, i)]
    /\ UNCHANGED <<items, ex, subs, storeConfig, before>>

\* Mutant: the result says that the transaction was committed.
EndSyncOk ==
    /\ job.at = "copy" /\ job.todo = {}
    /\ job' = [job EXCEPT !.at = "idle", !.tx = FALSE, !.result = "ok"]
    /\ UNCHANGED <<items, ex, subs, storeConfig, target, before>>

\* What was copied is committed, whatever failed.
EndSync ==
    /\ job.at = "copy" /\ job.todo = {}
    /\ job' = [job EXCEPT !.at = "idle", !.tx = FALSE,
                          !.result = IF job.failed = 0 THEN "ok" ELSE "error"]
    /\ UNCHANGED <<items, ex, subs, storeConfig, target, before>>

CommitSyncFails ==
    /\ job.at = "copy" /\ job.todo = {} /\ job.faults < MaxFaults
    /\ target' = before.target
    /\ job' = [job EXCEPT !.at = "idle", !.tx = FALSE, !.faults = @ + 1, !.result = "error"]
    /\ UNCHANGED <<items, ex, subs, storeConfig, before>>

-----------------------------------------------------------------------------

StoreNext ==
    \/ BeginDedup \/ Protect \/ Fallback \/ Blacklist \/ RemoveInvalid \/ RemoveGarbage
    \/ Merge \/ CleanupEx \/ CommitDedup \/ StatementFails
    \/ SyncRefused \/ BeginSync \/ EndSync \/ CommitSyncFails
    \/ \E i \in Index : SkipProtected(i) \/ CopyProxy(i)

StoreSpec == StoreInit /\ [][StoreNext]_storeVars

-----------------------------------------------------------------------------
(* Properties.                                                              *)

\* A proxy that works and can be used is not lost: of several rows for it one that
\* works is left, however the rows are spread over the subscriptions - unless a
\* statement failed, or the subscription it is moved to is not in the table.
Usable(i) ==
    /\ i \in Present(before.ex) /\ Working(before.ex[i])
    /\ before.items[i].kind \in {"tls", "plain"}
    /\ storeConfig.subids = <<>> => before.items[i].sub \in subs

WorkingSurvives ==
    job.faults = 0 /\ Configured \subseteq subs /\ (\E i \in Index : Usable(i)) =>
        \E i \in Present(items) \cap Present(ex) : Working(ex[i])

\* What a program reports as done is done.  A deduplication in which no statement failed
\* leaves one row for each proxy, with a subscription that exists, and no results of rows
\* that it has deleted.  A copy that reports success has brought every working proxy that
\* it does not have to skip, with its results and - if the source has it - its
\* subscription, without which a deduplication of the target would delete it.  It may
\* leave out no more than what it logs without counting it: a proxy the SELECT did not
\* get to, results that could not be read, a subscription for which a statement failed
\* (ProfileitemDAO.cpp:17-20, SubitemUpdaterV2.cpp:1228-1238 and 1380-1384).
ReportedIsDone ==
    job.result = "ok" =>
        /\ job.kind = "dedup" /\ job.faults = 0 =>
              /\ Cardinality(Present(items)) <= 1
              /\ Present(ex) \subseteq Present(items)
              /\ \A i \in Present(items) : items[i].sub \in subs
        /\ job.kind = "copy" =>
              \A i \in ToCopy \ job.unread : ~Skipped(i) =>
                  /\ i \in Present(target.items)
                  /\ i \in Present(target.ex) \/ i \in job.untested
                  /\ items[i].sub \in subs => items[i].sub \in target.subs \/ i \in job.orphan

\* Both of them: no working proxy is lost on the way, and success means that the work is
\* done (Deduplicator::deduplicate(), syncDatabases()).
StoreKeepsPromises == WorkingSurvives /\ ReportedIsDone

=============================================================================
