---------------------------- MODULE TestHistory ----------------------------
(***************************************************************************)
(* What the program remembers of one proxy: its row of ProfileExItem (the  *)
(* last verdict, the streak of failures that blacklists it, the counters   *)
(* of its sessions, two time stamps in one message) and its rows of        *)
(* proxy_runtime_history (src/src/ProfileExItemDAO.cpp,                    *)
(* src/src/ProxyRuntimeHistory.cpp).  On one connection there write:       *)
(*   - reporters, which test a proxy they run (the online probe, the pool, *)
(*     a start in the window), by SELECT and then INSERT OR REPLACE;       *)
(*   - the flush of a batch test, in sub-batches of one transaction each,  *)
(*     repeated as a whole when one of them fails;                         *)
(*   - the sessions of the proxy: one call when it starts, and one of each *)
(*     watcher when it is gone (two windows may watch one process: the     *)
(*     second has adopted it with the history row of the first).           *)
(* A statement joins the transaction that is open.  The two calls for a    *)
(* session are single steps here: SharedConnection has their insides.      *)
(***************************************************************************)
EXTENDS Integers, Sequences, FiniteSets

CONSTANTS
    Reporter,         \* threads that report a test or a start
    Launch,           \* sessions of the proxy
    Watch,            \* who watches them
    SubBatchSize,     \* SUB_BATCH_SIZE (50 in the code)
    FlushRetries,     \* MAX_FLUSH_RETRIES (3 in the code)
    MaxReports,       \* bound: reports, all together
    MaxHistoryFaults  \* bound: statements that fail

ASSUME HistoryAssumption ==
    /\ SubBatchSize \in Nat \ {0}
    /\ FlushRetries \in Nat /\ MaxReports \in Nat /\ MaxHistoryFaults \in Nat

VARIABLES
    table,        \* the proxy's row, its history rows, those with ended_at NULL
    begun,        \* the tables at BEGIN TRANSACTION; NoTable: autocommit
    report,       \* where each reporter is, and what it has read
    batch,        \* the call of updateTestResultBatch, and its retries
    launch,       \* what became of each session
    told,         \* the watchers that have finalized it
    reports,      \* reports so far
    historyFaults,
    failing,      \* the failed tests since the last success, each once
    recounts,     \* how often the batch's failure was stored again
    raced         \* "stale": a write was based on a row that had changed since;
                  \* "dirty": on one that was rolled back

historyVars == <<table, begun, report, batch, launch, told, reports, historyFaults,
                 failing, recounts, raced>>

\* success with a latency, success without one, failure (utils::isTestResultValid)
Verdict == {"valid", "unmeasured", "failed"}

NoHistory == [starts |-> 0, runtime |-> 0, crashes |-> 0]
NoRow == [exists |-> FALSE, delay |-> FALSE, failures |-> 0, test |-> FALSE,
          startup |-> FALSE, history |-> NoHistory]
NoTable == [row |-> NoRow, rows |-> {}, open |-> {}, none |-> TRUE]
NoReport == [at |-> "idle", seen |-> NoRow, what |-> "failed", inside |-> FALSE]

-----------------------------------------------------------------------------
(* The row a call of the DAO writes, from the one it has read.              *)

\* updateTestResult(): the message keeps its startup side; a failure resets the
\* counters of the sessions.
RowAfter(row, verdict) ==
    [exists |-> TRUE,
     delay |-> verdict = "valid",
     failures |-> IF verdict = "failed" THEN row.failures + 1 ELSE 0,
     test |-> row.test \/ verdict = "valid",
     startup |-> row.startup,
     history |-> IF verdict = "failed" THEN NoHistory ELSE row.history]

\* updateStartupTime(): an empty test side is filled with the startup time.
Started(row) == [row EXCEPT !.exists = TRUE, !.test = TRUE, !.startup = TRUE]

\* UPDATE ... WHERE IndexId = ?, which a missing row ignores
Count(row, starts, runtime, crashes) ==
    IF row.exists
    THEN [row EXCEPT !.history = [starts |-> @.starts + starts,
                                  runtime |-> @.runtime + runtime,
                                  crashes |-> @.crashes + crashes]]
    ELSE row

Fails == historyFaults < MaxHistoryFaults /\ historyFaults' = historyFaults + 1
Works == UNCHANGED historyFaults
InTransaction == begun # NoTable

HistoryInit ==
    /\ \E row \in {NoRow, RowAfter(NoRow, "valid")} :
          table = [row |-> row, rows |-> {}, open |-> {}, none |-> FALSE]
    /\ begun = NoTable
    /\ report = [r \in Reporter |-> NoReport]
    /\ \E results \in UNION {[1 .. n -> Verdict \cup {"other"}] : n \in 1 .. 2 * SubBatchSize} :
          /\ Cardinality({i \in DOMAIN results : results[i] # "other"}) = 1
          /\ batch = [results |-> results, at |-> "new", next |-> 1, seen |-> NoRow,
                      tries |-> 0, ok |-> TRUE, stored |-> FALSE]
    /\ launch = [l \in Launch |-> "new"]
    /\ told = [l \in Launch |-> {}]
    /\ reports = 0 /\ historyFaults = 0
    /\ failing = 0 /\ recounts = 0 /\ raced = {}

-----------------------------------------------------------------------------
(* A report: read the row, then write it as a whole.                        *)

\* A SELECT that cannot be prepared leaves a test with a blank row, and a start
\* without its time stamp.
ReadRow(r, what) ==
    /\ report[r].at = "idle" /\ reports < MaxReports
    /\ reports' = reports + 1
    /\ \/ /\ Works
          /\ report' = [report EXCEPT ![r] = [at |-> "read", seen |-> table.row, what |-> what,
                                              inside |-> InTransaction]]
          /\ UNCHANGED raced
       \/ /\ Fails /\ what # "startup"
          /\ report' = [report EXCEPT ![r] = [at |-> "read", seen |-> NoRow, what |-> what,
                                              inside |-> InTransaction]]
          /\ raced' = raced \cup {"stale"}
       \/ Fails /\ what = "startup" /\ UNCHANGED <<report, raced>>
    /\ UNCHANGED <<table, begun, batch, launch, told, failing, recounts>>

\* What a write leaves, and whether it takes back what others wrote meanwhile.
Store(r) ==
    LET seen == report[r].seen IN
    IF report[r].what # "startup" THEN RowAfter(seen, report[r].what)
    ELSE IF ~seen.exists THEN Started(NoRow)
    ELSE IF table.row.exists THEN Started(table.row)
    ELSE table.row

Judged(verdict) ==
    CASE verdict = "failed" -> failing' = failing + 1 /\ UNCHANGED recounts
      [] verdict = "startup" -> UNCHANGED <<failing, recounts>>
      [] OTHER -> failing' = 0 /\ recounts' = 0

WriteRow(r) ==
    /\ report[r].at = "read"
    /\ report' = [report EXCEPT ![r] = NoReport]
    /\ \/ /\ Works
          /\ table' = [table EXCEPT !.row = Store(r)]
          /\ raced' = IF report[r].seen # table.row \/ InTransaction
                      THEN raced \cup {"stale"} ELSE raced
          /\ Judged(report[r].what)
       \/ Fails /\ UNCHANGED <<table, raced, failing, recounts>>
    /\ UNCHANGED <<begun, batch, launch, told, reports>>

-----------------------------------------------------------------------------
(* updateTestResultBatch(), called by flushWithRetry().                     *)

\* The whole batch is tried again, or dropped.
Refused(b) ==
    IF b.tries < FlushRetries
    THEN [b EXCEPT !.at = "new", !.next = 1, !.tries = @ + 1, !.ok = TRUE]
    ELSE [b EXCEPT !.at = "done"]

\* A sub-batch that cannot begin or be prepared ends the call.
BatchBegin ==
    /\ batch.at = "new"
    /\ \/ Works /\ begun' = table /\ batch' = [batch EXCEPT !.at = "select"]
       \/ Fails /\ batch' = Refused(batch) /\ UNCHANGED begun
    /\ UNCHANGED <<table, report, launch, told, reports, failing, recounts, raced>>

BatchSelect ==
    /\ batch.at = "select"
    /\ batch' = [batch EXCEPT !.at = "insert", !.seen = table.row]
    /\ UNCHANGED <<table, begun, report, launch, told, reports, historyFaults, failing,
                   recounts, raced>>

\* The last item of a sub-batch
Full == batch.next % SubBatchSize = 0 \/ batch.next = Len(batch.results)

\* A row that cannot be written is remembered (allOk); the loop goes on.
BatchInsert ==
    LET verdict == batch.results[batch.next]
        ahead == [batch EXCEPT !.at = IF Full THEN "end" ELSE "select",
                               !.next = IF Full THEN @ ELSE @ + 1,
                               !.seen = NoRow] IN
    /\ batch.at = "insert"
    /\ \/ /\ Works /\ batch' = ahead
          /\ table' = IF verdict = "other" THEN table
                      ELSE [table EXCEPT !.row = RowAfter(batch.seen, verdict)]
          /\ raced' = IF verdict # "other" /\ batch.seen # table.row
                      THEN raced \cup {"stale"} ELSE raced
       \/ Fails /\ batch' = [ahead EXCEPT !.ok = FALSE] /\ UNCHANGED <<table, raced>>
    /\ UNCHANGED <<begun, report, launch, told, reports, failing, recounts>>

\* The proxy's result, when it is in the sub-batch that ends at next
Own == {i \in DOMAIN batch.results :
          batch.results[i] # "other"
          /\ (i - 1) \div SubBatchSize = (batch.next - 1) \div SubBatchSize}

Commit ==
    /\ begun' = NoTable
    /\ batch' = [batch EXCEPT !.at = IF batch.next = Len(batch.results) THEN "done" ELSE "new",
                              !.next = @ + 1, !.stored = @ \/ Own # {}]
    /\ report' = [r \in Reporter |-> [report[r] EXCEPT !.inside = FALSE]]
    /\ \A i \in Own :
          IF batch.stored /\ batch.results[i] = "failed"
          THEN recounts' = recounts + 1 /\ UNCHANGED failing
          ELSE Judged(batch.results[i])
    /\ Own = {} => UNCHANGED <<failing, recounts>>
    /\ UNCHANGED <<table, raced>>

\* What others wrote since BEGIN goes as well; what they read stays with them.
Rollback ==
    /\ begun' = NoTable /\ table' = begun
    /\ batch' = Refused(batch)
    /\ raced' = IF \E r \in Reporter : report[r].at = "read" /\ report[r].inside
                THEN raced \cup {"stale", "dirty"} ELSE raced
    /\ UNCHANGED <<report, failing, recounts>>

\* Mutant: what could be written is kept although a row could not.
KeepsTheRest ==
    /\ batch.at = "end"
    /\ \/ Works /\ batch.ok /\ Commit
       \/ /\ Works /\ ~batch.ok
          /\ begun' = NoTable /\ batch' = Refused(batch)
          /\ report' = [r \in Reporter |-> [report[r] EXCEPT !.inside = FALSE]]
          /\ UNCHANGED <<table, raced, failing, recounts>>
       \/ Fails /\ batch.ok /\ Rollback
    /\ UNCHANGED <<launch, told, reports>>

BatchEnd ==
    /\ batch.at = "end"
    /\ \/ Works /\ batch.ok /\ Commit
       \/ Works /\ ~batch.ok /\ Rollback
       \/ Fails /\ batch.ok /\ Rollback      \* COMMIT failed
    /\ UNCHANGED <<launch, told, reports>>

-----------------------------------------------------------------------------
(* A session: insertStartWithPort(), the exit, finalizeStop().              *)

\* Without a history row nobody watches the process.
LaunchBegins(l) ==
    /\ launch[l] = "new"
    /\ \/ /\ Works
          /\ table' = [table EXCEPT !.row = Count(@, 1, 0, 0), !.rows = @ \cup {l},
                                    !.open = @ \cup {l}]
          /\ launch' = [launch EXCEPT ![l] = "running"]
       \/ Fails /\ launch' = [launch EXCEPT ![l] = "unwatched"] /\ UNCHANGED table
    /\ UNCHANGED <<begun, report, batch, told, reports, failing, recounts, raced>>

\* Exit code 259 counts as a crash.
LaunchEnds(l) ==
    /\ launch[l] = "running"
    /\ \E how \in {"ended", "crashed"} : launch' = [launch EXCEPT ![l] = how]
    /\ UNCHANGED <<table, begun, report, batch, told, reports, historyFaults, failing,
                   recounts, raced>>

\* Mutant: the aggregates are added to without a look at ended_at.
FinalizeAgain(w, l) ==
    /\ launch[l] \in {"ended", "crashed"} /\ w \notin told[l]
    /\ told' = [told EXCEPT ![l] = @ \cup {w}]
    /\ Works
    /\ table' = IF l \in table.rows
                THEN [table EXCEPT !.open = @ \ {l},
                         !.row = Count(@, 0, 1, IF launch[l] = "crashed" THEN 1 ELSE 0)]
                ELSE table
    /\ UNCHANGED <<begun, report, batch, launch, reports, failing, recounts, raced>>

\* Only the call that fills ended_at adds to the aggregates.  A call that fails is
\* rolled back and not repeated.
Finalize(w, l) ==
    /\ launch[l] \in {"ended", "crashed"} /\ w \notin told[l]
    /\ told' = [told EXCEPT ![l] = @ \cup {w}]
    /\ \/ /\ Works
          /\ table' = IF l \in table.open
                      THEN [table EXCEPT !.open = @ \ {l},
                               !.row = Count(@, 0, 1, IF launch[l] = "crashed" THEN 1 ELSE 0)]
                      ELSE table
       \/ Fails /\ UNCHANGED table
    /\ UNCHANGED <<begun, report, batch, launch, reports, failing, recounts, raced>>

HistoryNext ==
    \/ \E r \in Reporter : WriteRow(r) \/ \E what \in Verdict \cup {"startup"} : ReadRow(r, what)
    \/ BatchBegin \/ BatchSelect \/ BatchInsert \/ BatchEnd
    \/ \E l \in Launch :
          LaunchBegins(l) \/ LaunchEnds(l) \/ \E w \in Watch : Finalize(w, l)

HistorySpec == HistoryInit /\ [][HistoryNext]_historyVars

-----------------------------------------------------------------------------

RowType == [exists : BOOLEAN, delay : BOOLEAN, failures : Nat, test : BOOLEAN,
            startup : BOOLEAN, history : [starts : Nat, runtime : Nat, crashes : Nat]]

HistoryTypeOK ==
    /\ table.row \in RowType /\ table.rows \subseteq Launch /\ table.open \subseteq table.rows
    /\ InTransaction => begun.row \in RowType
    /\ report \in [Reporter -> [at : {"idle", "read"}, seen : RowType,
                                what : Verdict \cup {"startup"}, inside : BOOLEAN]]
    /\ batch.at \in {"new", "select", "insert", "end", "done"}
    /\ batch.next \in 1 .. Len(batch.results) + 1 /\ batch.tries \in 0 .. FlushRetries
    /\ launch \in [Launch -> {"new", "running", "unwatched", "ended", "crashed"}]
    /\ told \in [Launch -> SUBSET Watch]
    /\ reports \in 0 .. MaxReports /\ historyFaults \in 0 .. MaxHistoryFaults
    /\ failing \in Nat /\ recounts \in Nat /\ raced \subseteq {"stale", "dirty"}

\* The counters of the row never exceed the rows of the history: a session is counted
\* once however many watchers report its end, and a writer that puts an old row back
\* takes away and never adds.  Only a row read inside of a transaction that was rolled
\* back can hold what never was.  (finalizeStop, updateTestResult.)
NeverMoreThanRecorded ==
    "dirty" \notin raced =>
        /\ table.row.history.starts <= Cardinality(table.rows)
        /\ table.row.history.runtime <= Cardinality(table.rows \ table.open)
        /\ table.row.history.crashes <= Cardinality({l \in table.rows \ table.open :
                                                        launch[l] = "crashed"})

\* While no write is based on a row that has changed since, the streak of failures is
\* exact: a failed test counts once, although a batch that fails is stored again from
\* its first result - except for what an earlier sub-batch of it had committed, which
\* is counted again, at most once for each retry.  (updateTestResultBatch, flushWithRetry.)
StreakIsExact ==
    /\ raced = {} /\ ~InTransaction => table.row.failures = failing + recounts
    /\ recounts <= FlushRetries
    /\ recounts > 0 => Len(batch.results) > SubBatchSize

\* A measured delay stands for the last test, so there is no streak with it; and a row
\* with the time of a start has that of a test, with which the list sorts it.
RowAgrees ==
    /\ table.row.delay => table.row.failures = 0
    /\ table.row.startup => table.row.test

HistoryIsTrue == NeverMoreThanRecorded /\ StreakIsExact /\ RowAgrees

=============================================================================
