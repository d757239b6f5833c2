--------------------------- MODULE Background_proofs ---------------------------
(***************************************************************************)
(* Theorems about the jobs behind the window that write the tables:        *)
(* TestHistory, for any number of reporters, sessions and watchers, any    *)
(* size of the sub-batches and any number of retries; SubscriptionUpdate,  *)
(* for any subscriptions, updaters and methods; ProfileStore, for any      *)
(* finite set of proxies; SubscriptionImport, for any number of importers, *)
(* of their imports and of the lines of a file.                            *)
(***************************************************************************)
EXTENDS MCBackground, Jobs_proofs, FiniteSetTheorems, SequenceTheorems,
        WellFoundedInduction, TLAPS

-----------------------------------------------------------------------------
(* TestHistory: the inductive invariant.                                    *)

\* A row as the program writes it: no streak with a delay, no start without a test,
\* and nothing without the row.
Agrees(row) ==
    /\ row.delay => row.failures = 0
    /\ row.startup => row.test
    /\ row.exists \/ row.failures = 0

GoodRow == {row \in RowType : Agrees(row)}

TableRecord == [row : GoodRow, rows : SUBSET Launch, open : SUBSET Launch, none : {FALSE}]

ReportRecord == [at : {"idle", "read"}, seen : GoodRow, what : Verdict \cup {"startup"},
                 inside : BOOLEAN]

BatchRecord == [results : Seq(Verdict \cup {"other"}),
                at : {"new", "select", "insert", "end", "done"},
                next : Nat \ {0}, seen : GoodRow, tries : 0 .. FlushRetries,
                ok : BOOLEAN, stored : BOOLEAN]

HistoryTyped ==
    /\ table \in TableRecord /\ begun \in TableRecord \cup {NoTable}
    /\ report \in [Reporter -> ReportRecord] /\ batch \in BatchRecord
    /\ launch \in [Launch -> {"new", "running", "unwatched", "ended", "crashed"}]
    /\ told \in [Launch -> SUBSET Watch]
    /\ reports \in 0 .. MaxReports /\ historyFaults \in 0 .. MaxHistoryFaults
    /\ failing \in Nat /\ recounts \in Nat /\ raced \subseteq {"stale", "dirty"}

\* The proxy's result in the batch
Mine(results) == CHOOSE i \in DOMAIN results : results[i] # "other"

\* Where the call is: one result is the proxy's, a sub-batch begins and ends where it
\* should, and its transaction is open in between.
BatchInOrder ==
    /\ Mine(batch.results) \in 1 .. Len(batch.results)
    /\ \A i \in 1 .. Len(batch.results) :
          batch.results[i] # "other" <=> i = Mine(batch.results)
    /\ InTransaction <=> batch.at \in {"select", "insert", "end"}
    /\ batch.at # "insert" => batch.seen = NoRow
    /\ batch.next <= Len(batch.results) + 1
    /\ batch.at # "done" => batch.next <= Len(batch.results)
    /\ batch.at = "new" => (batch.next - 1) % SubBatchSize = 0
    /\ batch.at = "end" => Full

\* History rows are those of sessions that were started, and the closed ones those of
\* sessions that are gone.
Sound(t, became) ==
    /\ IsFiniteSet(t.rows) /\ t.open \subseteq t.rows
    /\ \A l \in t.rows : became[l] \in {"running", "ended", "crashed"}
    /\ \A l \in t.rows \ t.open : became[l] \in {"ended", "crashed"}

TablesSound == Sound(table, launch) /\ Sound(begun, launch)

Crashed(t, became) == {l \in t.rows \ t.open : became[l] = "crashed"}

Bounded(row, t, became) ==
    /\ row.history.starts <= Cardinality(t.rows)
    /\ row.history.runtime <= Cardinality(t.rows \ t.open)
    /\ row.history.crashes <= Cardinality(Crashed(t, became))

\* Every row that may still be written is within the rows of the table, and of the table
\* that a rollback puts back - unless it was read in the transaction.
CountsBounded ==
    "dirty" \notin raced =>
        /\ Bounded(table.row, table, launch) /\ Bounded(batch.seen, table, launch)
        /\ InTransaction => Bounded(begun.row, begun, launch)
        /\ \A r \in Reporter : report[r].at = "read" =>
              /\ Bounded(report[r].seen, table, launch)
              /\ report[r].inside => InTransaction
              /\ InTransaction /\ ~report[r].inside => Bounded(report[r].seen, begun, launch)

SubBatchOf(i) == (i - 1) \div SubBatchSize

\* The transaction has come past the proxy's result.
Passed(b) ==
    /\ SubBatchOf(Mine(b.results)) = SubBatchOf(b.next)
    /\ Mine(b.results) < b.next \/ (Mine(b.results) = b.next /\ b.at = "end")

\* The streak that the transaction leaves, from the one it has found
StreakAfter(b, failures) ==
    IF ~Passed(b) THEN failures
    ELSE IF b.results[Mine(b.results)] = "failed" THEN failures + 1 ELSE 0

StreakKept ==
    raced = {} =>
        /\ ~InTransaction => table.row.failures = failing + recounts
        /\ InTransaction =>
              /\ begun.row.failures = failing + recounts
              /\ batch.ok => table.row.failures = StreakAfter(batch, begun.row.failures)

\* A result that was committed is counted again at most once for each later attempt.
RecountsBounded ==
    /\ ~batch.stored => recounts = 0
    /\ recounts <= batch.tries
    /\ batch.stored /\ batch.at # "done" =>
          /\ SubBatchOf(Mine(batch.results)) < SubBatchOf(batch.next) => recounts <= batch.tries
          /\ ~(SubBatchOf(Mine(batch.results)) < SubBatchOf(batch.next)) => recounts + 1 <= batch.tries
          /\ Len(batch.results) > SubBatchSize
    /\ recounts > 0 => Len(batch.results) > SubBatchSize

HistoryInv == HistoryTyped /\ BatchInOrder /\ TablesSound /\ CountsBounded
              /\ StreakKept /\ RecountsBounded

-----------------------------------------------------------------------------
(* Sub-batches: a fact of arithmetic each.                                  *)

LEMMA Dividing ==
    ASSUME NEW n \in Nat
    PROVE  n \div SubBatchSize \in Nat /\ n % SubBatchSize \in 0 .. SubBatchSize - 1
BY HistoryAssumption, SMT

LEMMA DividingWithin ==
    ASSUME NEW n \in Nat \ {0}, n % SubBatchSize # 0
    PROVE  n \div SubBatchSize = (n - 1) \div SubBatchSize
BY HistoryAssumption, SMT

LEMMA DividingAtEnd ==
    ASSUME NEW n \in Nat \ {0}, n % SubBatchSize = 0
    PROVE  n \div SubBatchSize = (n - 1) \div SubBatchSize + 1
BY HistoryAssumption, SMT

LEMMA DividingMonotone ==
    ASSUME NEW n \in Nat, NEW m \in Nat, m <= n
    PROVE  m \div SubBatchSize <= n \div SubBatchSize
BY HistoryAssumption, SMT

LEMMA DividingFirst ==
    ASSUME NEW n \in Nat \ {0}, n % SubBatchSize = 0
    PROVE  n >= SubBatchSize
BY HistoryAssumption, SMT

LEMMA SubsAreNumbered == \A i \in Nat \ {0} : SubBatchOf(i) \in Nat
<1> SUFFICES ASSUME NEW i \in Nat \ {0} PROVE SubBatchOf(i) \in Nat
  OBVIOUS
<1>1. i - 1 \in Nat
  OBVIOUS
<1> QED
  BY <1>1, Dividing DEF SubBatchOf

LEMMA SubsInOrder ==
    ASSUME NEW i \in Nat \ {0}, NEW j \in Nat \ {0}, i <= j
    PROVE  SubBatchOf(i) <= SubBatchOf(j)
<1>1. i - 1 \in Nat /\ j - 1 \in Nat /\ i - 1 <= j - 1
  OBVIOUS
<1> QED
  BY <1>1, DividingMonotone DEF SubBatchOf

\* The next result is in the same sub-batch, unless this one ends it.
LEMMA NextSub ==
    ASSUME NEW n \in Nat \ {0}
    PROVE  /\ n % SubBatchSize # 0 => SubBatchOf(n + 1) = SubBatchOf(n)
           /\ n % SubBatchSize = 0 => SubBatchOf(n + 1) = SubBatchOf(n) + 1
<1>1. (n + 1) - 1 = n
  OBVIOUS
<1> QED
  BY <1>1, DividingWithin, DividingAtEnd DEF SubBatchOf

\* No earlier result is in a sub-batch that begins with n, and no later one in one
\* that ends with it.
LEMMA SubEdges ==
    ASSUME NEW n \in Nat \ {0}, NEW i \in Nat \ {0}, SubBatchOf(i) = SubBatchOf(n)
    PROVE  /\ (n - 1) % SubBatchSize = 0 => i >= n
           /\ n % SubBatchSize = 0 => i <= n
<1>1. ASSUME (n - 1) % SubBatchSize = 0, i < n
      PROVE  FALSE
  <2>1. n - 1 \in Nat \ {0} /\ i <= n - 1 /\ (n - 1) + 1 = n
    BY <1>1
  <2>2. SubBatchOf(n) = SubBatchOf(n - 1) + 1
    BY <1>1, <2>1, NextSub
  <2>3. SubBatchOf(i) <= SubBatchOf(n - 1) /\ SubBatchOf(n - 1) \in Nat
    BY <2>1, SubsInOrder, SubsAreNumbered
  <2> QED
    BY <2>2, <2>3
<1>2. ASSUME n % SubBatchSize = 0, n < i
      PROVE  FALSE
  <2>1. SubBatchOf(n + 1) = SubBatchOf(n) + 1
    BY <1>2, NextSub
  <2>2. n + 1 \in Nat \ {0} /\ n + 1 <= i
    BY <1>2
  <2>3. SubBatchOf(n + 1) <= SubBatchOf(i) /\ SubBatchOf(n) \in Nat
    BY <2>2, SubsInOrder, SubsAreNumbered
  <2> QED
    BY <2>1, <2>3
<1> QED
  BY <1>1, <1>2

-----------------------------------------------------------------------------
(* Rows.                                                                    *)

LEMMA RowsStayGood ==
    ASSUME NEW row \in GoodRow
    PROVE  /\ \A found \in Verdict : RowAfter(row, found) \in GoodRow
           /\ Started(row) \in GoodRow
           /\ \A a \in Nat, b \in Nat, c \in Nat : Count(row, a, b, c) \in GoodRow
           /\ NoRow \in GoodRow
<1>1. row \in RowType /\ Agrees(row)
  BY DEF GoodRow
<1>2. ASSUME NEW found \in Verdict
      PROVE  RowAfter(row, found) \in GoodRow
  <2> DEFINE failures == IF found = "failed" THEN row.failures + 1 ELSE 0
             history == IF found = "failed" THEN NoHistory ELSE row.history
             delay == found = "valid"
             test == row.test \/ found = "valid"
  <2>1. /\ failures \in Nat /\ history \in [starts : Nat, runtime : Nat, crashes : Nat]
        /\ delay \in BOOLEAN /\ test \in BOOLEAN /\ row.startup \in BOOLEAN
    BY <1>1 DEF RowType, NoHistory
  <2>2. /\ delay => failures = 0
        /\ row.startup => test
    BY <1>1 DEF Agrees
  <2>3. RowAfter(row, found) = [exists |-> TRUE, delay |-> delay, failures |-> failures,
                                  test |-> test, startup |-> row.startup, history |-> history]
    BY DEF RowAfter
  <2> HIDE DEF failures, history, delay, test
  <2>4. RowAfter(row, found) \in RowType
    BY <2>1, <2>3 DEF RowType
  <2>5. Agrees(RowAfter(row, found))
    BY <2>2, <2>3 DEF Agrees
  <2> QED
    BY <2>4, <2>5 DEF GoodRow
<1>3. Started(row) \in GoodRow
  BY <1>1 DEF GoodRow, Started, RowType, Agrees
<1>4. ASSUME NEW a \in Nat, NEW b \in Nat, NEW c \in Nat
      PROVE  Count(row, a, b, c) \in GoodRow
  <2> DEFINE h == [starts |-> row.history.starts + a, runtime |-> row.history.runtime + b,
                   crashes |-> row.history.crashes + c]
  <2>1. h \in [starts : Nat, runtime : Nat, crashes : Nat]
    BY <1>1 DEF RowType
  <2>2. Count(row, a, b, c) = IF row.exists THEN [row EXCEPT !.history = h] ELSE row
    BY DEF Count
  <2> HIDE DEF h
  <2> QED
    BY <1>1, <2>1, <2>2 DEF GoodRow, RowType, Agrees
<1>5. NoRow \in GoodRow
  BY DEF GoodRow, NoRow, NoHistory, RowType, Agrees
<1> QED
  BY <1>2, <1>3, <1>4, <1>5

LEMMA NoTableIsNone == NoTable \notin TableRecord
BY DEF NoTable, TableRecord

\* What a write keeps within bounds.
LEMMA RowsStayBounded ==
    ASSUME NEW row \in GoodRow, NEW t \in TableRecord, IsFiniteSet(t.rows), NEW became,
           Bounded(row, t, became)
    PROVE  /\ \A found : Bounded(RowAfter(row, found), t, became)
           /\ Bounded(Started(row), t, became)
           /\ Bounded(NoRow, t, became)
<1>1. /\ Cardinality(t.rows) \in Nat /\ Cardinality(t.rows \ t.open) \in Nat
      /\ Cardinality(Crashed(t, became)) \in Nat
  BY FS_CardinalityType, FS_Subset DEF Crashed
<1>2. Bounded(NoRow, t, became)
  BY <1>1 DEF Bounded, NoRow, NoHistory
<1>3. \A found : RowAfter(row, found).history \in {row.history, NoHistory}
  BY DEF RowAfter
<1>4. \A found : Bounded(RowAfter(row, found), t, became)
  BY <1>1, <1>3 DEF Bounded, NoHistory
<1>5. Started(row).history = row.history
  BY DEF Started, GoodRow, RowType
<1> QED
  BY <1>2, <1>4, <1>5 DEF Bounded

\* More history bounds as much.
LEMMA BoundsGrow ==
    ASSUME NEW row \in GoodRow, NEW t, NEW u, NEW became, NEW becomes,
           IsFiniteSet(t.rows), IsFiniteSet(u.rows), t.rows \subseteq u.rows,
           t.rows \ t.open \subseteq u.rows \ u.open,
           Crashed(t, became) \subseteq Crashed(u, becomes), Bounded(row, t, became)
    PROVE  Bounded(row, u, becomes)
<1>1. IsFiniteSet(u.rows \ u.open) /\ IsFiniteSet(Crashed(u, becomes))
  BY FS_Subset DEF Crashed
<1>2. IsFiniteSet(t.rows \ t.open) /\ IsFiniteSet(Crashed(t, became))
  BY FS_Subset DEF Crashed
<1>3. /\ Cardinality(t.rows) <= Cardinality(u.rows)
      /\ Cardinality(t.rows \ t.open) <= Cardinality(u.rows \ u.open)
      /\ Cardinality(Crashed(t, became)) <= Cardinality(Crashed(u, becomes))
  BY <1>1, FS_Subset
<1>4. /\ Cardinality(t.rows) \in Nat /\ Cardinality(u.rows) \in Nat
      /\ Cardinality(t.rows \ t.open) \in Nat /\ Cardinality(u.rows \ u.open) \in Nat
      /\ Cardinality(Crashed(t, became)) \in Nat /\ Cardinality(Crashed(u, becomes)) \in Nat
  BY <1>1, <1>2, FS_CardinalityType
<1>5. /\ row.history.starts \in Nat /\ row.history.runtime \in Nat /\ row.history.crashes \in Nat
  BY DEF GoodRow, RowType
<1> QED
  BY <1>3, <1>4, <1>5 DEF Bounded

LEMMA HistoryTypes == HistoryInv => HistoryTypeOK
<1> SUFFICES ASSUME HistoryInv PROVE HistoryTypeOK
  OBVIOUS
<1>1. HistoryTyped /\ BatchInOrder /\ TablesSound
  BY DEF HistoryInv
<1>2. table.row \in RowType /\ table.rows \subseteq Launch /\ table.open \subseteq table.rows
  BY <1>1 DEF HistoryTyped, TableRecord, GoodRow, TablesSound, Sound
<1>3. InTransaction => begun.row \in RowType
  BY <1>1 DEF HistoryTyped, TableRecord, GoodRow, InTransaction
<1>4. report \in [Reporter -> [at : {"idle", "read"}, seen : RowType,
                               what : Verdict \cup {"startup"}, inside : BOOLEAN]]
  BY <1>1 DEF HistoryTyped, ReportRecord, GoodRow
<1>5. batch.next \in 1 .. Len(batch.results) + 1
  BY <1>1, LenProperties DEF HistoryTyped, BatchInOrder, BatchRecord
<1> QED
  BY <1>1, <1>2, <1>3, <1>4, <1>5 DEF HistoryTypeOK, HistoryTyped, BatchRecord

-----------------------------------------------------------------------------
(* The invariant holds at the start.                                        *)

\* One result of the batch is the proxy's.
LEMMA OneIsMine ==
    ASSUME NEW n \in Nat, NEW results \in [1 .. n -> Verdict \cup {"other"}],
           Cardinality({i \in DOMAIN results : results[i] # "other"}) = 1
    PROVE  /\ results \in Seq(Verdict \cup {"other"}) /\ Len(results) = n
           /\ Mine(results) \in 1 .. n
           /\ \A i \in 1 .. n : results[i] # "other" <=> i = Mine(results)
<1> DEFINE M == {i \in 1 .. n : results[i] # "other"}
<1>1. IsFiniteSet(1 .. n) /\ DOMAIN results = 1 .. n
  BY FS_Interval
<1>2. IsFiniteSet(M) /\ Cardinality(M) = 1
  BY <1>1, FS_Subset
<1>3. PICK m : M = {m}
  BY <1>2, FS_Singleton
<1>4. m \in 1 .. n /\ \A i \in 1 .. n : results[i] # "other" <=> i = m
  BY <1>3
<1>5. Mine(results) = m
  BY <1>1, <1>4 DEF Mine
<1> QED
  BY <1>4, <1>5

LEMMA HistoryInitially == HistoryInit => HistoryInv
<1> SUFFICES ASSUME HistoryInit PROVE HistoryInv
  OBVIOUS
<1> USE HistoryAssumption
<1>1. NoRow \in GoodRow /\ RowAfter(NoRow, "valid") \in GoodRow
  <2>1. NoRow \in GoodRow /\ "valid" \in Verdict
    BY DEF GoodRow, NoRow, NoHistory, RowType, Agrees, Verdict
  <2> QED
    BY <2>1, RowsStayGood
<1>2. PICK row \in {NoRow, RowAfter(NoRow, "valid")} :
         table = [row |-> row, rows |-> {}, open |-> {}, none |-> FALSE]
  BY DEF HistoryInit
<1>3. row \in GoodRow /\ row.failures = 0 /\ row.history = NoHistory
  <2>1. NoRow.failures = 0 /\ NoRow.history = NoHistory
    BY DEF NoRow
  <2>2. /\ RowAfter(NoRow, "valid").failures = 0
        /\ RowAfter(NoRow, "valid").history = NoRow.history
    BY DEF RowAfter
  <2> QED
    BY <1>1, <1>2, <2>1, <2>2
<1>4. table \in TableRecord
  BY <1>2, <1>3 DEF TableRecord
<1>5. PICK results \in UNION {[1 .. n -> Verdict \cup {"other"}] : n \in 1 .. 2 * SubBatchSize} :
         /\ Cardinality({i \in DOMAIN results : results[i] # "other"}) = 1
         /\ batch = [results |-> results, at |-> "new", next |-> 1, seen |-> NoRow,
                     tries |-> 0, ok |-> TRUE, stored |-> FALSE]
  BY DEF HistoryInit
<1>14. PICK n \in 1 .. 2 * SubBatchSize : results \in [1 .. n -> Verdict \cup {"other"}]
  OBVIOUS
<1>6. /\ results \in Seq(Verdict \cup {"other"}) /\ Len(results) = n
      /\ Mine(results) \in 1 .. n /\ n \in Nat
      /\ \A i \in 1 .. n : results[i] # "other" <=> i = Mine(results)
  BY <1>5, <1>14, OneIsMine
<1>7. batch \in BatchRecord
  BY <1>1, <1>5, <1>6 DEF BatchRecord
<1>8. /\ begun = NoTable /\ report = [r \in Reporter |-> NoReport]
      /\ launch = [l \in Launch |-> "new"] /\ told = [l \in Launch |-> {}]
      /\ reports = 0 /\ historyFaults = 0 /\ failing = 0 /\ recounts = 0 /\ raced = {}
  BY DEF HistoryInit
<1>9. HistoryTyped
  BY <1>1, <1>4, <1>7, <1>8 DEF HistoryTyped, ReportRecord, NoReport, Verdict
<1>10. BatchInOrder
  <2>1. (1 - 1) % SubBatchSize = 0
    BY SMT
  <2> QED
    BY <1>5, <1>6, <1>8, <2>1 DEF BatchInOrder, InTransaction
<1>11. TablesSound
  BY <1>2, <1>8, FS_EmptySet DEF TablesSound, Sound, NoTable
<1>12. CountsBounded
  <2>1. table.rows = {} /\ table.rows \ table.open = {} /\ table.row = row
    BY <1>2
  <2>2. Crashed(table, launch) = {}
    BY <2>1 DEF Crashed
  <2>3. batch.seen.history = NoHistory
    BY <1>5 DEF NoRow
  <2>4. Bounded(table.row, table, launch) /\ Bounded(batch.seen, table, launch)
    BY <1>3, <2>1, <2>2, <2>3, FS_EmptySet DEF Bounded, NoHistory
  <2> QED
    BY <1>8, <2>4 DEF CountsBounded, InTransaction, NoReport
<1>13. StreakKept /\ RecountsBounded
  BY <1>2, <1>3, <1>5, <1>8 DEF StreakKept, RecountsBounded, InTransaction
<1> QED
  BY <1>9, <1>10, <1>11, <1>12, <1>13 DEF HistoryInv

-----------------------------------------------------------------------------
(* A report.                                                                *)

LEMMA OrderKept ==
    ASSUME HistoryInv, batch' = batch, begun' = begun
    PROVE  BatchInOrder'
BY DEF HistoryInv, BatchInOrder, InTransaction, Full

LEMMA RecountsKept ==
    ASSUME HistoryInv, batch' = batch, recounts' \in {recounts, 0}
    PROVE  RecountsBounded'
<1>1. recounts \in Nat /\ batch.tries \in Nat
  BY HistoryAssumption DEF HistoryInv, HistoryTyped, BatchRecord
<1>2. RecountsBounded
  BY DEF HistoryInv
<1> QED
  BY <1>1, <1>2 DEF RecountsBounded

LEMMA ReadingTyped ==
    ASSUME NEW seen \in GoodRow, NEW what \in Verdict \cup {"startup"}, NEW inside \in BOOLEAN
    PROVE  [at |-> "read", seen |-> seen, what |-> what, inside |-> inside] \in ReportRecord
BY DEF ReportRecord

LEMMA ReadStep ==
    ASSUME HistoryInv, NEW r \in Reporter, NEW what \in Verdict \cup {"startup"}, ReadRow(r, what)
    PROVE  HistoryInv'
<1> USE HistoryAssumption
<1>1. HistoryTyped /\ TablesSound /\ CountsBounded /\ StreakKept
  BY DEF HistoryInv
<1>2. UNCHANGED <<table, begun, batch, launch, told, failing, recounts>>
      /\ reports' = reports + 1 /\ reports < MaxReports
      /\ historyFaults' \in 0 .. MaxHistoryFaults
  BY <1>1 DEF ReadRow, Fails, Works, HistoryTyped
<1>3. table \in TableRecord /\ table.row \in GoodRow /\ NoRow \in GoodRow
      /\ IsFiniteSet(table.rows)
  BY <1>1, RowsStayGood DEF HistoryTyped, TableRecord, TablesSound, Sound
<1>4. \/ UNCHANGED <<report, raced>>
      \/ \E seen \in {table.row, NoRow} :
            /\ report' = [report EXCEPT ![r] = [at |-> "read", seen |-> seen, what |-> what,
                                                inside |-> InTransaction]]
            /\ raced' \in {raced, raced \cup {"stale"}}
  BY DEF ReadRow
<1>5. raced' \in {raced, raced \cup {"stale"}}
  BY <1>4
<1>6. report' \in [Reporter -> ReportRecord]
  <2>1. InTransaction \in BOOLEAN
    BY DEF InTransaction
  <2> QED
    BY <1>1, <1>3, <1>4, <2>1, ReadingTyped DEF HistoryTyped
<1>7. HistoryTyped'
  BY <1>1, <1>2, <1>5, <1>6 DEF HistoryTyped
<1>8. TablesSound' /\ StreakKept'
  BY <1>1, <1>2, <1>5 DEF TablesSound, StreakKept, InTransaction
<1>9. CountsBounded'
  <2> SUFFICES ASSUME "dirty" \notin raced PROVE CountsBounded'
    BY <1>5 DEF CountsBounded
  <2>1. CASE UNCHANGED <<report, raced>>
    BY <1>1, <1>2, <2>1 DEF CountsBounded, InTransaction
  <2>2. ASSUME NEW seen \in {table.row, NoRow},
               report' = [report EXCEPT ![r] = [at |-> "read", seen |-> seen, what |-> what,
                                                inside |-> InTransaction]]
        PROVE  CountsBounded'
    <3>1. Bounded(seen, table, launch)
      BY <1>1, <1>3, RowsStayBounded DEF CountsBounded
    <3>2. /\ report'[r].seen = seen /\ report'[r].inside = InTransaction
          /\ \A q \in Reporter \ {r} : report'[q] = report[q]
      BY <1>1, <2>2 DEF HistoryTyped
    <3> QED
      BY <1>1, <1>2, <3>1, <3>2 DEF CountsBounded, InTransaction
  <2> QED
    BY <1>4, <2>1, <2>2
<1>10. BatchInOrder' /\ RecountsBounded'
  BY <1>2, OrderKept, RecountsKept
<1> QED
  BY <1>7, <1>8, <1>9, <1>10 DEF HistoryInv

LEMMA WriteStep ==
    ASSUME HistoryInv, NEW r \in Reporter, WriteRow(r)
    PROVE  HistoryInv'
<1> USE HistoryAssumption
<1> DEFINE seen == report[r].seen
           what == report[r].what
<1>1. HistoryTyped /\ TablesSound /\ CountsBounded /\ StreakKept
  BY DEF HistoryInv
<1>2. UNCHANGED <<begun, batch, launch, told, reports>>
      /\ report[r].at = "read" /\ report' = [report EXCEPT ![r] = NoReport]
      /\ historyFaults' \in 0 .. MaxHistoryFaults
  BY <1>1 DEF WriteRow, Fails, Works, HistoryTyped
<1>3. seen \in GoodRow /\ what \in Verdict \cup {"startup"}
  BY <1>1 DEF HistoryTyped, ReportRecord
<1>4. table \in TableRecord /\ table.row \in GoodRow /\ NoRow \in GoodRow
      /\ IsFiniteSet(table.rows)
  BY <1>1, RowsStayGood DEF HistoryTyped, TableRecord, TablesSound, Sound
<1>5. /\ what # "startup" => Store(r) = RowAfter(seen, what)
      /\ what = "startup" => Store(r) \in {Started(table.row), table.row, Started(NoRow)}
      /\ what = "startup" /\ seen = table.row =>
            Store(r) = IF table.row.exists THEN Started(table.row) ELSE Started(NoRow)
  BY DEF Store
<1>6. Store(r) \in GoodRow
  BY <1>3, <1>4, <1>5, RowsStayGood
<1>7. \/ UNCHANGED <<table, raced, failing, recounts>>
      \/ /\ table' = [table EXCEPT !.row = Store(r)]
         /\ raced' = IF seen # table.row \/ InTransaction THEN raced \cup {"stale"} ELSE raced
         /\ Judged(what)
  BY DEF WriteRow
<1>8. /\ table' \in TableRecord /\ table'.rows = table.rows /\ table'.open = table.open
      /\ table'.row \in {table.row, Store(r)}
      /\ raced' \in {raced, raced \cup {"stale"}}
      /\ failing' \in Nat /\ recounts' \in {recounts, 0}
  <2>1. failing' \in Nat /\ recounts' \in {recounts, 0}
    BY <1>1, <1>7 DEF Judged, HistoryTyped
  <2>2. CASE UNCHANGED <<table, raced, failing, recounts>>
    BY <1>4, <2>1, <2>2
  <2>3. CASE /\ table' = [table EXCEPT !.row = Store(r)]
             /\ raced' = IF seen # table.row \/ InTransaction THEN raced \cup {"stale"} ELSE raced
    BY <1>4, <1>6, <2>1, <2>3 DEF TableRecord
  <2> QED
    BY <1>7, <2>2, <2>3
<1>9. HistoryTyped'
  <2>1. NoReport \in ReportRecord
    BY <1>4 DEF NoReport, ReportRecord, Verdict
  <2> QED
    BY <1>1, <1>2, <1>8, <2>1 DEF HistoryTyped
<1>10. TablesSound'
  BY <1>1, <1>2, <1>8 DEF TablesSound, Sound
<1>11. CountsBounded'
  <2> SUFFICES ASSUME "dirty" \notin raced PROVE CountsBounded'
    BY <1>8 DEF CountsBounded
  <2>1. Bounded(seen, table, launch) /\ Bounded(table.row, table, launch)
    BY <1>1, <1>2 DEF CountsBounded
  <2>2. Bounded(Store(r), table, launch)
    BY <1>3, <1>4, <1>5, <2>1, RowsStayBounded
  <2>3. \A row : Bounded(row, table, launch) => Bounded(row, table', launch)
    BY <1>8 DEF Bounded, Crashed
  <2>4. \A q \in Reporter : report'[q].at = "read" => report'[q] = report[q]
    BY <1>1, <1>2 DEF HistoryTyped, NoReport
  <2> QED
    BY <1>1, <1>2, <1>8, <2>1, <2>2, <2>3, <2>4 DEF CountsBounded, InTransaction
<1>12. StreakKept'
  <2>1. CASE UNCHANGED <<table, raced, failing, recounts>>
    BY <1>1, <1>2, <2>1 DEF StreakKept, InTransaction
  <2>2. CASE /\ table' = [table EXCEPT !.row = Store(r)]
             /\ raced' = IF seen # table.row \/ InTransaction THEN raced \cup {"stale"} ELSE raced
             /\ Judged(what)
    <3> SUFFICES ASSUME raced' = {} PROVE StreakKept'
      BY DEF StreakKept
    <3>1. raced = {} /\ seen = table.row /\ ~InTransaction
      BY <2>2
    <3>2. table.row.failures = failing + recounts /\ failing \in Nat /\ recounts \in Nat
      BY <1>1, <3>1 DEF StreakKept, HistoryTyped
    <3>3. table'.row = Store(r)
      BY <1>4, <2>2 DEF TableRecord
    <3>4. table'.row.failures = failing' + recounts'
      <4>1. CASE what = "startup"
        <5>1. /\ table.row.exists => Store(r).failures = table.row.failures
              /\ ~table.row.exists => Store(r).failures = 0 /\ table.row.failures = 0
          BY <1>4, <1>5, <3>1, <4>1 DEF Started, NoRow, GoodRow, RowType, Agrees
        <5>2. UNCHANGED <<failing, recounts>>
          BY <2>2, <4>1 DEF Judged
        <5> QED
          BY <3>2, <3>3, <5>1, <5>2
      <4>2. CASE what = "failed"
        <5>1. Store(r).failures = table.row.failures + 1
          BY <1>5, <3>1, <4>2 DEF RowAfter
        <5>2. failing' = failing + 1 /\ recounts' = recounts
          BY <2>2, <4>2 DEF Judged
        <5> QED
          BY <3>2, <3>3, <5>1, <5>2
      <4>3. CASE what \notin {"startup", "failed"}
        <5>1. Store(r).failures = 0
          BY <1>5, <4>3 DEF RowAfter
        <5>2. failing' = 0 /\ recounts' = 0
          BY <2>2, <4>3 DEF Judged
        <5> QED
          BY <3>3, <5>1, <5>2
      <4> QED
        BY <4>1, <4>2, <4>3
    <3> QED
      BY <1>2, <3>1, <3>4 DEF StreakKept, InTransaction
  <2> QED
    BY <1>7, <2>1, <2>2
<1>13. BatchInOrder' /\ RecountsBounded'
  BY <1>2, <1>8, OrderKept, RecountsKept
<1> QED
  BY <1>9, <1>10, <1>11, <1>12, <1>13 DEF HistoryInv

-----------------------------------------------------------------------------
(* The steps of the batch.                                                  *)

LEMMA BatchFacts ==
    ASSUME HistoryInv
    PROVE  /\ batch \in BatchRecord /\ batch.next \in Nat \ {0}
           /\ Len(batch.results) \in Nat /\ DOMAIN batch.results = 1 .. Len(batch.results)
           /\ Mine(batch.results) \in 1 .. Len(batch.results)
           /\ Mine(batch.results) \in Nat \ {0}
           /\ SubBatchOf(Mine(batch.results)) \in Nat /\ SubBatchOf(batch.next) \in Nat
           /\ recounts \in Nat /\ failing \in Nat /\ batch.tries \in 0 .. FlushRetries
           /\ \A i \in 1 .. Len(batch.results) :
                 batch.results[i] \in Verdict \cup {"other"}
                 /\ (batch.results[i] # "other" <=> i = Mine(batch.results))
<1>1. batch \in BatchRecord /\ batch.results \in Seq(Verdict \cup {"other"})
      /\ batch.next \in Nat \ {0} /\ recounts \in Nat /\ failing \in Nat
      /\ batch.tries \in 0 .. FlushRetries
  BY DEF HistoryInv, HistoryTyped, BatchRecord
<1>2. /\ Len(batch.results) \in Nat /\ DOMAIN batch.results = 1 .. Len(batch.results)
      /\ \A i \in 1 .. Len(batch.results) : batch.results[i] \in Verdict \cup {"other"}
  BY <1>1, LenProperties, ElementOfSeq
<1>3. /\ Mine(batch.results) \in 1 .. Len(batch.results)
      /\ \A i \in 1 .. Len(batch.results) :
            batch.results[i] # "other" <=> i = Mine(batch.results)
  BY DEF HistoryInv, BatchInOrder
<1>4. Mine(batch.results) \in Nat \ {0}
  BY <1>2, <1>3
<1> QED
  BY <1>1, <1>2, <1>3, <1>4, SubsAreNumbered

\* The call is repeated from its first result, or given up.
LEMMA Refusing ==
    ASSUME HistoryInv, batch.at \in {"new", "end"}, batch' = Refused(batch),
           recounts' = recounts, begun' = NoTable
    PROVE  /\ batch' \in BatchRecord /\ batch'.seen = NoRow
           /\ BatchInOrder' /\ RecountsBounded'
<1> USE HistoryAssumption
<1> DEFINE rs == batch.results
<1>1. BatchInOrder /\ RecountsBounded
  BY DEF HistoryInv
<1>2. /\ batch \in BatchRecord /\ Len(rs) \in Nat /\ Mine(rs) \in 1 .. Len(rs)
      /\ recounts \in Nat /\ batch.tries \in 0 .. FlushRetries
  BY BatchFacts
<1>3. /\ batch.tries < FlushRetries =>
            batch' = [batch EXCEPT !.at = "new", !.next = 1, !.tries = @ + 1, !.ok = TRUE]
      /\ ~(batch.tries < FlushRetries) => batch' = [batch EXCEPT !.at = "done"]
  BY DEF Refused
<1>4. /\ batch' \in BatchRecord /\ batch'.results = rs /\ batch'.seen = batch.seen
      /\ batch'.stored = batch.stored
      /\ \/ batch'.at = "new" /\ batch'.next = 1 /\ batch'.tries = batch.tries + 1
         \/ batch'.at = "done" /\ batch'.next = batch.next /\ batch'.tries = batch.tries
  <2>1. CASE batch.tries < FlushRetries
    <3>1. batch' = [batch EXCEPT !.at = "new", !.next = 1, !.tries = batch.tries + 1, !.ok = TRUE]
      BY <1>3, <2>1
    <3>2. batch.tries + 1 \in 0 .. FlushRetries
      BY <1>2, <2>1
    <3>3. batch' \in BatchRecord
      <4> DEFINE k == batch.tries + 1
      <4>1. k \in 0 .. FlushRetries /\ 1 \in Nat \ {0}
        BY <3>2
      <4>2. batch' = [batch EXCEPT !.at = "new", !.next = 1, !.tries = k, !.ok = TRUE]
        BY <3>1
      <4> HIDE DEF k
      <4> QED
        BY <1>2, <4>1, <4>2 DEF BatchRecord
    <3>4. /\ batch'.results = rs /\ batch'.seen = batch.seen /\ batch'.stored = batch.stored
          /\ batch'.at = "new" /\ batch'.next = 1 /\ batch'.tries = batch.tries + 1
      BY <1>2, <3>1 DEF BatchRecord
    <3> QED
      BY <3>3, <3>4
  <2>2. CASE ~(batch.tries < FlushRetries)
    <3>1. batch' = [batch EXCEPT !.at = "done"]
      BY <1>3, <2>2
    <3> QED
      BY <1>2, <3>1 DEF BatchRecord
  <2> QED
    BY <2>1, <2>2
<1>5. batch.seen = NoRow
  BY <1>1 DEF BatchInOrder
<1>6. (1 - 1) % SubBatchSize = 0
  BY SMT
<1>7. BatchInOrder'
  BY <1>1, <1>2, <1>4, <1>5, <1>6 DEF BatchInOrder, InTransaction
<1>8. RecountsBounded'
  <2>1. CASE batch'.at = "done" /\ batch'.tries = batch.tries
    BY <1>1, <1>4, <2>1 DEF RecountsBounded
  <2>2. CASE batch'.at = "new" /\ batch'.next = 1 /\ batch'.tries = batch.tries + 1
    <3>1. recounts <= batch.tries
      BY <1>1 DEF RecountsBounded
    <3>2. recounts <= batch'.tries /\ recounts + 1 <= batch'.tries
      BY <1>2, <2>2, <3>1
    <3>3. batch.stored => Len(rs) > SubBatchSize
      BY <1>1 DEF RecountsBounded
    <3> QED
      BY <1>1, <1>4, <3>2, <3>3 DEF RecountsBounded
  <2> QED
    BY <1>4, <2>1, <2>2
<1> QED
  BY <1>4, <1>5, <1>7, <1>8

LEMMA BatchBeginsStep ==
    ASSUME HistoryInv, BatchBegin
    PROVE  HistoryInv'
<1> USE HistoryAssumption
<1>1. HistoryTyped /\ BatchInOrder /\ TablesSound /\ CountsBounded /\ StreakKept /\ RecountsBounded
  BY DEF HistoryInv
<1>2. UNCHANGED <<table, report, launch, told, reports, failing, recounts, raced>>
      /\ batch.at = "new" /\ historyFaults' \in 0 .. MaxHistoryFaults
  BY <1>1 DEF BatchBegin, Fails, Works, HistoryTyped
<1>3. begun = NoTable /\ table \in TableRecord /\ table # NoTable
  BY <1>1, <1>2, NoTableIsNone DEF BatchInOrder, InTransaction, HistoryTyped
<1>4. CASE begun' = table /\ batch' = [batch EXCEPT !.at = "select"]
  <2>1. /\ batch' \in BatchRecord /\ batch'.at = "select" /\ batch'.results = batch.results
        /\ batch'.next = batch.next /\ batch'.seen = batch.seen /\ batch'.tries = batch.tries
        /\ batch'.ok = batch.ok /\ batch'.stored = batch.stored
    BY <1>4, BatchFacts DEF BatchRecord
  <2>2. HistoryTyped'
    BY <1>1, <1>2, <1>3, <1>4, <2>1 DEF HistoryTyped
  <2>3. BatchInOrder'
    BY <1>1, <1>2, <1>3, <1>4, <2>1 DEF BatchInOrder, InTransaction
  <2>4. TablesSound'
    BY <1>1, <1>2, <1>4 DEF TablesSound
  <2>5. CountsBounded'
    BY <1>1, <1>2, <1>3, <1>4, <2>1 DEF CountsBounded, InTransaction
  <2>6. StreakKept'
    <3>1. ~Passed(batch')
      BY <1>1, <1>2, <2>1, BatchFacts, SubEdges DEF Passed, BatchInOrder
    <3>2. raced = {} => table.row.failures = failing + recounts
      BY <1>1, <1>3 DEF StreakKept, InTransaction
    <3> QED
      BY <1>2, <1>3, <1>4, <3>1, <3>2 DEF StreakKept, StreakAfter, InTransaction
  <2>7. RecountsBounded'
    BY <1>1, <1>2, <2>1 DEF RecountsBounded
  <2> QED
    BY <2>2, <2>3, <2>4, <2>5, <2>6, <2>7 DEF HistoryInv
<1>5. CASE begun' = begun /\ batch' = Refused(batch)
  <2>1. /\ batch' \in BatchRecord /\ batch'.seen = NoRow
        /\ BatchInOrder' /\ RecountsBounded'
    BY <1>2, <1>3, <1>5, Refusing
  <2>2. batch.seen = NoRow
    BY <1>1, <1>2 DEF BatchInOrder
  <2>3. HistoryTyped' /\ TablesSound'
    BY <1>1, <1>2, <1>5, <2>1 DEF HistoryTyped, TablesSound
  <2>4. CountsBounded'
    BY <1>1, <1>2, <1>5, <2>1, <2>2 DEF CountsBounded, InTransaction
  <2>5. StreakKept'
    BY <1>1, <1>2, <1>3, <1>5 DEF StreakKept, InTransaction
  <2> QED
    BY <2>1, <2>3, <2>4, <2>5 DEF HistoryInv
<1> QED
  BY <1>4, <1>5 DEF BatchBegin

LEMMA SelectStep ==
    ASSUME HistoryInv, BatchSelect
    PROVE  HistoryInv'
<1>1. HistoryTyped /\ BatchInOrder /\ TablesSound /\ CountsBounded /\ StreakKept /\ RecountsBounded
  BY DEF HistoryInv
<1>2. UNCHANGED <<table, begun, report, launch, told, reports, historyFaults, failing,
                  recounts, raced>>
      /\ batch.at = "select" /\ batch' = [batch EXCEPT !.at = "insert", !.seen = table.row]
  BY DEF BatchSelect
<1>3. /\ batch' \in BatchRecord /\ batch'.at = "insert" /\ batch'.results = batch.results
      /\ batch'.next = batch.next /\ batch'.seen = table.row /\ batch'.tries = batch.tries
      /\ batch'.ok = batch.ok /\ batch'.stored = batch.stored
  BY <1>1, <1>2 DEF BatchRecord, HistoryTyped, TableRecord
<1>4. HistoryTyped' /\ TablesSound'
  BY <1>1, <1>2, <1>3 DEF HistoryTyped, TablesSound
<1>5. BatchInOrder' /\ CountsBounded' /\ RecountsBounded'
  BY <1>1, <1>2, <1>3 DEF BatchInOrder, CountsBounded, InTransaction, RecountsBounded
<1>6. StreakKept'
  BY <1>1, <1>2, <1>3 DEF StreakKept, StreakAfter, Passed, InTransaction
<1> QED
  BY <1>4, <1>5, <1>6 DEF HistoryInv

\* What becomes of the streak when a result is stored.
LEMMA InsertStep ==
    ASSUME HistoryInv, BatchInsert
    PROVE  HistoryInv'
<1> USE HistoryAssumption
<1> DEFINE rs == batch.results
           found == rs[batch.next]
           ahead == [batch EXCEPT !.at = IF Full THEN "end" ELSE "select",
                                  !.next = IF Full THEN batch.next ELSE batch.next + 1,
                                  !.seen = NoRow]
           m == Mine(rs)
<1>1. HistoryTyped /\ BatchInOrder /\ TablesSound /\ CountsBounded /\ StreakKept /\ RecountsBounded
  BY DEF HistoryInv
<1>2. UNCHANGED <<begun, report, launch, told, reports, failing, recounts>>
      /\ batch.at = "insert" /\ historyFaults' \in 0 .. MaxHistoryFaults
  BY <1>1 DEF BatchInsert, Fails, Works, HistoryTyped
<1>3. /\ batch.next \in 1 .. Len(rs) /\ Len(rs) \in Nat /\ batch.next \in Nat \ {0}
      /\ m \in Nat \ {0} /\ m \in 1 .. Len(rs) /\ batch \in BatchRecord
      /\ batch.seen \in GoodRow /\ InTransaction
  BY <1>1, <1>2, BatchFacts DEF BatchInOrder, BatchRecord
<1>4. found \in Verdict \cup {"other"} /\ (found # "other" <=> batch.next = m)
  BY <1>3, BatchFacts
<1>5. /\ table \in TableRecord /\ table.row \in GoodRow /\ NoRow \in GoodRow
      /\ IsFiniteSet(table.rows)
  BY <1>1, <1>3, RowsStayGood DEF HistoryTyped, TableRecord, TablesSound, Sound
<1>6. \/ /\ batch' = ahead
         /\ table' = IF found = "other" THEN table
                     ELSE [table EXCEPT !.row = RowAfter(batch.seen, found)]
         /\ raced' = IF found # "other" /\ batch.seen # table.row
                     THEN raced \cup {"stale"} ELSE raced
      \/ batch' = [ahead EXCEPT !.ok = FALSE] /\ UNCHANGED <<table, raced>>
  BY DEF BatchInsert
<1>7. /\ ahead \in BatchRecord /\ ahead.results = rs /\ ahead.seen = NoRow
      /\ ahead.tries = batch.tries /\ ahead.ok = batch.ok /\ ahead.stored = batch.stored
      /\ ahead.at = (IF Full THEN "end" ELSE "select")
      /\ ahead.next = (IF Full THEN batch.next ELSE batch.next + 1)
  <2> DEFINE at == IF Full THEN "end" ELSE "select"
             next == IF Full THEN batch.next ELSE batch.next + 1
  <2>1. at \in {"select", "end"} /\ next \in Nat \ {0}
    BY <1>3
  <2>2. ahead = [batch EXCEPT !.at = at, !.next = next, !.seen = NoRow]
    OBVIOUS
  <2> HIDE DEF at, next, ahead
  <2>3. ahead \in BatchRecord
    BY <1>3, <1>5, <2>1, <2>2 DEF BatchRecord
  <2>4. /\ ahead.results = rs /\ ahead.seen = NoRow
        /\ ahead.tries = batch.tries /\ ahead.ok = batch.ok /\ ahead.stored = batch.stored
        /\ ahead.at = at /\ ahead.next = next
    BY <1>3, <2>2 DEF BatchRecord
  <2> QED
    BY <2>3, <2>4 DEF at, next
<1>8. /\ batch' \in BatchRecord /\ batch'.results = rs /\ batch'.seen = NoRow
      /\ batch'.tries = batch.tries /\ batch'.stored = batch.stored
      /\ Full => batch'.at = "end" /\ batch'.next = batch.next
      /\ ~Full => batch'.at = "select" /\ batch'.next = batch.next + 1
      /\ batch'.ok => batch' = ahead /\ batch.ok
  <2> HIDE DEF ahead
  <2>1. ASSUME batch' = [ahead EXCEPT !.ok = FALSE]
        PROVE  /\ batch' \in BatchRecord /\ batch'.results = ahead.results
               /\ batch'.seen = ahead.seen /\ batch'.tries = ahead.tries /\ batch'.at = ahead.at
               /\ batch'.next = ahead.next /\ batch'.stored = ahead.stored /\ ~batch'.ok
    BY <1>7, <2>1 DEF BatchRecord
  <2> QED
    BY <1>6, <1>7, <2>1
<1> HIDE DEF ahead
<1>9. ~Full => batch.next # Len(rs) /\ SubBatchOf(batch.next + 1) = SubBatchOf(batch.next)
  BY <1>3, NextSub DEF Full
<1>10. /\ table' \in TableRecord /\ table'.rows = table.rows /\ table'.open = table.open
       /\ raced' \in {raced, raced \cup {"stale"}}
       /\ table'.row = table.row \/ table'.row = RowAfter(batch.seen, found)
  <2>1. found # "other" => RowAfter(batch.seen, found) \in GoodRow
    BY <1>3, <1>4, RowsStayGood
  <2> HIDE DEF found
  <2> QED
    BY <1>5, <1>6, <2>1 DEF TableRecord
<1>11. HistoryTyped'
  BY <1>1, <1>2, <1>8, <1>10 DEF HistoryTyped
<1>12. BatchInOrder'
  <2>1. InTransaction' /\ batch'.at \in {"select", "end"} /\ batch'.next <= Len(rs)
    BY <1>2, <1>3, <1>8, <1>9 DEF InTransaction
  <2>2. batch'.at = "end" => Full'
    <3> SUFFICES ASSUME batch'.at = "end" PROVE Full'
      OBVIOUS
    <3>1. Full
      BY <1>8
    <3>2. batch'.next = batch.next /\ batch'.results = batch.results
      BY <1>8, <3>1
    <3> QED
      BY <3>1, <3>2 DEF Full
  <2>3. batch'.at # "new" /\ batch'.at # "done" /\ batch'.at # "insert"
    BY <2>1
  <2>4. batch'.next <= Len(rs) + 1
    BY <1>3, <1>8, <2>1 DEF BatchRecord
  <2> QED
    BY <1>1, <1>8, <2>1, <2>2, <2>3, <2>4 DEF BatchInOrder
<1>13. TablesSound'
  BY <1>1, <1>2, <1>10 DEF TablesSound, Sound
<1>14. CountsBounded'
  <2> SUFFICES ASSUME "dirty" \notin raced PROVE CountsBounded'
    BY <1>10 DEF CountsBounded
  <2>1. Bounded(batch.seen, table, launch) /\ Bounded(table.row, table, launch)
    BY <1>1 DEF CountsBounded
  <2>2. Bounded(RowAfter(batch.seen, found), table, launch) /\ Bounded(NoRow, table, launch)
    BY <1>3, <1>5, <2>1, RowsStayBounded
  <2>3. \A row : Bounded(row, table, launch) => Bounded(row, table', launch)
    BY <1>10 DEF Bounded, Crashed
  <2>4. Bounded(table'.row, table', launch) /\ Bounded(batch'.seen, table', launch)
    BY <1>8, <1>10, <2>1, <2>2, <2>3
  <2> QED
    BY <1>1, <1>2, <2>3, <2>4 DEF CountsBounded, InTransaction
<1>15. StreakKept'
  <2> SUFFICES ASSUME raced' = {} PROVE StreakKept'
    BY DEF StreakKept
  <2>1. raced = {} /\ begun.row.failures = failing + recounts
    BY <1>1, <1>3, <1>10 DEF StreakKept
  <2>2. InTransaction' /\ begun' = begun
    BY <1>2, <1>3 DEF InTransaction
  <2> SUFFICES ASSUME batch'.ok PROVE table'.row.failures = StreakAfter(batch', begun.row.failures)
    BY <1>2, <2>1, <2>2 DEF StreakKept
  <2>3. batch' = ahead /\ table.row.failures = StreakAfter(batch, begun.row.failures)
    BY <1>1, <1>3, <1>8, <2>1 DEF StreakKept
  <2>4. Mine(batch'.results) = m /\ batch'.results = rs
    BY <1>8
  <2>5. Passed(batch) <=> SubBatchOf(m) = SubBatchOf(batch.next) /\ m < batch.next
    BY <1>2 DEF Passed
  <2>6. Passed(batch') <=> SubBatchOf(m) = SubBatchOf(batch.next) /\ m <= batch.next
    <3>1. CASE Full
      BY <1>3, <1>8, <2>4, <3>1 DEF Passed
    <3>2. CASE ~Full
      BY <1>3, <1>8, <1>9, <2>4, <3>2 DEF Passed
    <3> QED
      BY <3>1, <3>2
  <2> HIDE DEF m, found
  <2>7. CASE batch.next = m
    <3>1. ~Passed(batch) /\ Passed(batch')
      BY <1>3, <2>5, <2>6, <2>7
    <3>2. found # "other" /\ found = rs[m]
      BY <1>4, <2>7 DEF found
    <3>3. batch.seen = table.row /\ table'.row = RowAfter(batch.seen, found)
      <4>1. table' = [table EXCEPT !.row = RowAfter(batch.seen, found)]
            /\ raced' = IF batch.seen # table.row THEN raced \cup {"stale"} ELSE raced
        <5>1. ahead.ok /\ [ahead EXCEPT !.ok = FALSE].ok = FALSE
          BY <1>7, <1>8, <2>3 DEF BatchRecord
        <5> QED
          BY <1>6, <2>3, <3>2, <5>1
      <4> QED
        BY <1>5, <4>1 DEF TableRecord
    <3>4. table'.row.failures = IF found = "failed" THEN begun.row.failures + 1 ELSE 0
      BY <2>3, <3>1, <3>3 DEF RowAfter, StreakAfter
    <3> QED
      BY <2>4, <3>1, <3>2, <3>4 DEF StreakAfter
  <2>8. CASE batch.next # m
    <3>1. Passed(batch) <=> Passed(batch')
      BY <1>3, <2>5, <2>6, <2>8
    <3>2. table' = table
      BY <1>4, <1>6, <1>8, <2>3, <2>8
    <3> QED
      BY <2>3, <2>4, <3>1, <3>2 DEF StreakAfter
  <2> QED
    BY <2>7, <2>8
<1>16. RecountsBounded'
  <2>1. SubBatchOf(batch'.next) = SubBatchOf(batch.next)
    BY <1>8, <1>9
  <2> QED
    BY <1>1, <1>2, <1>8, <2>1 DEF RecountsBounded
<1> QED
  BY <1>11, <1>12, <1>13, <1>14, <1>15, <1>16 DEF HistoryInv

\* The transaction that ends at next has come past the proxy's result, or does not hold it.
LEMMA OwnResult ==
    ASSUME HistoryInv, batch.at = "end"
    PROVE  /\ Passed(batch) <=> SubBatchOf(Mine(batch.results)) = SubBatchOf(batch.next)
           /\ Own = IF Passed(batch) THEN {Mine(batch.results)} ELSE {}
<1> DEFINE m == Mine(batch.results)
<1>1. /\ batch.next \in Nat \ {0} /\ m \in Nat \ {0} /\ m \in 1 .. Len(batch.results)
      /\ DOMAIN batch.results = 1 .. Len(batch.results) /\ Len(batch.results) \in Nat
      /\ \A i \in 1 .. Len(batch.results) : batch.results[i] # "other" <=> i = m
  BY BatchFacts
<1>2. Full
  BY DEF HistoryInv, BatchInOrder
<1>3. SubBatchOf(m) = SubBatchOf(batch.next) => m <= batch.next
  <2>1. CASE batch.next = Len(batch.results)
    BY <1>1, <2>1
  <2>2. CASE batch.next % SubBatchSize = 0
    BY <1>1, <2>2, SubEdges
  <2> QED
    BY <1>2, <2>1, <2>2 DEF Full
<1>4. Passed(batch) <=> SubBatchOf(m) = SubBatchOf(batch.next)
  BY <1>1, <1>3 DEF Passed
<1> HIDE DEF m
<1>5. Own = {i \in 1 .. Len(batch.results) : i = m /\ SubBatchOf(i) = SubBatchOf(batch.next)}
  BY <1>1 DEF Own, SubBatchOf
<1>6. Own = IF Passed(batch) THEN {m} ELSE {}
  BY <1>1, <1>4, <1>5
<1> QED
  BY <1>4, <1>6 DEF m

LEMMA CommitStep ==
    ASSUME HistoryInv, batch.at = "end", batch.ok, Commit,
           UNCHANGED <<launch, told, reports, historyFaults>>
    PROVE  HistoryInv'
<1> USE HistoryAssumption
<1> DEFINE rs == batch.results
           m == Mine(rs)
           last == batch.next = Len(rs)
           again == batch.stored /\ rs[m] = "failed"
<1>1. HistoryTyped /\ BatchInOrder /\ TablesSound /\ CountsBounded /\ StreakKept /\ RecountsBounded
  BY DEF HistoryInv
<1>2. UNCHANGED <<table, raced, launch, told, reports, historyFaults>> /\ begun' = NoTable
      /\ report' = [r \in Reporter |-> [report[r] EXCEPT !.inside = FALSE]]
      /\ batch' = [batch EXCEPT !.at = IF last THEN "done" ELSE "new",
                                !.next = batch.next + 1, !.stored = @ \/ Own # {}]
  BY DEF Commit
<1>3. /\ batch \in BatchRecord /\ batch.next \in Nat \ {0} /\ Len(rs) \in Nat
      /\ m \in Nat \ {0} /\ m \in 1 .. Len(rs) /\ rs[m] \in Verdict
      /\ SubBatchOf(m) \in Nat /\ SubBatchOf(batch.next) \in Nat
      /\ recounts \in Nat /\ failing \in Nat /\ batch.tries \in 0 .. FlushRetries
      /\ InTransaction /\ batch.seen = NoRow /\ batch.next <= Len(rs)
  BY <1>1, BatchFacts DEF BatchInOrder
<1>4. /\ Passed(batch) <=> SubBatchOf(m) = SubBatchOf(batch.next)
      /\ Own = IF Passed(batch) THEN {m} ELSE {}
  BY OwnResult
<1>5. /\ batch' \in BatchRecord /\ batch'.results = rs /\ batch'.seen = NoRow
      /\ batch'.tries = batch.tries /\ batch'.next = batch.next + 1
      /\ batch'.stored = (batch.stored \/ Passed(batch))
      /\ last => batch'.at = "done"
      /\ ~last => batch'.at = "new"
  <2> DEFINE at == IF last THEN "done" ELSE "new"
             next == batch.next + 1
             stored == batch.stored \/ Own # {}
  <2>1. at \in {"done", "new"} /\ next \in Nat \ {0} /\ stored \in BOOLEAN
    BY <1>3
  <2>2. batch' = [batch EXCEPT !.at = at, !.next = next, !.stored = stored]
    BY <1>2
  <2>3. stored <=> batch.stored \/ Passed(batch)
    BY <1>4
  <2> HIDE DEF at, next, stored, last, m
  <2>4. batch' \in BatchRecord
    BY <1>3, <2>1, <2>2 DEF BatchRecord
  <2>5. /\ batch'.results = rs /\ batch'.seen = NoRow /\ batch'.tries = batch.tries
        /\ batch'.at = at /\ batch'.next = next /\ batch'.stored = stored
    BY <1>3, <2>2 DEF BatchRecord
  <2>6. Passed(batch) \in BOOLEAN /\ batch.stored \in BOOLEAN
    BY <1>3 DEF Passed, BatchRecord
  <2> QED
    BY <2>1, <2>3, <2>4, <2>5, <2>6 DEF at, next
<1>6. /\ ~Passed(batch) => UNCHANGED <<failing, recounts>>
      /\ Passed(batch) /\ again => recounts' = recounts + 1 /\ failing' = failing
      /\ Passed(batch) /\ ~again /\ rs[m] = "failed" => failing' = failing + 1 /\ recounts' = recounts
      /\ Passed(batch) /\ rs[m] # "failed" => failing' = 0 /\ recounts' = 0
  <2>1. \A i \in Own : IF batch.stored /\ rs[i] = "failed"
                       THEN recounts' = recounts + 1 /\ UNCHANGED failing
                       ELSE Judged(rs[i])
    BY DEF Commit
  <2>2. Own = {} => UNCHANGED <<failing, recounts>>
    BY DEF Commit
  <2>3. Passed(batch) => IF again THEN recounts' = recounts + 1 /\ UNCHANGED failing
                         ELSE Judged(rs[m])
    BY <1>4, <2>1
  <2> HIDE DEF m
  <2> QED
    BY <1>3, <1>4, <2>2, <2>3 DEF Judged, Verdict
<1>7. failing' \in Nat /\ recounts' \in Nat
  BY <1>3, <1>6
<1>8. HistoryTyped'
  <2>1. report' \in [Reporter -> ReportRecord]
    BY <1>1, <1>2 DEF HistoryTyped, ReportRecord
  <2> QED
    BY <1>1, <1>2, <1>5, <1>7, <2>1 DEF HistoryTyped
<1>9. BatchInOrder'
  <2>1. ~last => batch.next % SubBatchSize = 0 /\ batch.next + 1 <= Len(rs)
    BY <1>1, <1>3 DEF BatchInOrder, Full
  <2>2. (batch.next + 1) - 1 = batch.next
    BY <1>3
  <2>3. ~InTransaction' /\ batch'.at \in {"new", "done"}
    BY <1>2, <1>5 DEF InTransaction
  <2>4. batch'.next <= Len(rs) + 1
    BY <1>3, <1>5
  <2>5. batch'.at = "new" => ~last
    BY <1>5
  <2> HIDE DEF last
  <2>6. batch'.at = "new" => (batch'.next - 1) % SubBatchSize = 0
    BY <1>5, <2>1, <2>2, <2>5
  <2>7. batch'.at # "done" => batch'.next <= Len(rs)
    BY <1>5, <2>1, <2>3, <2>5
  <2> QED
    BY <1>1, <1>5, <2>3, <2>4, <2>6, <2>7 DEF BatchInOrder
<1>10. TablesSound'
  BY <1>1, <1>2, FS_EmptySet DEF TablesSound, Sound, NoTable
<1>11. CountsBounded'
  <2>1. \A r \in Reporter : report'[r].at = report[r].at /\ report'[r].seen = report[r].seen
                            /\ report'[r].inside = FALSE
    BY <1>1, <1>2 DEF HistoryTyped, ReportRecord
  <2> QED
    BY <1>1, <1>2, <1>3, <1>5, <2>1 DEF CountsBounded, InTransaction
<1>12. StreakKept'
  <2> SUFFICES ASSUME raced' = {} PROVE table.row.failures = failing' + recounts'
    BY <1>2 DEF StreakKept, InTransaction
  <2>1. begun.row.failures = failing + recounts
        /\ table.row.failures = StreakAfter(batch, begun.row.failures)
    BY <1>1, <1>2, <1>3 DEF StreakKept
  <2> HIDE DEF m
  <2>2. CASE ~Passed(batch)
    BY <1>6, <2>1, <2>2 DEF StreakAfter
  <2>3. CASE Passed(batch)
    <3>1. table.row.failures = IF rs[m] = "failed" THEN begun.row.failures + 1 ELSE 0
      BY <2>1, <2>3 DEF StreakAfter, m
    <3> QED
      BY <1>3, <1>6, <2>1, <2>3, <3>1
  <2> QED
    BY <2>2, <2>3
<1>13. RecountsBounded'
  <2>1. batch.stored =>
          /\ SubBatchOf(m) < SubBatchOf(batch.next) => recounts <= batch.tries
          /\ ~(SubBatchOf(m) < SubBatchOf(batch.next)) => recounts + 1 <= batch.tries
          /\ Len(rs) > SubBatchSize
    BY <1>1 DEF RecountsBounded
  <2>2. recounts <= batch.tries /\ (~batch.stored => recounts = 0)
        /\ (recounts > 0 => Len(rs) > SubBatchSize)
    BY <1>1 DEF RecountsBounded
  <2>3. SubBatchOf(batch.next) <= SubBatchOf(batch.next + 1) /\ SubBatchOf(batch.next + 1) \in Nat
    BY <1>3, SubsInOrder, SubsAreNumbered
  <2>4. ~last => /\ SubBatchOf(batch.next + 1) = SubBatchOf(batch.next) + 1
                 /\ Len(rs) > SubBatchSize
    <3> SUFFICES ASSUME ~last PROVE SubBatchOf(batch.next + 1) = SubBatchOf(batch.next) + 1 /\ Len(rs) > SubBatchSize
      OBVIOUS
    <3>1. batch.next % SubBatchSize = 0 /\ batch.next # Len(rs)
      BY <1>1 DEF BatchInOrder, Full
    <3>2. SubBatchOf(batch.next + 1) = SubBatchOf(batch.next) + 1 /\ batch.next >= SubBatchSize
      BY <1>3, <3>1, NextSub, DividingFirst
    <3> QED
      BY <1>3, <3>1, <3>2
  <2>5. batch.tries \in Nat
    BY <1>3
  <2> HIDE DEF m, last
  <2>6. recounts' <= batch.tries
    BY <1>3, <1>4, <1>6, <2>1, <2>2, <2>5
  <2>7. ~batch'.stored => recounts' = 0
    BY <1>5, <1>6, <2>2
  <2>8. recounts' > 0 => Len(rs) > SubBatchSize
    BY <1>3, <1>6, <2>1, <2>2
  <2>9. ASSUME batch'.stored, batch'.at # "done"
        PROVE  /\ ~(SubBatchOf(m) < SubBatchOf(batch'.next)) => recounts' + 1 <= batch.tries
               /\ Len(rs) > SubBatchSize
    <3>1. ~last
      BY <1>5, <2>9
    <3>2. SubBatchOf(batch'.next) = SubBatchOf(batch.next) + 1
      BY <1>5, <2>4, <3>1
    <3>3. CASE Passed(batch)
      BY <1>3, <1>4, <2>4, <3>1, <3>2, <3>3
    <3>4. CASE ~Passed(batch)
      <4>1. batch.stored /\ recounts' = recounts
        BY <1>5, <1>6, <2>9, <3>4
      <4>2. ~(SubBatchOf(m) < SubBatchOf(batch'.next)) => ~(SubBatchOf(m) < SubBatchOf(batch.next))
        BY <1>3, <3>2
      <4> QED
        BY <2>1, <4>1, <4>2
    <3> QED
      BY <3>3, <3>4
  <2> QED
    BY <1>5, <2>6, <2>7, <2>8, <2>9 DEF RecountsBounded, m
<1> QED
  BY <1>8, <1>9, <1>10, <1>11, <1>12, <1>13 DEF HistoryInv

LEMMA RollbackStep ==
    ASSUME HistoryInv, batch.at = "end", Rollback, UNCHANGED <<launch, told, reports>>,
           historyFaults' \in 0 .. MaxHistoryFaults
    PROVE  HistoryInv'
<1> USE HistoryAssumption
<1>1. HistoryTyped /\ BatchInOrder /\ TablesSound /\ CountsBounded /\ StreakKept /\ RecountsBounded
  BY DEF HistoryInv
<1>2. UNCHANGED <<launch, told, reports, report, failing, recounts>>
      /\ begun' = NoTable /\ table' = begun /\ batch' = Refused(batch)
      /\ raced' = IF \E r \in Reporter : report[r].at = "read" /\ report[r].inside
                  THEN raced \cup {"stale", "dirty"} ELSE raced
  BY DEF Rollback
<1>3. InTransaction /\ begun \in TableRecord
  BY <1>1 DEF BatchInOrder, InTransaction, HistoryTyped
<1>4. /\ batch' \in BatchRecord /\ batch'.seen = NoRow /\ BatchInOrder' /\ RecountsBounded'
  BY <1>2, Refusing
<1>5. HistoryTyped'
  BY <1>1, <1>2, <1>3, <1>4 DEF HistoryTyped
<1>6. TablesSound'
  BY <1>1, <1>2, FS_EmptySet DEF TablesSound, Sound, NoTable
<1>7. CountsBounded'
  <2> SUFFICES ASSUME "dirty" \notin raced' PROVE CountsBounded'
    BY DEF CountsBounded
  <2>1. /\ "dirty" \notin raced
        /\ \A r \in Reporter : report[r].at = "read" => ~report[r].inside
    BY <1>2
  <2>2. Bounded(begun.row, begun, launch)
    BY <1>1, <1>3, <2>1 DEF CountsBounded
  <2>3. Bounded(NoRow, begun, launch)
    BY <1>1, <1>3, <2>2, RowsStayBounded DEF TableRecord, TablesSound, Sound
  <2> QED
    BY <1>1, <1>2, <1>3, <1>4, <2>1, <2>2, <2>3 DEF CountsBounded, InTransaction
<1>8. StreakKept'
  BY <1>1, <1>2, <1>3 DEF StreakKept, InTransaction
<1> QED
  BY <1>4, <1>5, <1>6, <1>7, <1>8 DEF HistoryInv

LEMMA EndStep ==
    ASSUME HistoryInv, BatchEnd
    PROVE  HistoryInv'
<1>1. UNCHANGED <<launch, told, reports>> /\ batch.at = "end"
      /\ historyFaults' \in 0 .. MaxHistoryFaults
  BY HistoryAssumption DEF BatchEnd, Fails, Works, HistoryInv, HistoryTyped
<1>2. CASE Works /\ batch.ok /\ Commit
  BY <1>1, <1>2, CommitStep DEF Works
<1>3. CASE Rollback
  BY <1>1, <1>3, RollbackStep
<1> QED
  BY <1>2, <1>3 DEF BatchEnd

-----------------------------------------------------------------------------
(* The sessions.                                                            *)

\* What a step of a session leaves alone, once the tables are known to be right.
LEMMA SessionKept ==
    ASSUME HistoryInv, UNCHANGED <<begun, report, batch, reports, failing, recounts, raced>>,
           historyFaults' \in 0 .. MaxHistoryFaults, told' \in [Launch -> SUBSET Watch],
           launch' \in [Launch -> {"new", "running", "unwatched", "ended", "crashed"}],
           table' \in TableRecord, table'.row.failures = table.row.failures,
           TablesSound', CountsBounded'
    PROVE  HistoryInv'
<1>1. HistoryTyped'
  BY DEF HistoryInv, HistoryTyped
<1>2. StreakKept'
  BY DEF HistoryInv, StreakKept, InTransaction
<1> QED
  BY <1>1, <1>2, OrderKept, RecountsKept DEF HistoryInv

\* The bounds, when the history grows.
LEMMA CountsKept ==
    ASSUME HistoryInv, UNCHANGED <<begun, report, batch, raced>>, table' \in TableRecord,
           TablesSound', table.rows \subseteq table'.rows,
           table.rows \ table.open \subseteq table'.rows \ table'.open,
           Crashed(table, launch) \subseteq Crashed(table', launch'),
           Crashed(begun, launch) = Crashed(begun, launch'),
           Bounded(table.row, table, launch) => Bounded(table'.row, table', launch')
    PROVE  CountsBounded'
<1> SUFFICES ASSUME "dirty" \notin raced PROVE CountsBounded'
  BY DEF CountsBounded
<1>1. HistoryTyped /\ CountsBounded /\ IsFiniteSet(table.rows) /\ IsFiniteSet(table'.rows)
  BY DEF HistoryInv, TablesSound, Sound
<1>2. \A row \in GoodRow : Bounded(row, table, launch) => Bounded(row, table', launch')
  BY <1>1, BoundsGrow
<1>3. \A row : Bounded(row, begun, launch) => Bounded(row, begun, launch')
  BY DEF Bounded
<1>4. batch.seen \in GoodRow /\ \A r \in Reporter : report[r].seen \in GoodRow
  BY <1>1 DEF HistoryTyped, BatchRecord, ReportRecord
<1> QED
  BY <1>1, <1>2, <1>3, <1>4 DEF CountsBounded, InTransaction

LEMMA Counting ==
    ASSUME NEW row \in GoodRow, NEW a \in Nat, NEW b \in Nat, NEW c \in Nat
    PROVE  /\ Count(row, a, b, c) \in GoodRow /\ Count(row, a, b, c).failures = row.failures
           /\ Count(row, a, b, c).history.starts <= row.history.starts + a
           /\ Count(row, a, b, c).history.runtime <= row.history.runtime + b
           /\ Count(row, a, b, c).history.crashes <= row.history.crashes + c
           /\ row.history.starts \in Nat /\ row.history.runtime \in Nat
           /\ row.history.crashes \in Nat
<1> DEFINE h == [starts |-> row.history.starts + a, runtime |-> row.history.runtime + b,
                 crashes |-> row.history.crashes + c]
<1>1. row \in RowType
  BY DEF GoodRow
<1>2. row.history.starts \in Nat /\ row.history.runtime \in Nat /\ row.history.crashes \in Nat
  BY <1>1 DEF RowType
<1>3. Count(row, a, b, c) = IF row.exists THEN [row EXCEPT !.history = h] ELSE row
  BY DEF Count
<1>4. /\ h.starts = row.history.starts + a /\ h.runtime = row.history.runtime + b
      /\ h.crashes = row.history.crashes + c
  OBVIOUS
<1> HIDE DEF h
<1>5. Count(row, a, b, c).failures = row.failures
      /\ Count(row, a, b, c).history \in {h, row.history}
  BY <1>1, <1>3 DEF RowType
<1>6. Count(row, a, b, c) \in GoodRow
  BY RowsStayGood
<1> QED
  BY <1>2, <1>4, <1>5, <1>6

\* The history rows of the tables are sessions.
LEMMA RowsAreLaunches ==
    ASSUME HistoryTyped
    PROVE  /\ table.rows \subseteq Launch /\ table.open \subseteq Launch
           /\ begun.rows \subseteq Launch /\ begun.open \subseteq Launch
<1>1. table \in TableRecord /\ begun \in TableRecord \cup {NoTable}
  BY DEF HistoryTyped
<1>2. \A t \in TableRecord : t.rows \subseteq Launch /\ t.open \subseteq Launch
  BY DEF TableRecord
<1>3. NoTable.rows = {} /\ NoTable.open = {}
  BY DEF NoTable
<1> QED
  BY <1>1, <1>2, <1>3

LEMMA SessionBegins ==
    ASSUME HistoryInv, NEW l \in Launch, LaunchBegins(l)
    PROVE  HistoryInv'
<1> USE HistoryAssumption
<1>1. HistoryTyped /\ TablesSound
  BY DEF HistoryInv
<1>2. UNCHANGED <<begun, report, batch, told, reports, failing, recounts, raced>>
      /\ launch[l] = "new" /\ historyFaults' \in 0 .. MaxHistoryFaults
  BY <1>1 DEF LaunchBegins, Fails, Works, HistoryTyped
<1>3. /\ table \in TableRecord /\ table.row \in GoodRow /\ IsFiniteSet(table.rows)
      /\ table.open \subseteq table.rows /\ IsFiniteSet(begun.rows)
      /\ l \notin table.rows /\ l \notin begun.rows
  BY <1>1, <1>2 DEF HistoryTyped, TableRecord, TablesSound, Sound
<1>4. CASE launch' = [launch EXCEPT ![l] = "unwatched"] /\ table' = table
  <2>1. /\ launch' \in [Launch -> {"new", "running", "unwatched", "ended", "crashed"}]
        /\ \A k \in Launch \ {l} : launch'[k] = launch[k]
    BY <1>1, <1>4 DEF HistoryTyped
  <2>2. begun.rows \subseteq Launch /\ table.rows \subseteq Launch
    BY <1>1, RowsAreLaunches
  <2>3. TablesSound'
    BY <1>1, <1>2, <1>3, <1>4, <2>1, <2>2 DEF TablesSound, Sound
  <2>4. Crashed(table, launch) = Crashed(table, launch') /\ Crashed(begun, launch) = Crashed(begun, launch')
    BY <1>3, <2>1, <2>2 DEF Crashed
  <2>5. CountsBounded'
    <3>1. Bounded(table.row, table, launch) => Bounded(table'.row, table', launch')
      BY <1>4, <2>4 DEF Bounded
    <3> QED
      BY <1>2, <1>3, <1>4, <2>3, <2>4, <3>1, CountsKept
  <2> QED
    BY <1>1, <1>2, <1>3, <1>4, <2>1, <2>3, <2>5, SessionKept DEF HistoryTyped
<1>5. CASE /\ table' = [table EXCEPT !.row = Count(table.row, 1, 0, 0), !.rows = table.rows \cup {l},
                                     !.open = table.open \cup {l}]
           /\ launch' = [launch EXCEPT ![l] = "running"]
  <2>1. /\ launch' \in [Launch -> {"new", "running", "unwatched", "ended", "crashed"}]
        /\ launch'[l] = "running" /\ \A k \in Launch \ {l} : launch'[k] = launch[k]
    BY <1>1, <1>5 DEF HistoryTyped
  <2>2. begun.rows \subseteq Launch /\ table.rows \subseteq Launch /\ table.open \subseteq Launch
    BY <1>1, RowsAreLaunches
  <2> DEFINE row == Count(table.row, 1, 0, 0)
  <2>3. /\ row \in GoodRow /\ row.failures = table.row.failures
        /\ row.history.starts <= table.row.history.starts + 1
        /\ row.history.runtime <= table.row.history.runtime + 0
        /\ row.history.crashes <= table.row.history.crashes + 0
        /\ table.row.history.starts \in Nat /\ table.row.history.runtime \in Nat
        /\ table.row.history.crashes \in Nat
    BY <1>3, Counting
  <2>4. row.history.starts \in Nat /\ row.history.runtime \in Nat /\ row.history.crashes \in Nat
    BY <2>3 DEF GoodRow, RowType
  <2> HIDE DEF row
  <2>5. table' = [table EXCEPT !.row = row, !.rows = table.rows \cup {l}, !.open = table.open \cup {l}]
    BY <1>5 DEF row
  <2>6. /\ table'.row = row /\ table'.rows = table.rows \cup {l} /\ table'.open = table.open \cup {l}
        /\ table' \in TableRecord
    <3> DEFINE rs == table.rows \cup {l}
               os == table.open \cup {l}
    <3>1. rs \subseteq Launch /\ os \subseteq Launch
      BY <2>2
    <3>2. rs = table.rows \cup {l} /\ os = table.open \cup {l}
      OBVIOUS
    <3> HIDE DEF rs, os
    <3>3. table' = [table EXCEPT !.row = row, !.rows = rs, !.open = os]
      BY <2>5, <3>2
    <3>4. table'.row = row /\ table'.rows = rs /\ table'.open = os
      BY <1>3, <3>3 DEF TableRecord
    <3>5. table' \in TableRecord
      BY <1>3, <2>3, <3>1, <3>3 DEF TableRecord
    <3> QED
      BY <3>2, <3>4, <3>5
  <2>7. /\ IsFiniteSet(table'.rows) /\ Cardinality(table'.rows) = Cardinality(table.rows) + 1
    <3>1. IsFiniteSet(table.rows) /\ l \notin table.rows
      BY <1>3
    <3>2. /\ IsFiniteSet(table.rows \cup {l})
          /\ Cardinality(table.rows \cup {l}) = Cardinality(table.rows) + 1
      BY <3>1, FS_AddElement
    <3> QED
      BY <2>6, <3>2
  <2>8. TablesSound'
    BY <1>1, <1>2, <1>3, <2>1, <2>2, <2>6, <2>7 DEF TablesSound, Sound
  <2>9. table'.rows \ table'.open = table.rows \ table.open
    BY <1>3, <2>6
  <2>10. Crashed(table, launch) = Crashed(table', launch') /\ Crashed(begun, launch) = Crashed(begun, launch')
    BY <1>3, <2>1, <2>2, <2>9 DEF Crashed
  <2>11. Bounded(table.row, table, launch) => Bounded(table'.row, table', launch')
    <3>1. Cardinality(table.rows) \in Nat /\ Cardinality(table.rows \ table.open) \in Nat
          /\ Cardinality(Crashed(table, launch)) \in Nat
      BY <1>3, FS_Subset, FS_CardinalityType DEF Crashed
    <3>2. /\ row.history.starts <= table.row.history.starts + 1
          /\ row.history.runtime <= table.row.history.runtime + 0
          /\ row.history.crashes <= table.row.history.crashes + 0
      BY <2>3
    <3>3. /\ table.row.history.starts \in Nat /\ table.row.history.runtime \in Nat
          /\ table.row.history.crashes \in Nat
      BY <2>3
    <3> SUFFICES ASSUME Bounded(table.row, table, launch)
                 PROVE  /\ row.history.starts <= Cardinality(table'.rows)
                        /\ row.history.runtime <= Cardinality(table'.rows \ table'.open)
                        /\ row.history.crashes <= Cardinality(Crashed(table', launch'))
      BY <2>6 DEF Bounded
    <3>4. /\ table.row.history.starts <= Cardinality(table.rows)
          /\ table.row.history.runtime <= Cardinality(table.rows \ table.open)
          /\ table.row.history.crashes <= Cardinality(Crashed(table, launch))
      BY DEF Bounded
    <3>5. row.history.starts <= Cardinality(table'.rows)
      BY <2>4, <2>7, <3>1, <3>2, <3>3, <3>4
    <3>6. row.history.runtime <= Cardinality(table'.rows \ table'.open)
      BY <2>4, <2>9, <3>1, <3>2, <3>3, <3>4
    <3>7. row.history.crashes <= Cardinality(Crashed(table', launch'))
      BY <2>4, <2>10, <3>1, <3>2, <3>3, <3>4
    <3> QED
      BY <3>5, <3>6, <3>7
  <2>12. CountsBounded'
    BY <1>2, <2>6, <2>8, <2>9, <2>10, <2>11, CountsKept
  <2> QED
    BY <1>1, <1>2, <2>1, <2>3, <2>6, <2>8, <2>12, SessionKept DEF HistoryTyped
<1> QED
  BY <1>4, <1>5 DEF LaunchBegins

LEMMA SessionEnds ==
    ASSUME HistoryInv, NEW l \in Launch, LaunchEnds(l)
    PROVE  HistoryInv'
<1> USE HistoryAssumption
<1>1. HistoryTyped /\ TablesSound
  BY DEF HistoryInv
<1>2. UNCHANGED <<table, begun, report, batch, told, reports, historyFaults, failing, recounts, raced>>
      /\ launch[l] = "running"
  BY DEF LaunchEnds
<1>3. PICK how \in {"ended", "crashed"} : launch' = [launch EXCEPT ![l] = how]
  BY DEF LaunchEnds
<1>4. /\ launch' \in [Launch -> {"new", "running", "unwatched", "ended", "crashed"}]
      /\ launch'[l] = how /\ \A k \in Launch \ {l} : launch'[k] = launch[k]
  BY <1>1, <1>3 DEF HistoryTyped
<1>5. /\ begun.rows \subseteq Launch /\ table.rows \subseteq Launch /\ table \in TableRecord
  BY <1>1, RowsAreLaunches DEF HistoryTyped
<1>6. l \notin table.rows \ table.open /\ l \notin begun.rows \ begun.open
  BY <1>1, <1>2 DEF TablesSound, Sound
<1>7. TablesSound'
  <2>1. ASSUME NEW t \in {table, begun} PROVE Sound(t, launch')
    BY <1>1, <1>4, <1>5 DEF TablesSound, Sound
  <2> QED
    BY <1>2, <2>1 DEF TablesSound
<1>8. Crashed(table, launch) = Crashed(table, launch') /\ Crashed(begun, launch) = Crashed(begun, launch')
  BY <1>4, <1>5, <1>6 DEF Crashed
<1>9. CountsBounded'
  <2>1. Bounded(table.row, table, launch) => Bounded(table'.row, table', launch')
    BY <1>2, <1>8 DEF Bounded
  <2> QED
    BY <1>2, <1>5, <1>7, <1>8, <2>1, CountsKept
<1> QED
  BY <1>1, <1>2, <1>4, <1>5, <1>7, <1>9, SessionKept DEF HistoryTyped

LEMMA SessionFinalized ==
    ASSUME HistoryInv, NEW w \in Watch, NEW l \in Launch, Finalize(w, l)
    PROVE  HistoryInv'
<1> USE HistoryAssumption
<1>1. HistoryTyped /\ TablesSound
  BY DEF HistoryInv
<1>2. UNCHANGED <<begun, report, batch, launch, reports, failing, recounts, raced>>
      /\ launch[l] \in {"ended", "crashed"} /\ told' = [told EXCEPT ![l] = @ \cup {w}]
      /\ historyFaults' \in 0 .. MaxHistoryFaults
  BY <1>1 DEF Finalize, Fails, Works, HistoryTyped
<1>3. told' \in [Launch -> SUBSET Watch]
  BY <1>1, <1>2 DEF HistoryTyped
<1>4. /\ table \in TableRecord /\ table.row \in GoodRow /\ IsFiniteSet(table.rows)
      /\ table.open \subseteq table.rows /\ table.rows \subseteq Launch
  BY <1>1 DEF HistoryTyped, TableRecord, TablesSound, Sound
<1> DEFINE c == IF launch[l] = "crashed" THEN 1 ELSE 0
<1>5. CASE table' = table
  <2>1. TablesSound' /\ Crashed(table, launch) = Crashed(table', launch')
        /\ Crashed(begun, launch) = Crashed(begun, launch')
    BY <1>1, <1>2, <1>5 DEF TablesSound, Crashed
  <2>2. Bounded(table.row, table, launch) => Bounded(table'.row, table', launch')
    BY <1>2, <1>5
  <2>3. CountsBounded'
    BY <1>2, <1>4, <1>5, <2>1, <2>2, CountsKept
  <2> QED
    BY <1>1, <1>2, <1>3, <1>4, <1>5, <2>1, <2>3, SessionKept DEF HistoryTyped
<1>6. CASE /\ l \in table.open
           /\ table' = [table EXCEPT !.open = table.open \ {l}, !.row = Count(table.row, 0, 1, c)]
  <2>1. c \in Nat /\ c = IF launch[l] = "crashed" THEN 1 ELSE 0
    OBVIOUS
  <2> DEFINE row == Count(table.row, 0, 1, c)
  <2> HIDE DEF c
  <2>2. 0 \in Nat /\ 1 \in Nat
    OBVIOUS
  <2>3. /\ row \in GoodRow /\ row.failures = table.row.failures
        /\ row.history.starts <= table.row.history.starts + 0
        /\ row.history.runtime <= table.row.history.runtime + 1
        /\ row.history.crashes <= table.row.history.crashes + c
        /\ table.row.history.starts \in Nat /\ table.row.history.runtime \in Nat
        /\ table.row.history.crashes \in Nat
    <3> HIDE DEF row
    <3>1. row = Count(table.row, 0, 1, c)
      BY DEF row
    <3>2. table.row \in GoodRow /\ c \in Nat
      BY <1>4, <2>1
    <3>3. \A k \in Nat :
             LET new == Count(table.row, 0, 1, k) IN
             /\ new \in GoodRow /\ new.failures = table.row.failures
             /\ new.history.starts <= table.row.history.starts + 0
             /\ new.history.runtime <= table.row.history.runtime + 1
             /\ new.history.crashes <= table.row.history.crashes + k
             /\ table.row.history.starts \in Nat /\ table.row.history.runtime \in Nat
             /\ table.row.history.crashes \in Nat
      BY <2>2, <3>2, Counting
    <3> QED
      BY <3>1, <3>2, <3>3
  <2>4. row.history.starts \in Nat /\ row.history.runtime \in Nat /\ row.history.crashes \in Nat
    BY <2>3 DEF GoodRow, RowType
  <2> HIDE DEF row
  <2>5. table' = [table EXCEPT !.open = table.open \ {l}, !.row = row]
    BY <1>6 DEF row
  <2>6. /\ table'.row = row /\ table'.rows = table.rows /\ table'.open = table.open \ {l}
        /\ table' \in TableRecord
    BY <1>4, <2>3, <2>5 DEF TableRecord
  <2>7. TablesSound'
    BY <1>1, <1>2, <1>4, <1>6, <2>6 DEF TablesSound, Sound
  <2>8. /\ table'.rows \ table'.open = (table.rows \ table.open) \cup {l}
        /\ l \notin table.rows \ table.open
    BY <1>4, <1>6, <2>6
  <2>9. /\ Crashed(table', launch) = IF launch[l] = "crashed" THEN Crashed(table, launch) \cup {l}
                                     ELSE Crashed(table, launch)
        /\ l \notin Crashed(table, launch)
    BY <2>8 DEF Crashed
  <2>10. /\ IsFiniteSet(table.rows \ table.open) /\ IsFiniteSet(Crashed(table, launch))
    BY <1>4, FS_Subset DEF Crashed
  <2>11. /\ Cardinality(table'.rows \ table'.open) = Cardinality(table.rows \ table.open) + 1
         /\ Cardinality(Crashed(table', launch)) = Cardinality(Crashed(table, launch)) + c
    <3>1. /\ Cardinality((table.rows \ table.open) \cup {l}) = Cardinality(table.rows \ table.open) + 1
          /\ Cardinality(Crashed(table, launch) \cup {l}) = Cardinality(Crashed(table, launch)) + 1
          /\ Cardinality(Crashed(table, launch)) \in Nat
      BY <2>8, <2>9, <2>10, FS_AddElement, FS_CardinalityType
    <3>2. CASE launch[l] = "crashed"
      <4>1. c = 1 /\ Crashed(table', launch) = Crashed(table, launch) \cup {l}
        BY <2>1, <2>9, <3>2
      <4> QED
        BY <2>8, <3>1, <4>1
    <3>3. CASE launch[l] # "crashed"
      <4>1. c = 0 /\ Crashed(table', launch) = Crashed(table, launch)
        BY <2>1, <2>9, <3>3
      <4>2. Cardinality(Crashed(table', launch)) = Cardinality(Crashed(table, launch))
        BY <4>1
      <4>3. Cardinality(Crashed(table, launch)) + c = Cardinality(Crashed(table, launch))
        BY <3>1, <4>1
      <4>4. Cardinality(table'.rows \ table'.open) = Cardinality(table.rows \ table.open) + 1
        BY <2>8, <3>1
      <4> QED
        BY <4>2, <4>3, <4>4
    <3> QED
      BY <3>2, <3>3
  <2>12. Bounded(table.row, table, launch) => Bounded(table'.row, table', launch')
    <3>1. Cardinality(table.rows) \in Nat /\ Cardinality(table.rows \ table.open) \in Nat
          /\ Cardinality(Crashed(table, launch)) \in Nat
      BY <1>4, <2>10, FS_CardinalityType
    <3> QED
      BY <1>2, <2>1, <2>3, <2>4, <2>6, <2>11, <3>1 DEF Bounded
  <2>13. CountsBounded'
    BY <1>2, <2>6, <2>7, <2>8, <2>9, <2>12, CountsKept
  <2> QED
    BY <1>1, <1>2, <1>3, <2>3, <2>6, <2>7, <2>13, SessionKept DEF HistoryTyped
<1> QED
  BY <1>5, <1>6 DEF Finalize

-----------------------------------------------------------------------------
(* The theorems.                                                            *)

LEMMA HistoryInvStep == HistoryInv /\ [HistoryNext]_historyVars => HistoryInv'
<1> SUFFICES ASSUME HistoryInv, [HistoryNext]_historyVars PROVE HistoryInv'
  OBVIOUS
<1>1. CASE HistoryNext
  BY <1>1, ReadStep, WriteStep, BatchBeginsStep, SelectStep, InsertStep, EndStep, SessionBegins,
     SessionEnds, SessionFinalized DEF HistoryNext
<1>2. CASE UNCHANGED historyVars
  <2>1. HistoryTyped' /\ TablesSound' /\ CountsBounded' /\ StreakKept'
    BY <1>2 DEF historyVars, HistoryInv, HistoryTyped, TablesSound, CountsBounded, StreakKept,
                InTransaction
  <2> QED
    BY <1>2, <2>1, OrderKept, RecountsKept DEF historyVars, HistoryInv
<1> QED
  BY <1>1, <1>2

LEMMA HistoryInvAlways == HistorySpec => []HistoryInv
BY HistoryInitially, HistoryInvStep, PTL DEF HistorySpec

\* Type correctness of the rows, the batch and the sessions.
THEOREM HistoryTypeCorrect == HistorySpec => []HistoryTypeOK
BY HistoryInvAlways, HistoryTypes, PTL

\* The row of a proxy says no more than was recorded, its streak of failures is exact
\* while no write is lost, and its parts agree, for any number of reporters, sessions
\* and watchers, any size of the sub-batches and any number of retries
\* (updateTestResult(), updateTestResultBatch(), flushWithRetry(), finalizeStop()).
THEOREM HistoryIsTrueAlways == HistorySpec => []HistoryIsTrue
<1>1. ASSUME HistoryInv PROVE HistoryIsTrue
  <2>1. NeverMoreThanRecorded
    BY <1>1 DEF HistoryInv, CountsBounded, NeverMoreThanRecorded, Bounded, Crashed
  <2>2. StreakIsExact
    <3>1. recounts \in Nat /\ batch.tries \in 0 .. FlushRetries
      BY <1>1, BatchFacts
    <3> QED
      BY <1>1, <3>1, HistoryAssumption DEF HistoryInv, StreakKept, RecountsBounded, StreakIsExact
  <2>3. RowAgrees
    BY <1>1 DEF HistoryInv, HistoryTyped, TableRecord, GoodRow, Agrees, RowAgrees
  <2> QED
    BY <2>1, <2>2, <2>3 DEF HistoryIsTrue
<1> QED
  BY <1>1, HistoryInvAlways, PTL

-----------------------------------------------------------------------------
(* SubscriptionUpdate: the inductive invariant.                             *)

\* What was read of a remark: the marker is there once at most.
SeenRemark == [marks : {0, 1}, name : Names]
SubRow == [on : BOOLEAN, remark : SeenRemark, due : BOOLEAN]

UpdateRecord(ms) ==
    [at : {"off", "phase", "fetch"}, phase : Nat, todo : SUBSET Sub, probes : SUBSET Sub,
     failed : SUBSET Sub, rest : SUBSET Sub, snapshot : [Sub -> SeenRemark] \cup {<<>>},
     fetching : SUBSET Sub, port : BOOLEAN, tried : [Sub -> SUBSET ToSet(ms)],
     verdict : [Sub -> {"none", "nodes", "gone"}], attempted : SUBSET Sub,
     asked : SUBSET Sub, single : BOOLEAN, broken : BOOLEAN]

\* The methods that have been tried when phase p is over
TriedBy(p, ms) == {ms[k] : k \in 1 .. p}

IsMethodList(ms) == Len(ms) \in Nat \ {0} /\ DOMAIN ms = 1 .. Len(ms)

\* A subscription is in one place only, and as long as it is in one there is no verdict.
OnePlace(r) ==
    /\ r.fetching \cap (r.todo \cup r.probes) = {}
    /\ r.rest \cap (r.todo \cup r.probes \cup r.fetching) = {}
    /\ IF r.at = "fetch" THEN \E s \in Sub : r.fetching = {s} ELSE r.fetching = {}
    /\ \A s \in r.todo \cup r.probes \cup r.fetching \cup r.rest \cup r.failed :
          r.verdict[s] = "none"

\* A run that was not broken off has tried what it has no verdict on with every method
\* up to the last phase, or to this one if it has failed in it.
NoneForgotten(r, ms) ==
    ~r.broken =>
        \A s \in r.asked : r.verdict[s] = "none" =>
            \/ /\ s \in r.todo \cup r.probes \cup r.fetching
               /\ r.tried[s] = TriedBy(r.phase - 1, ms)
            \/ s \in r.rest /\ r.tried[s] = TriedBy(r.phase, ms)

AllTried(r, ms) ==
    ~r.broken =>
        \A s \in r.asked : r.verdict[s] = "none" => r.tried[s] = ToSet(ms) /\ s \in r.failed

\* Where a run is, and its result
RunIsSound(r, result, ms) ==
    /\ r \in UpdateRecord(ms) /\ OnePlace(r)
    /\ r.phase <= Len(ms)
    /\ r.at = "off" /\ result = "none" => r = NoUpdate
    /\ r.at = "off" /\ result # "none" => AllTried(r, ms)
    /\ r.at # "off" =>
          /\ result = "none" /\ r.phase # 0 /\ r.failed = {} /\ r.snapshot \in [Sub -> SeenRemark]
          /\ NoneForgotten(r, ms)

TableTyped ==
    /\ subItem \in [Sub -> SubRow]
    /\ connected \in BOOLEAN /\ edits \in 0 .. MaxEdits

SubInv ==
    /\ TableTyped /\ IsMethodList(methods)
    /\ update \in [Updater -> UpdateRecord(methods)]
    /\ updateResult \in [Updater -> {"none", "ok", "failed"}]
    /\ \A u \in Updater : RunIsSound(update[u], updateResult[u], methods)

-----------------------------------------------------------------------------
(* SubscriptionUpdate: lemmas about the methods and the runs.               *)

\* parseUpdateMethods() gives at least one method.
LEMMA ParsedIsMethodList ==
    ASSUME NEW Name, NEW names \in Seq(Name)
    PROVE  IsMethodList(parseUpdateMethods(names))
<1> DEFINE new == {n \in DOMAIN names : /\ names[n] \in Method
                                        /\ \A m \in 1 .. n - 1 : names[m] # names[n]}
           Nth(k) == CHOOSE n \in new : Cardinality({m \in new : m <= n}) = k
           c == Cardinality(new)
           list == [k \in 1 .. c |-> names[Nth(k)]]
<1>1. Len(names) \in Nat /\ DOMAIN names = 1 .. Len(names)
  BY LenProperties
<1>2. IsFiniteSet(DOMAIN names)
  BY <1>1, FS_Interval
<1>3. IsFiniteSet(new) /\ c \in Nat /\ (c = 0 => new = {})
  <2>1. new \subseteq DOMAIN names
    OBVIOUS
  <2> HIDE DEF new
  <2> QED
    BY <1>2, <2>1, FS_Subset, FS_CardinalityType, FS_EmptySet
<1>4. parseUpdateMethods(names) = IF new = {} THEN <<"accelerator">> ELSE list
  BY DEF parseUpdateMethods
<1> HIDE DEF new, c
<1>5. CASE new = {}
  <2>1. Len(<<"accelerator">>) = 1 /\ DOMAIN <<"accelerator">> = 1 .. 1
    OBVIOUS
  <2> QED
    BY <1>4, <1>5, <2>1 DEF IsMethodList
<1>6. CASE new # {}
  <2> DEFINE values == {list[k] : k \in 1 .. c}
  <2>1. list \in [1 .. c -> values]
    OBVIOUS
  <2> HIDE DEF list, values
  <2>2. list \in Seq(values)
    BY <1>3, <2>1, IsASeq
  <2>3. Len(list) \in Nat /\ DOMAIN list = 1 .. Len(list)
    BY <2>2, LenProperties
  <2>4. c # 0 /\ 1 \in 1 .. c /\ DOMAIN list = 1 .. c
    BY <1>3, <1>6, <2>1
  <2>5. Len(list) # 0
    <3>1. 1 \in 1 .. Len(list)
      BY <2>3, <2>4
    <3> QED
      BY <3>1
  <2> QED
    BY <1>4, <1>6, <2>3, <2>5 DEF IsMethodList
<1> QED
  BY <1>5, <1>6

\* What the phases have tried
LEMMA TriedGrows ==
    ASSUME NEW ms, IsMethodList(ms), NEW p \in 1 .. Len(ms)
    PROVE  /\ TriedBy(p - 1, ms) \cup {ms[p]} = TriedBy(p, ms)
           /\ ms[p] \in ToSet(ms) /\ TriedBy(0, ms) = {} /\ TriedBy(Len(ms), ms) = ToSet(ms)
<1>1. Len(ms) \in Nat /\ DOMAIN ms = 1 .. Len(ms)
  BY DEF IsMethodList
<1>2. \A k : k \in 1 .. p <=> k \in 1 .. p - 1 \/ k = p
  BY <1>1
<1>3. TriedBy(p - 1, ms) \cup {ms[p]} = TriedBy(p, ms)
  BY <1>2 DEF TriedBy
<1>4. TriedBy(0, ms) = {}
  BY DEF TriedBy
<1> QED
  BY <1>1, <1>3, <1>4 DEF TriedBy, ToSet

\* BeginRun(), BeginSingle(): everything that is asked for is in the first phase.
LEMMA RunBegins ==
    ASSUME NEW ms, IsMethodList(ms), NEW r \in UpdateRecord(ms),
           r.at = "phase", r.phase = 1, r.asked = r.todo \cup r.probes,
           r.fetching = {}, r.rest = {}, r.failed = {}, r.snapshot \in [Sub -> SeenRemark],
           r.verdict = [s \in Sub |-> "none"], r.tried = [s \in Sub |-> {}]
    PROVE  RunIsSound(r, "none", ms)
<1>1. Len(ms) >= 1 /\ 1 \in 1 .. Len(ms) /\ r.todo \subseteq Sub /\ r.probes \subseteq Sub
  BY DEF IsMethodList, UpdateRecord
<1>2. TriedBy(1 - 1, ms) = {}
  BY DEF TriedBy
<1>3. OnePlace(r)
  BY <1>1 DEF OnePlace
<1>4. NoneForgotten(r, ms)
  BY <1>1, <1>2 DEF NoneForgotten
<1> QED
  BY <1>1, <1>3, <1>4 DEF RunIsSound

\* BeginFetch()
LEMMA FetchBegins ==
    ASSUME NEW ms, NEW r, RunIsSound(r, "none", ms), r.at = "phase",
           NEW s \in r.todo \cup r.probes, NEW attempted \in SUBSET Sub,
           NEW q, q = [r EXCEPT !.at = "fetch", !.fetching = {s}, !.todo = @ \ {s},
                                !.probes = @ \ {s}, !.attempted = attempted]
    PROVE  RunIsSound(q, "none", ms)
<1>1. r \in UpdateRecord(ms) /\ s \in Sub
  BY DEF RunIsSound, UpdateRecord
<1>2. q \in UpdateRecord(ms)
  BY <1>1 DEF UpdateRecord
<1>3. /\ q.at = "fetch" /\ q.fetching = {s} /\ q.todo = r.todo \ {s} /\ q.probes = r.probes \ {s}
      /\ q.phase = r.phase /\ q.rest = r.rest /\ q.failed = r.failed /\ q.snapshot = r.snapshot
      /\ q.tried = r.tried /\ q.verdict = r.verdict /\ q.asked = r.asked /\ q.broken = r.broken
  BY <1>1 DEF UpdateRecord
<1>4. OnePlace(q)
  BY <1>1, <1>3 DEF OnePlace, RunIsSound
<1>5. NoneForgotten(q, ms)
  <2>1. r.fetching = {} /\ NoneForgotten(r, ms)
    BY DEF RunIsSound, OnePlace
  <2>2. q.todo \cup q.probes \cup q.fetching = r.todo \cup r.probes
    BY <1>3
  <2> QED
    BY <1>3, <2>1, <2>2 DEF NoneForgotten
<1> QED
  BY <1>2, <1>3, <1>4, <1>5 DEF RunIsSound

LEMMA FetchedIsTyped ==
    ASSUME NEW ms, NEW r \in UpdateRecord(ms), NEW tried \in [Sub -> SUBSET ToSet(ms)],
           NEW verdicts \in [Sub -> {"none", "nodes", "gone"}], NEW left \in SUBSET Sub
    PROVE  [r EXCEPT !.at = "phase", !.fetching = {}, !.tried = tried, !.verdict = verdicts,
                     !.rest = left] \in UpdateRecord(ms)
BY DEF UpdateRecord

\* Fetched(): with a verdict the subscription is in no place any more; without one it is
\* among those for the next phase.
LEMMA FetchEnds ==
    ASSUME NEW ms, IsMethodList(ms), NEW r, RunIsSound(r, "none", ms), r.at = "fetch",
           NEW s \in r.fetching, NEW found \in {"none", "nodes", "gone"}, NEW rest,
           found = "none" => rest = {s}, found # "none" => rest = {},
           NEW q, q = [r EXCEPT !.at = "phase", !.fetching = {},
                                !.tried[s] = @ \cup {ms[r.phase]},
                                !.verdict[s] = IF found = "none" THEN @ ELSE found,
                                !.rest = @ \cup rest]
    PROVE  RunIsSound(q, "none", ms)
<1> DEFINE tried == [r.tried EXCEPT ![s] = @ \cup {ms[r.phase]}]
           said == IF found = "none" THEN r.verdict[s] ELSE found
           verdicts == [r.verdict EXCEPT ![s] = said]
           left == r.rest \cup rest
<1>1. r \in UpdateRecord(ms) /\ s \in Sub /\ r.fetching = {s}
  BY DEF RunIsSound, UpdateRecord, OnePlace
<1>2. r.phase \in 1 .. Len(ms)
  BY <1>1 DEF RunIsSound, UpdateRecord, IsMethodList
<1>3. q = [r EXCEPT !.at = "phase", !.fetching = {}, !.tried = tried,
                    !.verdict = verdicts, !.rest = left]
  OBVIOUS
<1>4. /\ tried \in [Sub -> SUBSET ToSet(ms)]
      /\ tried[s] = r.tried[s] \cup {ms[r.phase]} /\ \A x \in Sub \ {s} : tried[x] = r.tried[x]
  <2>1. ms[r.phase] \in ToSet(ms)
    BY <1>2, TriedGrows
  <2> QED
    BY <1>1, <2>1 DEF UpdateRecord
<1>5. /\ verdicts \in [Sub -> {"none", "nodes", "gone"}]
      /\ verdicts[s] = said /\ \A x \in Sub \ {s} : verdicts[x] = r.verdict[x]
  BY <1>1 DEF UpdateRecord
<1>6. left \in SUBSET Sub /\ left = r.rest \cup rest
  BY <1>1 DEF UpdateRecord
<1>7. said = found
  BY <1>1 DEF RunIsSound, OnePlace
<1> HIDE DEF tried, said, verdicts, left
<1>8. q \in UpdateRecord(ms)
  <2>1. [r EXCEPT !.at = "phase", !.fetching = {}, !.tried = tried, !.verdict = verdicts,
                  !.rest = left] \in UpdateRecord(ms)
    BY <1>1, <1>4, <1>5, <1>6, FetchedIsTyped, Zenon
  <2> QED
    BY <1>3, <2>1, Zenon
<1>9. /\ q.at = "phase" /\ q.fetching = {} /\ q.todo = r.todo /\ q.probes = r.probes
      /\ q.phase = r.phase /\ q.rest = left /\ q.failed = r.failed /\ q.snapshot = r.snapshot
      /\ q.tried = tried /\ q.verdict = verdicts /\ q.asked = r.asked /\ q.broken = r.broken
  BY <1>1, <1>3 DEF UpdateRecord
<1>10. /\ s \notin r.todo \cup r.probes \cup r.rest /\ r.failed = {} /\ rest \subseteq {s}
       /\ r.rest \cap (r.todo \cup r.probes) = {}
       /\ \A x \in r.todo \cup r.probes \cup r.rest : x \in Sub /\ r.verdict[x] = "none"
  BY <1>1 DEF RunIsSound, OnePlace, UpdateRecord
<1>11. OnePlace(q)
  <2>1. /\ q.fetching = {} /\ q.at = "phase"
        /\ q.rest \cap (q.todo \cup q.probes) = {}
    BY <1>6, <1>9, <1>10
  <2>2. \A x \in q.todo \cup q.probes \cup q.rest : q.verdict[x] = "none"
    BY <1>5, <1>6, <1>7, <1>9, <1>10
  <2> QED
    BY <1>9, <1>10, <2>1, <2>2 DEF OnePlace
<1>12. NoneForgotten(q, ms)
  <2> SUFFICES ASSUME ~q.broken, NEW x \in q.asked, q.verdict[x] = "none"
               PROVE  \/ /\ x \in q.todo \cup q.probes \cup q.fetching
                         /\ q.tried[x] = TriedBy(q.phase - 1, ms)
                      \/ x \in q.rest /\ q.tried[x] = TriedBy(q.phase, ms)
    BY DEF NoneForgotten
  <2>1. x \in Sub /\ r.asked = q.asked /\ ~r.broken /\ NoneForgotten(r, ms)
    BY <1>1, <1>9 DEF UpdateRecord, RunIsSound
  <2>2. CASE x = s
    <3>1. found = "none" /\ s \in q.rest
      BY <1>5, <1>6, <1>7, <1>9, <2>2
    <3>2. r.verdict[s] = "none" /\ r.tried[s] = TriedBy(r.phase - 1, ms)
      BY <1>1, <1>10, <2>1, <2>2 DEF NoneForgotten, RunIsSound, OnePlace
    <3>3. tried[s] = TriedBy(r.phase, ms)
      BY <1>2, <1>4, <3>2, TriedGrows
    <3> QED
      BY <1>9, <2>2, <3>1, <3>3
  <2>3. CASE x # s
    <3>1. r.verdict[x] = "none" /\ q.tried[x] = r.tried[x]
      BY <1>4, <1>5, <1>9, <2>1, <2>3
    <3> QED
      BY <1>1, <1>6, <1>9, <2>1, <2>3, <3>1 DEF NoneForgotten
  <2> QED
    BY <2>2, <2>3
<1> QED
  BY <1>8, <1>9, <1>11, <1>12 DEF RunIsSound

\* LoopBreaks(): the run is broken off, and nothing is said of what it had not reached.
LEMMA RunBreaks ==
    ASSUME NEW ms, NEW r, RunIsSound(r, "none", ms), r.at # "off",
           NEW probes, probes \subseteq r.probes,
           NEW q, q = [r EXCEPT !.at = "phase", !.fetching = {}, !.todo = {}, !.broken = TRUE,
                                !.probes = probes]
    PROVE  RunIsSound(q, "none", ms)
<1>1. r \in UpdateRecord(ms)
  BY DEF RunIsSound
<1>2. q \in UpdateRecord(ms)
  <2>1. probes \in SUBSET Sub
    BY <1>1 DEF UpdateRecord
  <2> QED
    BY <1>1, <2>1 DEF UpdateRecord
<1>3. /\ q.at = "phase" /\ q.fetching = {} /\ q.todo = {} /\ q.probes = probes
      /\ q.phase = r.phase /\ q.rest = r.rest /\ q.failed = r.failed /\ q.snapshot = r.snapshot
      /\ q.tried = r.tried /\ q.verdict = r.verdict /\ q.asked = r.asked /\ q.broken = TRUE
  BY <1>1 DEF UpdateRecord
<1>4. OnePlace(q)
  BY <1>3 DEF OnePlace, RunIsSound
<1>5. NoneForgotten(q, ms)
  BY <1>3 DEF NoneForgotten
<1> QED
  BY <1>2, <1>3, <1>4, <1>5 DEF RunIsSound

\* EndPhase(): what is left is tried with the next method.
LEMMA PhaseBegins ==
    ASSUME NEW ms, IsMethodList(ms), NEW r, RunIsSound(r, "none", ms), r.at = "phase",
           r.todo = {}, r.probes = {}, r.phase < Len(ms),
           NEW q, q = [r EXCEPT !.phase = @ + 1, !.todo = r.rest, !.rest = {}]
    PROVE  RunIsSound(q, "none", ms)
<1>1. r \in UpdateRecord(ms) /\ r.phase \in Nat /\ Len(ms) \in Nat /\ r.fetching = {}
  BY DEF RunIsSound, UpdateRecord, IsMethodList, OnePlace
<1> DEFINE p == r.phase + 1
<1>2. p \in Nat /\ p # 0 /\ p <= Len(ms) /\ p - 1 = r.phase
  BY <1>1
<1>3. q = [r EXCEPT !.phase = p, !.todo = r.rest, !.rest = {}]
  OBVIOUS
<1> HIDE DEF p
<1>4. q \in UpdateRecord(ms)
  BY <1>1, <1>2, <1>3 DEF UpdateRecord
<1>5. /\ q.at = "phase" /\ q.fetching = {} /\ q.todo = r.rest /\ q.probes = {}
      /\ q.phase = p /\ q.rest = {} /\ q.failed = r.failed /\ q.snapshot = r.snapshot
      /\ q.tried = r.tried /\ q.verdict = r.verdict /\ q.asked = r.asked /\ q.broken = r.broken
  BY <1>1, <1>3 DEF UpdateRecord
<1>6. OnePlace(q)
  BY <1>5 DEF OnePlace, RunIsSound
<1>7. NoneForgotten(q, ms)
  BY <1>1, <1>2, <1>5 DEF NoneForgotten, RunIsSound
<1> QED
  BY <1>2, <1>4, <1>5, <1>6, <1>7 DEF RunIsSound

\* EndPhase(): what is left has been tried with every method.
LEMMA RunEnds ==
    ASSUME NEW ms, IsMethodList(ms), NEW r, RunIsSound(r, "none", ms), r.at = "phase",
           r.todo = {}, r.probes = {}, r.rest = {} \/ ~(r.phase < Len(ms)),
           NEW result \in {"ok", "failed"},
           NEW q, q = [r EXCEPT !.at = "off", !.failed = r.rest, !.rest = {}]
    PROVE  RunIsSound(q, result, ms)
<1>1. /\ r \in UpdateRecord(ms) /\ r.phase \in Nat /\ Len(ms) \in Nat /\ r.fetching = {}
      /\ r.phase <= Len(ms) /\ r.phase # 0
  BY DEF RunIsSound, UpdateRecord, IsMethodList, OnePlace
<1>2. q \in UpdateRecord(ms)
  BY <1>1 DEF UpdateRecord
<1>3. /\ q.at = "off" /\ q.fetching = {} /\ q.todo = {} /\ q.probes = {}
      /\ q.phase = r.phase /\ q.rest = {} /\ q.failed = r.rest
      /\ q.tried = r.tried /\ q.verdict = r.verdict /\ q.asked = r.asked /\ q.broken = r.broken
  BY <1>1 DEF UpdateRecord
<1>4. OnePlace(q)
  BY <1>3 DEF OnePlace, RunIsSound
<1>5. r.rest # {} => r.phase = Len(ms)
  BY <1>1
<1>6. TriedBy(Len(ms), ms) = ToSet(ms)
  BY <1>1, TriedGrows DEF IsMethodList
<1>7. AllTried(q, ms)
  <2> SUFFICES ASSUME ~q.broken, NEW x \in q.asked, q.verdict[x] = "none"
               PROVE  q.tried[x] = ToSet(ms) /\ x \in q.failed
    BY DEF AllTried
  <2>1. x \in r.rest /\ r.tried[x] = TriedBy(r.phase, ms)
    BY <1>1, <1>3 DEF NoneForgotten, RunIsSound
  <2> QED
    BY <1>3, <1>5, <1>6, <2>1
<1> QED
  BY <1>1, <1>2, <1>3, <1>4, <1>7 DEF RunIsSound

-----------------------------------------------------------------------------
(* SubscriptionUpdate: every step preserves the invariant.                  *)

\* What a step may do to the table
NothingEnabled == \A s \in Sub : subItem'[s].on => subItem[s].on

LEMMA SubInitially == SubInit => SubInv
<1> SUFFICES ASSUME SubInit PROVE SubInv
  OBVIOUS
<1>1. subItem \in [Sub -> SubRow]
  <2>1. [marks : {0, 1}, name : Names] = SeenRemark
    BY DEF SeenRemark
  <2> QED
    BY <2>1 DEF SubInit, SubRow
<1>2. TableTyped
  <2>1. edits \in 0 .. MaxEdits
    BY UpdateAssumption DEF SubInit
  <2> QED
    BY <1>1, <2>1 DEF TableTyped, SubInit
<1>3. config.methods \in Seq(Method)
  <2>1. config.methods \in {<<>>, <<"accelerator", "direct">>, <<"direct", "direct", "proxy">>}
    BY DEF SubInit
  <2>2. "accelerator" \in Method /\ "direct" \in Method /\ "proxy" \in Method
    BY DEF Method
  <2>3. <<"accelerator", "direct">> \in Seq(Method) /\ <<"direct", "direct", "proxy">> \in Seq(Method)
    BY <2>2
  <2>4. <<>> \in Seq(Method)
    OBVIOUS
  <2> QED
    BY <2>1, <2>3, <2>4
<1>4. IsMethodList(methods)
  BY <1>3, ParsedIsMethodList DEF methods
<1>5. NoUpdate \in UpdateRecord(methods)
  BY DEF NoUpdate, UpdateRecord
<1>6. /\ NoUpdate.at = "off" /\ NoUpdate.todo = {} /\ NoUpdate.probes = {} /\ NoUpdate.rest = {}
      /\ NoUpdate.fetching = {} /\ NoUpdate.failed = {} /\ NoUpdate.phase = 0
  BY DEF NoUpdate
<1>7. OnePlace(NoUpdate)
  BY <1>6 DEF OnePlace
<1>8. RunIsSound(NoUpdate, "none", methods)
  BY <1>4, <1>5, <1>6, <1>7 DEF RunIsSound, IsMethodList
<1>9. /\ update = [u \in Updater |-> NoUpdate]
      /\ updateResult = [u \in Updater |-> "none"]
  BY DEF SubInit
<1>10. update \in [Updater -> UpdateRecord(methods)]
  BY <1>5, <1>9
<1>11. \A u \in Updater : RunIsSound(update[u], updateResult[u], methods)
  BY <1>8, <1>9
<1> QED
  BY <1>2, <1>4, <1>9, <1>10, <1>11 DEF SubInv

\* A step of one updater leaves the runs of the others alone.
LEMMA OneRunSteps ==
    ASSUME SubInv, NEW u \in Updater, config' = config, TableTyped',
           NEW q, RunIsSound(q, updateResult'[u], methods), update' = [update EXCEPT ![u] = q],
           updateResult' \in [Updater -> {"none", "ok", "failed"}],
           \A v \in Updater \ {u} : updateResult'[v] = updateResult[v]
    PROVE  SubInv'
<1>1. methods' = methods
  BY DEF methods
<1>2. q \in UpdateRecord(methods)
  BY DEF RunIsSound
<1>3. update' \in [Updater -> UpdateRecord(methods)]
  BY <1>2 DEF SubInv
<1>4. update'[u] = q /\ \A v \in Updater \ {u} : update'[v] = update[v]
  BY DEF SubInv
<1>5. \A v \in Updater : RunIsSound(update'[v], updateResult'[v], methods)
  BY <1>4 DEF SubInv
<1> QED
  BY <1>1, <1>3, <1>5 DEF SubInv

\* What is known of the run of an updater
LEMMA OwnRun ==
    ASSUME SubInv, NEW u \in Updater
    PROVE  /\ RunIsSound(update[u], updateResult[u], methods) /\ IsMethodList(methods)
           /\ update[u] \in UpdateRecord(methods) /\ updateResult[u] \in {"none", "ok", "failed"}
           /\ update[u].at # "off" => updateResult[u] = "none"
BY DEF SubInv, RunIsSound

\* A column of one row is written.
Tabled(t, f) == t \in [Sub -> SubRow] /\ \A x \in Sub : t[x].on => f[x].on

LEMMA OnIsTyped ==
    ASSUME NEW f \in [Sub -> SubRow], NEW s \in Sub
    PROVE  Tabled([f EXCEPT ![s].on = FALSE], f)
BY DEF SubRow, Tabled

LEMMA DueIsTyped ==
    ASSUME NEW f \in [Sub -> SubRow], NEW s \in Sub
    PROVE  Tabled([f EXCEPT ![s].due = FALSE], f)
BY DEF SubRow, Tabled

LEMMA RemarkIsTyped ==
    ASSUME NEW f \in [Sub -> SubRow], NEW s \in Sub, NEW remark \in SeenRemark
    PROVE  Tabled([f EXCEPT ![s].remark = remark], f)
BY DEF SubRow, Tabled

\* markSourceGone() and clearSourceGoneMarker() write the remark that was seen and never
\* enable.
LEMMA MarksAreSound ==
    ASSUME NEW f \in [Sub -> SubRow], f = subItem, NEW s \in Sub, NEW seen \in SeenRemark, NEW t,
           \/ t = markSourceGone(s, seen)
           \/ t = [clearSourceGoneMarker(s, seen) EXCEPT ![s].due = FALSE]
    PROVE  Tabled(t, f)
<1> DEFINE gone == [seen EXCEPT !.marks = 1]
           back == [seen EXCEPT !.marks = seen.marks - 1]
<1>1. gone \in SeenRemark /\ (seen.marks # 0 => back \in SeenRemark)
  <2>1. gone \in SeenRemark
    BY DEF SeenRemark
  <2>2. ASSUME seen.marks # 0 PROVE back \in SeenRemark
    <3>1. seen.marks = 1
      BY <2>2 DEF SeenRemark
    <3>2. back = [seen EXCEPT !.marks = 0]
      BY <3>1
    <3> QED
      BY <3>2 DEF SeenRemark
  <2> QED
    BY <2>1, <2>2
<1>2. CASE t = [f EXCEPT ![s].on = FALSE]
  BY <1>2, OnIsTyped
<1>3. CASE t = [[f EXCEPT ![s].on = FALSE] EXCEPT ![s].remark = gone]
  <2> DEFINE m == [f EXCEPT ![s].on = FALSE]
  <2>1. Tabled(m, f)
    BY OnIsTyped
  <2>2. t = [m EXCEPT ![s].remark = gone]
    BY <1>3
  <2> HIDE DEF m, gone
  <2>3. Tabled(t, m)
    BY <1>1, <2>1, <2>2, RemarkIsTyped DEF Tabled
  <2> QED
    BY <2>1, <2>3 DEF Tabled
<1>4. CASE seen.marks = 0 /\ t = [f EXCEPT ![s].due = FALSE]
  BY <1>4, DueIsTyped
<1>5. CASE seen.marks # 0 /\ t = [[f EXCEPT ![s].remark = back] EXCEPT ![s].due = FALSE]
  <2> DEFINE m == [f EXCEPT ![s].remark = back]
  <2>1. t = [m EXCEPT ![s].due = FALSE] /\ m = [f EXCEPT ![s].remark = back]
    BY <1>5
  <2>2. back \in SeenRemark
    BY <1>1, <1>5
  <2> HIDE DEF m, back
  <2>3. Tabled(m, f)
    BY <2>1, <2>2, RemarkIsTyped
  <2>4. Tabled(t, m)
    BY <2>1, <2>3, DueIsTyped DEF Tabled
  <2> QED
    BY <2>3, <2>4 DEF Tabled
<1>6. CASE t = markSourceGone(s, seen)
  BY <1>2, <1>3, <1>6 DEF markSourceGone
<1>7. CASE t = [clearSourceGoneMarker(s, seen) EXCEPT ![s].due = FALSE]
  BY <1>4, <1>5, <1>7 DEF clearSourceGoneMarker
<1> QED
  BY <1>6, <1>7

LEMMA BeginsKeep ==
    ASSUME SubInv, NEW u \in Updater, BeginRun(u) \/ \E s \in Sub : BeginSingle(u, s)
    PROVE  SubInv' /\ NothingEnabled
<1>1. /\ subItem' = subItem /\ config' = config /\ connected' = connected /\ edits' = edits
      /\ update[u].at = "off" /\ updateResult[u] = "none"
  BY DEF BeginRun, BeginSingle
<1>2. TableTyped' /\ NothingEnabled
  BY <1>1 DEF SubInv, TableTyped, NothingEnabled
<1>3. RunIsSound(update[u], "none", methods) /\ update[u] = NoUpdate /\ IsMethodList(methods)
  BY <1>1, OwnRun DEF RunIsSound
<1>4. \/ update' = update /\ \E res \in {"ok", "failed"} : updateResult' = [updateResult EXCEPT ![u] = res]
      \/ /\ updateResult' = updateResult
         /\ \E q : update' = [update EXCEPT ![u] = q] /\ RunIsSound(q, "none", methods)
  <2>0. Remarks \in [Sub -> SeenRemark]
    BY DEF Remarks, SubInv, TableTyped, SubRow
  <2>1. CASE BeginRun(u)
    <3> DEFINE due == {s \in {x \in Sub : subItem[x].on} : subItem[s].due}
    <3>1. CASE {s \in Sub : subItem[s].on} = {}
      BY <2>1, <3>1 DEF BeginRun
    <3>2. CASE {s \in Sub : subItem[s].on} # {}
      <4>1. PICK port \in BOOLEAN :
               update' = [update EXCEPT ![u] =
                   [NoUpdate EXCEPT !.at = "phase", !.phase = 1, !.todo = due, !.probes = Gone,
                                    !.snapshot = Remarks, !.port = port, !.asked = due \cup Gone]]
        BY <2>1, <3>2 DEF BeginRun, Set
      <4>2. due \in SUBSET Sub /\ Gone \in SUBSET Sub
        BY DEF Gone
      <4>3. updateResult' = updateResult
        BY <2>1, <3>2 DEF BeginRun
      <4> HIDE DEF due
      <4> DEFINE q == [NoUpdate EXCEPT !.at = "phase", !.phase = 1, !.todo = due, !.probes = Gone,
                                       !.snapshot = Remarks, !.port = port, !.asked = due \cup Gone]
      <4>4. q \in UpdateRecord(methods)
        BY <2>0, <4>2 DEF NoUpdate, UpdateRecord
      <4>5. /\ q.at = "phase" /\ q.phase = 1 /\ q.asked = q.todo \cup q.probes
            /\ q.fetching = {} /\ q.rest = {} /\ q.failed = {} /\ q.snapshot \in [Sub -> SeenRemark]
            /\ q.verdict = [s \in Sub |-> "none"] /\ q.tried = [s \in Sub |-> {}]
        BY <2>0 DEF NoUpdate
      <4>6. update' = [update EXCEPT ![u] = q]
        BY <4>1
      <4> HIDE DEF q
      <4>7. RunIsSound(q, "none", methods)
        BY <1>3, <4>4, <4>5, RunBegins
      <4> QED
        BY <4>3, <4>6, <4>7
    <3> QED
      BY <3>1, <3>2
  <2>2. CASE \E s \in Sub : BeginSingle(u, s)
    <3>1. PICK s \in Sub : BeginSingle(u, s)
      BY <2>2
    <3>2. CASE update' = update /\ \E res \in {"ok", "failed"} : updateResult' = [updateResult EXCEPT ![u] = res]
      BY <3>2
    <3>3. CASE /\ updateResult' = updateResult
               /\ \E port \in BOOLEAN :
                     update' = [update EXCEPT ![u] =
                         [NoUpdate EXCEPT !.at = "phase", !.phase = 1, !.todo = {s},
                                          !.snapshot = Remarks, !.port = port,
                                          !.asked = {s}, !.single = TRUE]]
      <4>1. PICK port \in BOOLEAN :
               update' = [update EXCEPT ![u] =
                   [NoUpdate EXCEPT !.at = "phase", !.phase = 1, !.todo = {s},
                                    !.snapshot = Remarks, !.port = port,
                                    !.asked = {s}, !.single = TRUE]]
        BY <3>3
      <4> DEFINE q == [NoUpdate EXCEPT !.at = "phase", !.phase = 1, !.todo = {s},
                                       !.snapshot = Remarks, !.port = port,
                                       !.asked = {s}, !.single = TRUE]
      <4>4. q \in UpdateRecord(methods)
        BY <2>0 DEF NoUpdate, UpdateRecord
      <4>5. /\ q.at = "phase" /\ q.phase = 1 /\ q.asked = q.todo \cup q.probes
            /\ q.fetching = {} /\ q.rest = {} /\ q.failed = {} /\ q.snapshot \in [Sub -> SeenRemark]
            /\ q.verdict = [x \in Sub |-> "none"] /\ q.tried = [x \in Sub |-> {}]
        BY <2>0 DEF NoUpdate
      <4>6. update' = [update EXCEPT ![u] = q]
        BY <4>1
      <4> HIDE DEF q
      <4>7. RunIsSound(q, "none", methods)
        BY <1>3, <4>4, <4>5, RunBegins
      <4> QED
        BY <3>3, <4>6, <4>7
    <3> QED
      BY <3>1, <3>2, <3>3 DEF BeginSingle, Set
  <2> QED
    BY <2>1, <2>2
<1>5. CASE update' = update /\ \E res \in {"ok", "failed"} : updateResult' = [updateResult EXCEPT ![u] = res]
  <2>1. PICK res \in {"ok", "failed"} : updateResult' = [updateResult EXCEPT ![u] = res]
    BY <1>5
  <2>2. /\ updateResult' \in [Updater -> {"none", "ok", "failed"}] /\ updateResult'[u] = res
        /\ \A v \in Updater \ {u} : updateResult'[v] = updateResult[v]
    BY <2>1 DEF SubInv
  <2>3. RunIsSound(NoUpdate, res, methods)
    <3>1. NoUpdate.at = "off" /\ NoUpdate.asked = {}
      BY DEF NoUpdate
    <3>2. AllTried(NoUpdate, methods)
      BY <3>1 DEF AllTried
    <3> QED
      BY <1>3, <3>1, <3>2 DEF RunIsSound
  <2>4. update' = [update EXCEPT ![u] = NoUpdate]
    BY <1>3, <1>5 DEF SubInv
  <2> QED
    BY <1>1, <1>2, <2>2, <2>3, <2>4, OneRunSteps
<1>6. CASE /\ updateResult' = updateResult
           /\ \E q : update' = [update EXCEPT ![u] = q] /\ RunIsSound(q, "none", methods)
  <2>1. PICK q : update' = [update EXCEPT ![u] = q] /\ RunIsSound(q, "none", methods)
    BY <1>6
  <2> QED
    BY <1>1, <1>2, <1>6, <2>1, OneRunSteps DEF SubInv
<1> QED
  BY <1>4, <1>5, <1>6

LEMMA BeginFetchKeeps ==
    ASSUME SubInv, NEW u \in Updater, BeginFetch(u)
    PROVE  SubInv' /\ NothingEnabled
<1> DEFINE r == update[u]
<1>1. /\ subItem' = subItem /\ config' = config /\ connected' = connected /\ edits' = edits
      /\ updateResult' = updateResult /\ r.at = "phase"
  BY DEF BeginFetch
<1>2. TableTyped' /\ NothingEnabled
  BY <1>1 DEF SubInv, TableTyped, NothingEnabled
<1>3. updateResult[u] = "none" /\ RunIsSound(r, "none", methods) /\ r \in UpdateRecord(methods)
  BY <1>1, OwnRun
<1>4. PICK s \in (IF r.todo # {} THEN r.todo ELSE r.probes) :
          update' = [update EXCEPT ![u] =
              [r EXCEPT !.at = "fetch", !.fetching = {s},
                        !.todo = @ \ {s}, !.probes = @ \ {s},
                        !.attempted = IF s \in r.todo THEN @ \cup {s} ELSE @]]
  BY DEF BeginFetch, Set
<1> DEFINE attempted == IF s \in r.todo THEN r.attempted \cup {s} ELSE r.attempted
           q == [r EXCEPT !.at = "fetch", !.fetching = {s}, !.todo = @ \ {s},
                          !.probes = @ \ {s}, !.attempted = attempted]
<1>5. update' = [update EXCEPT ![u] = q]
  BY <1>4
<1>6. s \in r.todo \cup r.probes /\ attempted \in SUBSET Sub
  BY <1>3 DEF UpdateRecord
<1>7. RunIsSound(q, "none", methods)
  <2> HIDE DEF attempted
  <2> QED
    BY <1>1, <1>3, <1>6, FetchBegins
<1> HIDE DEF q, r
<1> QED
  BY <1>1, <1>2, <1>3, <1>5, <1>7, OneRunSteps DEF SubInv

\* Fetched() with what each answer says
LEMMA FetchedKeeps ==
    ASSUME SubInv, NEW u \in Updater, update[u].at = "fetch", NEW s \in update[u].fetching,
           NEW found \in {"none", "nodes", "gone"}, NEW rest,
           found = "none" => rest = {s}, found # "none" => rest = {},
           Fetched(u, s, found, rest), TableTyped',
           config' = config, updateResult' = updateResult
    PROVE  SubInv'
<1> DEFINE r == update[u]
           ms == methods
           q == [r EXCEPT !.at = "phase", !.fetching = {}, !.tried[s] = @ \cup {ms[r.phase]},
                          !.verdict[s] = IF found = "none" THEN @ ELSE found,
                          !.rest = @ \cup rest]
<1>1. updateResult[u] = "none" /\ RunIsSound(r, "none", ms) /\ IsMethodList(ms)
  BY OwnRun
<1>2. update' = [update EXCEPT ![u] = q]
  BY DEF Fetched, Set
<1>3. RunIsSound(q, "none", ms)
  <2> HIDE DEF ms, r
  <2> QED
    BY <1>1, FetchEnds DEF r
<1> HIDE DEF q, r
<1> QED
  BY <1>1, <1>2, <1>3, OneRunSteps DEF SubInv

LEMMA FetchKeeps ==
    ASSUME SubInv, NEW u \in Updater, FetchNodes(u) \/ FetchGone(u) \/ FetchFails(u)
    PROVE  SubInv' /\ NothingEnabled
<1>1. /\ config' = config /\ connected' = connected /\ edits' = edits
      /\ updateResult' = updateResult /\ update[u].at = "fetch"
  BY DEF FetchNodes, FetchGone, FetchFails
<1>2. PICK s \in update[u].fetching, found \in {"none", "nodes", "gone"}, rest \in SUBSET Sub :
         /\ found = "none" => rest = {s} /\ subItem' = subItem
         /\ found # "none" => rest = {}
         /\ Fetched(u, s, found, rest)
         /\ found = "nodes" =>
               subItem' = [clearSourceGoneMarker(s, update[u].snapshot[s]) EXCEPT ![s].due = FALSE]
         /\ found = "gone" => subItem' = markSourceGone(s, update[u].snapshot[s])
  <2>0. \A s \in update[u].fetching : {s} \in SUBSET Sub
    <3>1. update[u] \in UpdateRecord(methods)
      BY OwnRun
    <3>2. update[u].fetching \in SUBSET Sub
      BY <3>1 DEF UpdateRecord
    <3> QED
      BY <3>2
  <2>1. CASE FetchNodes(u)
    <3>1. PICK s \in update[u].fetching :
             /\ subItem' = [clearSourceGoneMarker(s, update[u].snapshot[s]) EXCEPT ![s].due = FALSE]
             /\ Fetched(u, s, "nodes", {})
      BY <2>1 DEF FetchNodes
    <3>2. {} \in SUBSET Sub
      OBVIOUS
    <3> QED
      BY <3>1, <3>2
  <2>2. CASE FetchGone(u)
    BY <2>2 DEF FetchGone
  <2>3. CASE FetchFails(u)
    BY <2>0, <2>3 DEF FetchFails
  <2> QED
    BY <2>1, <2>2, <2>3
<1>3. s \in Sub /\ update[u].snapshot[s] \in SeenRemark
  BY <1>1, OwnRun DEF RunIsSound, UpdateRecord
<1>4. subItem' \in [Sub -> SubRow] /\ NothingEnabled
  <2>1. subItem \in [Sub -> SubRow]
    BY DEF SubInv, TableTyped
  <2>2. CASE found = "none"
    BY <1>2, <2>1, <2>2 DEF NothingEnabled
  <2>3. CASE found # "none"
    <3> DEFINE seen == update[u].snapshot[s]
    <3>1. \/ subItem' = markSourceGone(s, seen)
          \/ subItem' = [clearSourceGoneMarker(s, seen) EXCEPT ![s].due = FALSE]
      BY <1>2, <2>3
    <3> HIDE DEF seen
    <3>2. Tabled(subItem', subItem)
      BY <1>3, <2>1, <3>1, MarksAreSound DEF seen
    <3> QED
      BY <3>2 DEF NothingEnabled, Tabled
  <2> QED
    BY <2>2, <2>3
<1>5. TableTyped'
  BY <1>1, <1>4 DEF SubInv, TableTyped
<1> QED
  BY <1>1, <1>2, <1>4, <1>5, FetchedKeeps

LEMMA LoopBreaksKeeps ==
    ASSUME SubInv, NEW u \in Updater, LoopBreaks(u)
    PROVE  SubInv' /\ NothingEnabled
<1> DEFINE r == update[u]
<1>1. /\ subItem' = subItem /\ config' = config /\ connected' = connected /\ edits' = edits
      /\ updateResult' = updateResult /\ r.at # "off"
  BY DEF LoopBreaks
<1>2. TableTyped' /\ NothingEnabled
  BY <1>1 DEF SubInv, TableTyped, NothingEnabled
<1>3. updateResult[u] = "none" /\ RunIsSound(r, "none", methods)
  BY <1>1, OwnRun
<1> DEFINE probes == IF r.todo # {} \/ r.fetching \cap r.attempted # {} THEN r.probes ELSE {}
           q == [r EXCEPT !.at = "phase", !.fetching = {}, !.todo = {}, !.broken = TRUE,
                          !.probes = probes]
<1>4. update' = [update EXCEPT ![u] = q]
  BY DEF LoopBreaks, Set
<1>5. probes \subseteq r.probes
  OBVIOUS
<1>6. RunIsSound(q, "none", methods)
  <2> HIDE DEF probes
  <2> QED
    BY <1>1, <1>3, <1>5, RunBreaks
<1> HIDE DEF q, r
<1> QED
  BY <1>1, <1>2, <1>3, <1>4, <1>6, OneRunSteps DEF SubInv

LEMMA EndPhaseKeeps ==
    ASSUME SubInv, NEW u \in Updater, EndPhase(u)
    PROVE  SubInv' /\ NothingEnabled
<1> DEFINE r == update[u]
           next == [r EXCEPT !.phase = @ + 1, !.todo = r.rest, !.rest = {}]
           end == [r EXCEPT !.at = "off", !.failed = r.rest, !.rest = {}]
<1>1. /\ subItem' = subItem /\ config' = config /\ connected' = connected /\ edits' = edits
      /\ r.at = "phase" /\ r.todo = {} /\ r.probes = {}
  BY DEF EndPhase
<1>2. TableTyped' /\ NothingEnabled
  BY <1>1 DEF SubInv, TableTyped, NothingEnabled
<1>3. updateResult[u] = "none" /\ RunIsSound(r, "none", methods) /\ IsMethodList(methods)
  BY <1>1, OwnRun
<1>4. CASE r.rest # {} /\ r.phase < Len(methods)
  <2>1. update' = [update EXCEPT ![u] = next] /\ updateResult' = updateResult
    BY <1>4 DEF EndPhase, Set
  <2>2. RunIsSound(next, "none", methods)
    BY <1>1, <1>3, <1>4, PhaseBegins
  <2> HIDE DEF next, r
  <2> QED
    BY <1>1, <1>2, <1>3, <2>1, <2>2, OneRunSteps DEF SubInv
<1>5. CASE ~(r.rest # {} /\ r.phase < Len(methods))
  <2>1. PICK res \in {"ok", "failed"} :
           /\ update' = [update EXCEPT ![u] = end]
           /\ updateResult' = [updateResult EXCEPT ![u] = res]
    BY <1>5 DEF EndPhase, Set
  <2>2. RunIsSound(end, res, methods)
    BY <1>1, <1>3, <1>5, RunEnds
  <2> HIDE DEF end, r
  <2>3. /\ updateResult' \in [Updater -> {"none", "ok", "failed"}] /\ updateResult'[u] = res
        /\ \A v \in Updater \ {u} : updateResult'[v] = updateResult[v]
    BY <2>1 DEF SubInv
  <2> QED
    BY <1>1, <1>2, <2>1, <2>2, <2>3, OneRunSteps
<1> QED
  BY <1>4, <1>5

\* The user and the network leave the runs alone.
LEMMA OutsideKeeps ==
    ASSUME SubInv, NetworkChanges \/ (\E s \in Sub : EditSubscription(s)) \/ UNCHANGED subVars
    PROVE  SubInv' /\ (edits' = edits => NothingEnabled)
<1>1. /\ update' = update /\ config' = config /\ updateResult' = updateResult
      /\ methods' = methods /\ TableTyped
  BY DEF NetworkChanges, EditSubscription, subVars, methods, SubInv
<1>2. TableTyped' /\ (edits' = edits => NothingEnabled)
  <2>1. CASE NetworkChanges \/ UNCHANGED subVars
    BY <1>1, <2>1 DEF NetworkChanges, subVars, TableTyped, NothingEnabled
  <2>2. CASE \E s \in Sub : EditSubscription(s)
    <3>1. PICK s \in Sub : EditSubscription(s)
      BY <2>2
    <3>2. /\ edits' = edits + 1 /\ edits < MaxEdits /\ connected' = connected
          /\ \/ subItem' = [subItem EXCEPT ![s].on = ~@]
             \/ \E n \in Names : subItem' = [subItem EXCEPT ![s].remark = [marks |-> 0, name |-> n]]
      BY <3>1 DEF EditSubscription
    <3>3. subItem' \in [Sub -> SubRow]
      <4>1. CASE subItem' = [subItem EXCEPT ![s].on = ~@]
        BY <1>1, <4>1 DEF TableTyped, SubRow
      <4>2. CASE \E n \in Names : subItem' = [subItem EXCEPT ![s].remark = [marks |-> 0, name |-> n]]
        <5>1. PICK n \in Names : subItem' = [subItem EXCEPT ![s].remark = [marks |-> 0, name |-> n]]
          BY <4>2
        <5> DEFINE remark == [marks |-> 0, name |-> n]
        <5>2. remark \in SeenRemark /\ subItem' = [subItem EXCEPT ![s].remark = remark]
          BY <5>1 DEF SeenRemark
        <5> HIDE DEF remark
        <5> QED
          BY <1>1, <5>2 DEF TableTyped, SubRow
      <4> QED
        BY <3>2, <4>1, <4>2
    <3>4. edits' \in 0 .. MaxEdits /\ edits' # edits
      BY <1>1, <3>2, UpdateAssumption DEF TableTyped
    <3> QED
      BY <1>1, <3>2, <3>3, <3>4 DEF TableTyped
  <2> QED
    BY <2>1, <2>2
<1> QED
  BY <1>1, <1>2 DEF SubInv

LEMMA SubInvStep ==
    SubInv /\ [SubNext]_subVars => SubInv' /\ (edits' = edits => NothingEnabled)
<1> SUFFICES ASSUME SubInv, [SubNext]_subVars
             PROVE  SubInv' /\ (edits' = edits => NothingEnabled)
  OBVIOUS
<1>1. CASE \E u \in Updater : UpdaterStep(u)
  <2>1. PICK u \in Updater : UpdaterStep(u)
    BY <1>1
  <2> QED
    BY <2>1, BeginsKeep, BeginFetchKeeps, FetchKeeps, LoopBreaksKeeps, EndPhaseKeeps DEF UpdaterStep
<1>2. CASE NetworkChanges \/ (\E s \in Sub : EditSubscription(s)) \/ UNCHANGED subVars
  BY <1>2, OutsideKeeps
<1> QED
  BY <1>1, <1>2 DEF SubNext

LEMMA SubInvAlways == SubSpec => []SubInv
<1>1. SubInv /\ [SubNext]_subVars => SubInv'
  BY SubInvStep
<1> QED
  BY <1>1, SubInitially, PTL DEF SubSpec

-----------------------------------------------------------------------------
(* SubscriptionUpdate: what is proved of it.                                *)

\* Type correctness, and with it that the marker in a remark is never doubled, whatever
\* two updaters write over each other (markSourceGone(), clearSourceGoneMarker()).
THEOREM SubTypeCorrect == SubSpec => []SubTypeOK
<1>1. SubInv => SubTypeOK
  <2> SUFFICES ASSUME SubInv PROVE SubTypeOK
    OBVIOUS
  <2>1. subItem \in [Sub -> SubRow] /\ connected \in BOOLEAN /\ edits \in 0 .. MaxEdits
    BY DEF SubInv, TableTyped
  <2>2. \A s \in Sub : subItem[s].remark.marks \in {0, 1}
    BY <2>1 DEF SubRow, SeenRemark
  <2>3. MarkerOnce
    BY <2>2 DEF MarkerOnce
  <2>4. SubRow \subseteq [on : BOOLEAN, remark : Remark, due : BOOLEAN]
    <3>1. SeenRemark \subseteq Remark
      BY DEF SeenRemark, Remark
    <3> QED
      BY <3>1 DEF SubRow
  <2>5. ASSUME NEW u \in Updater
        PROVE  /\ update[u].at \in {"off", "phase", "fetch"}
               /\ update[u].phase \in 0 .. Len(methods)
               /\ \A f \in {"todo", "probes", "failed", "rest", "fetching", "attempted", "asked"} :
                     update[u][f] \subseteq Sub
               /\ update[u].verdict \in [Sub -> {"none", "nodes", "gone"}]
               /\ update[u].tried \in [Sub -> SUBSET ToSet(methods)]
    <3>1. /\ update[u] \in UpdateRecord(methods) /\ update[u].phase <= Len(methods)
          /\ Len(methods) \in Nat
      BY OwnRun DEF RunIsSound, IsMethodList
    <3> QED
      BY <3>1 DEF UpdateRecord
  <2> QED
    BY <2>1, <2>3, <2>4, <2>5 DEF SubTypeOK, SubInv
<1> QED
  BY <1>1, SubInvAlways, PTL

\* A subscription is tried with every method until there is a verdict on it, and not once
\* more after that; the run that gives it up says so (run(), runSingle()).
THEOREM TriedUntilVerdictAlways == SubSpec => []TriedUntilVerdict
<1>1. SubInv => TriedUntilVerdict
  <2> SUFFICES ASSUME SubInv, NEW u \in Updater
               PROVE  LET r == update[u] IN
                      /\ \A s \in r.todo \cup r.probes \cup r.fetching \cup r.rest \cup r.failed :
                            r.verdict[s] = "none"
                      /\ updateResult[u] # "none" /\ ~r.broken =>
                            \A s \in r.asked : r.verdict[s] = "none"
                                => r.tried[s] = ToSet(methods) /\ s \in r.failed
    BY DEF TriedUntilVerdict
  <2>1. RunIsSound(update[u], updateResult[u], methods)
    BY OwnRun
  <2> QED
    BY <2>1 DEF RunIsSound, OnePlace, AllTried
<1> QED
  BY <1>1, SubInvAlways, PTL

\* No step but an edit of the user enables a subscription (clearSourceGoneMarker()).
THEOREM OnlyTheUserEnablesAlways == SubSpec => OnlyTheUserEnables
<1>1. SubInv /\ [SubNext]_subVars =>
        [edits' = edits => \A s \in Sub : subItem'[s].on => subItem[s].on]_subVars
  BY SubInvStep DEF NothingEnabled
<1> QED
  BY <1>1, SubInvAlways, PTL DEF SubSpec, OnlyTheUserEnables

-----------------------------------------------------------------------------
(* ProfileStore: the inductive invariant.                                   *)

ItemRow == [sub : SubId, kind : Kind]
Dedups == {"protect", "fallback", "blacklist", "invalid", "garbage", "merge", "cleanup", "commit"}

JobRecord ==
    [kind : {"none", "dedup", "copy"}, at : {"idle", "copy"} \cup Dedups, tx : BOOLEAN,
     faults : 0 .. MaxFaults, todo : SUBSET Index, failed : Nat, unread : SUBSET Index,
     untested : SUBSET Index, orphan : SUBSET Index, result : {"none", "ok", "error"}]

IsItems(t) == DOMAIN t \subseteq Index /\ \A i \in DOMAIN t : t[i] \in ItemRow
IsEx(t) == DOMAIN t \subseteq Index /\ \A i \in DOMAIN t : t[i] \in Tested \ {"none"}

IsTarget(t) ==
    /\ DOMAIN t.items \subseteq Index /\ DOMAIN t.ex \subseteq Index
    /\ t = [items |-> t.items, ex |-> t.ex, subs |-> t.subs]

StoreTyped ==
    /\ IsItems(items) /\ IsEx(ex) /\ subs \subseteq SubId
    /\ storeConfig.subids \in {<<>>, <<"protected">>, <<"protected", "fallback">>}
    /\ IsTarget(target) /\ IsTarget(before.target)
    /\ job \in JobRecord
    /\ IsItems(before.items) /\ DOMAIN before.items = Index /\ IsEx(before.ex)

\* What a job is doing, and what has not been touched by it
JobIsSound ==
    /\ job.kind = "none" => job.at = "idle" /\ job.result = "none"
    /\ job.at # "idle" => job.result = "none"
    /\ job.at \in Dedups => job.kind = "dedup"
    /\ job.at = "copy" => job.kind = "copy"
    /\ job.kind # "dedup" => items = before.items /\ ex = before.ex
    /\ job.at \in Dedups \ {"commit"} => ex = before.ex

OneIsLeft == job.kind = "dedup" /\ job.at \in {"cleanup", "commit", "idle"}

\* Until one row is chosen every usable proxy is there, in the subscription that
\* comes first; then one that works is.
UsableIsKept ==
    job.kind = "dedup" /\ job.faults = 0 /\ Configured \subseteq subs =>
        /\ job.at = "protect" => items = before.items
        /\ job.at \in Dedups /\ ~OneIsLeft =>
              \A i \in Index : Usable(i) =>
                  /\ i \in DOMAIN items /\ items[i].kind = before.items[i].kind
                  /\ job.at # "protect" =>
                        items[i].sub = IF storeConfig.subids = <<>> THEN before.items[i].sub
                                       ELSE storeConfig.subids[1]
        /\ OneIsLeft /\ (\E i \in Index : Usable(i)) =>
              \E i \in DOMAIN items \cap DOMAIN ex : Working(ex[i])

\* What the phases have removed, if none of them failed
RemovedIsGone ==
    job.kind = "dedup" /\ job.faults = 0 =>
        /\ job.at \in {"garbage", "merge"} \/ OneIsLeft => \A i \in DOMAIN items : items[i].sub \in subs
        /\ OneIsLeft => \A i, j \in DOMAIN items : i = j
        /\ OneIsLeft /\ job.at # "cleanup" => DOMAIN ex \subseteq DOMAIN items

\* What has been copied, if nothing that counts failed and it is not rolled back
Arrived(i) ==
    /\ i \in DOMAIN target.items
    /\ i \in DOMAIN target.ex \/ i \in job.untested
    /\ items[i].sub \in subs => items[i].sub \in target.subs \/ i \in job.orphan

CopiedIsThere ==
    job.kind = "copy" =>
        /\ job.failed = 0 /\ job.result # "error" =>
              \A i \in ToCopy \ (job.todo \cup job.unread) : ~Skipped(i) => Arrived(i)
        /\ job.result = "ok" => job.failed = 0 /\ job.todo = {}

StoreInv == StoreTyped /\ JobIsSound /\ UsableIsKept /\ RemovedIsGone /\ CopiedIsThere

-----------------------------------------------------------------------------
(* ProfileStore: lemmas about the tables and the phases.                    *)

LEMMA PhasesAreDedups == ToSet(Phases) = Dedups
BY DEF ToSet, Phases, Dedups

\* The phases follow each other.
LEMMA PhasesFollow ==
    /\ job.at = "protect" => NextPhase = "fallback"
    /\ job.at = "fallback" => NextPhase = "blacklist"
    /\ job.at = "blacklist" => NextPhase = "invalid"
    /\ job.at = "invalid" => NextPhase = "garbage"
    /\ job.at = "garbage" => NextPhase = "merge"
    /\ job.at = "merge" => NextPhase = "cleanup"
    /\ job.at = "cleanup" => NextPhase = "commit"
<1> DEFINE pos == CHOOSE n \in DOMAIN Phases : Phases[n] = job.at
<1>1. /\ DOMAIN Phases = 1 .. 8 /\ Phases[1] = "protect" /\ Phases[2] = "fallback"
      /\ Phases[3] = "blacklist" /\ Phases[4] = "invalid" /\ Phases[5] = "garbage"
      /\ Phases[6] = "merge" /\ Phases[7] = "cleanup" /\ Phases[8] = "commit"
  BY DEF Phases
<1>2. \A n : n \in DOMAIN Phases =>
         n = 1 \/ n = 2 \/ n = 3 \/ n = 4 \/ n = 5 \/ n = 6 \/ n = 7 \/ n = 8
  BY <1>1
<1>3. NextPhase = Phases[1 + pos]
  BY DEF NextPhase
<1>4. (\E n \in DOMAIN Phases : Phases[n] = job.at) => pos \in DOMAIN Phases /\ Phases[pos] = job.at
  OBVIOUS
<1> HIDE DEF pos
<1>5. /\ job.at = "protect" => pos = 1
      /\ job.at = "fallback" => pos = 2
      /\ job.at = "blacklist" => pos = 3
      /\ job.at = "invalid" => pos = 4
  <2>1. 1 \in DOMAIN Phases /\ 2 \in DOMAIN Phases /\ 3 \in DOMAIN Phases /\ 4 \in DOMAIN Phases
    BY <1>1
  <2>2. ASSUME job.at = "protect" PROVE pos = 1
    BY <1>1, <1>2, <1>4, <2>1, <2>2
  <2>3. ASSUME job.at = "fallback" PROVE pos = 2
    BY <1>1, <1>2, <1>4, <2>1, <2>3
  <2>4. ASSUME job.at = "blacklist" PROVE pos = 3
    BY <1>1, <1>2, <1>4, <2>1, <2>4
  <2>5. ASSUME job.at = "invalid" PROVE pos = 4
    BY <1>1, <1>2, <1>4, <2>1, <2>5
  <2> QED
    BY <2>2, <2>3, <2>4, <2>5
<1>6. /\ job.at = "garbage" => pos = 5
      /\ job.at = "merge" => pos = 6
      /\ job.at = "cleanup" => pos = 7
  <2>1. 5 \in DOMAIN Phases /\ 6 \in DOMAIN Phases /\ 7 \in DOMAIN Phases
    BY <1>1
  <2>2. ASSUME job.at = "garbage" PROVE pos = 5
    BY <1>1, <1>2, <1>4, <2>1, <2>2
  <2>3. ASSUME job.at = "merge" PROVE pos = 6
    BY <1>1, <1>2, <1>4, <2>1, <2>3
  <2>4. ASSUME job.at = "cleanup" PROVE pos = 7
    BY <1>1, <1>2, <1>4, <2>1, <2>4
  <2> QED
    BY <2>2, <2>3, <2>4
<1>7. 1 + 1 = 2 /\ 1 + 2 = 3 /\ 1 + 3 = 4 /\ 1 + 4 = 5 /\ 1 + 5 = 6 /\ 1 + 6 = 7 /\ 1 + 7 = 8
  OBVIOUS
<1> QED
  BY <1>1, <1>3, <1>5, <1>6, <1>7

\* What is decided by the configuration and by the tables as they were
LEMMA ConfigurationStays ==
    ASSUME UNCHANGED <<subs, storeConfig, before>>
    PROVE  Configured' = Configured /\ \A i \in Index : Usable(i)' <=> Usable(i)
BY DEF Configured, Usable

\* Move(): only the subscription of the named rows changes.
LEMMA MoveIsTyped ==
    ASSUME IsItems(items), NEW is, NEW s \in SubId, Move(is, s)
    PROVE  /\ IsItems(items') /\ DOMAIN items' = DOMAIN items
           /\ \A i \in DOMAIN items : /\ items'[i].kind = items[i].kind
                                      /\ items'[i].sub = IF i \in is THEN s ELSE items[i].sub
<1>1. items' = [i \in DOMAIN items |-> IF i \in is THEN [items[i] EXCEPT !.sub = s] ELSE items[i]]
  BY DEF Move, Present
<1>2. \A i \in DOMAIN items : items[i] \in ItemRow
  BY DEF IsItems
<1>3. \A i \in DOMAIN items : /\ items'[i] \in ItemRow /\ items'[i].kind = items[i].kind
                              /\ items'[i].sub = IF i \in is THEN s ELSE items[i].sub
  <2> SUFFICES ASSUME NEW i \in DOMAIN items
               PROVE  /\ items'[i] \in ItemRow /\ items'[i].kind = items[i].kind
                      /\ items'[i].sub = IF i \in is THEN s ELSE items[i].sub
    OBVIOUS
  <2> DEFINE row == items[i]
  <2>1. items'[i] = IF i \in is THEN [row EXCEPT !.sub = s] ELSE row
    BY <1>1
  <2>2. row \in ItemRow
    BY <1>2
  <2> HIDE DEF row
  <2>3. items'[i] \in ItemRow /\ items'[i].kind = row.kind
        /\ items'[i].sub = IF i \in is THEN s ELSE row.sub
    BY <2>1, <2>2 DEF ItemRow
  <2> QED
    BY <2>3 DEF row
<1>4. DOMAIN items' = DOMAIN items
  BY <1>1
<1> QED
  BY <1>3, <1>4 DEF IsItems

\* Keep(): the other rows go.
LEMMA KeepIsTyped ==
    ASSUME IsItems(items), NEW is, is \subseteq DOMAIN items, items' = Keep(is)
    PROVE  IsItems(items') /\ DOMAIN items' = is /\ \A i \in is : items'[i] = items[i]
BY DEF IsItems, Keep

\* The job goes on with the next phase.
LEMMA GoSteps ==
    ASSUME StoreInv, job.at \in Dedups \ {"commit"}, Go
    PROVE  /\ job.kind = "dedup" /\ job' \in JobRecord /\ job'.kind = "dedup"
           /\ job'.faults = job.faults /\ job'.result = "none" /\ job'.at = NextPhase
           /\ ex = before.ex
<1>1. /\ job \in JobRecord /\ job.kind = "dedup" /\ job.result = "none" /\ ex = before.ex
  BY DEF StoreInv, StoreTyped, JobIsSound, Dedups
<1>2. NextPhase \in Dedups
  BY PhasesFollow DEF Dedups
<1>3. job' = [job EXCEPT !.at = NextPhase]
  BY DEF Go
<1> QED
  BY <1>1, <1>2, <1>3 DEF JobRecord

-----------------------------------------------------------------------------
(* ProfileStore: the deduplication.                                         *)

\* The phases that only move proxies: what is usable is where it belongs.
LEMMA MovingKeeps ==
    ASSUME StoreInv, job.at \in {"protect", "fallback", "blacklist"}, Go,
           UNCHANGED <<ex, subs, storeConfig, target, before>>,
           IsItems(items'), DOMAIN items' = DOMAIN items,
           \A i \in DOMAIN items : items'[i].kind = items[i].kind,
           \A i \in Index : i \in DOMAIN items /\ Usable(i) /\ ex = before.ex =>
              items'[i].sub = IF job.at # "protect" \/ storeConfig.subids = <<>> THEN items[i].sub
                              ELSE storeConfig.subids[1]
    PROVE  StoreInv'
<1>1. /\ job.kind = "dedup" /\ job' \in JobRecord /\ job'.kind = "dedup" /\ ex = before.ex
      /\ job'.faults = job.faults /\ job'.result = "none" /\ job'.at = NextPhase
  BY GoSteps DEF Dedups
<1>2. job'.at \in {"fallback", "blacklist", "invalid"}
  BY <1>1, PhasesFollow
<1>3. StoreTyped'
  BY <1>1 DEF StoreInv, StoreTyped
<1>4. JobIsSound'
  BY <1>1, <1>2 DEF JobIsSound, Dedups
<1>5. UsableIsKept'
  <2> SUFFICES ASSUME job'.faults = 0, Configured' \subseteq subs', NEW i \in Index, Usable(i)'
               PROVE  /\ i \in DOMAIN items' /\ items'[i].kind = before.items[i].kind
                      /\ items'[i].sub = IF storeConfig.subids = <<>> THEN before.items[i].sub
                                         ELSE storeConfig.subids[1]
    BY <1>1, <1>2 DEF UsableIsKept, OneIsLeft, Dedups
  <2>1. Usable(i) /\ Configured \subseteq subs /\ job.faults = 0
    BY <1>1, ConfigurationStays
  <2>2. /\ i \in DOMAIN items /\ items[i].kind = before.items[i].kind
        /\ job.at # "protect" => items[i].sub = IF storeConfig.subids = <<>>
                                                THEN before.items[i].sub ELSE storeConfig.subids[1]
        /\ job.at = "protect" => items = before.items
    BY <1>1, <2>1 DEF UsableIsKept, StoreInv, OneIsLeft, Dedups
  <2>3. items'[i].sub = IF job.at # "protect" \/ storeConfig.subids = <<>> THEN items[i].sub
                        ELSE storeConfig.subids[1]
    BY <1>1, <2>1, <2>2
  <2> QED
    BY <2>2, <2>3
<1>6. RemovedIsGone'
  BY <1>2 DEF RemovedIsGone, OneIsLeft
<1>7. CopiedIsThere'
  BY <1>1 DEF CopiedIsThere
<1> QED
  BY <1>3, <1>4, <1>5, <1>6, <1>7 DEF StoreInv

\* The first two subscriptions of dedup_subids
LEMMA SubidsAreTyped ==
    ASSUME StoreInv
    PROVE  /\ storeConfig.subids # <<>> =>
                 storeConfig.subids[1] \in SubId /\ storeConfig.subids[1] \in Configured
           /\ ~(Len(storeConfig.subids) < 2) => storeConfig.subids[2] \in SubId
           /\ storeConfig.subids = <<>> => Configured = {}
<1>1. storeConfig.subids \in {<<>>, <<"protected">>, <<"protected", "fallback">>}
  BY DEF StoreInv, StoreTyped
<1>2. CASE storeConfig.subids = <<>>
  BY <1>2 DEF Configured, ToSet
<1>3. CASE storeConfig.subids = <<"protected">>
  BY <1>3 DEF Configured, ToSet, SubId
<1>4. CASE storeConfig.subids = <<"protected", "fallback">>
  BY <1>4 DEF Configured, ToSet, SubId
<1> QED
  BY <1>1, <1>2, <1>3, <1>4

\* Protect(), Fallback(), Blacklist()
LEMMA MovesKeep == StoreInv /\ (Protect \/ Fallback \/ Blacklist) => StoreInv'
<1> SUFFICES ASSUME StoreInv, Protect \/ Fallback \/ Blacklist PROVE StoreInv'
  OBVIOUS
<1>1. IsItems(items) /\ \A i \in Index : Usable(i) /\ ex = before.ex => ex[i] \in {"fast", "slow"} /\ i \in DOMAIN ex
  BY DEF StoreInv, StoreTyped, Usable, Working, Present
<1>2. /\ job.at \in {"protect", "fallback", "blacklist"} /\ Go
      /\ UNCHANGED <<ex, subs, storeConfig, target, before>>
  BY DEF Protect, Fallback, Blacklist
<1>3. CASE items' = items /\ (job.at = "protect" => storeConfig.subids = <<>>)
  BY <1>1, <1>2, <1>3, MovingKeeps
<1>4. ASSUME NEW is, NEW s \in SubId, Move(is, s),
             \A i \in Index : i \in DOMAIN items /\ Usable(i) /\ ex = before.ex =>
                (i \in is <=> job.at = "protect"),
             job.at = "protect" => storeConfig.subids # <<>> /\ s = storeConfig.subids[1]
      PROVE  StoreInv'
  <2>1. /\ IsItems(items') /\ DOMAIN items' = DOMAIN items
        /\ \A i \in DOMAIN items : /\ items'[i].kind = items[i].kind
                                   /\ items'[i].sub = IF i \in is THEN s ELSE items[i].sub
    BY <1>1, <1>4, MoveIsTyped
  <2>2. \A i \in Index : i \in DOMAIN items /\ Usable(i) /\ ex = before.ex =>
              items'[i].sub = IF job.at # "protect" \/ storeConfig.subids = <<>> THEN items[i].sub
                              ELSE storeConfig.subids[1]
    BY <1>4, <2>1
  <2> QED
    BY <1>2, <2>1, <2>2, MovingKeeps
<1>5. CASE Protect /\ storeConfig.subids # <<>>
  <2> DEFINE is == TestedIn({"fast", "slow"})
             s == storeConfig.subids[1]
  <2>1. Move(is, s) /\ s \in SubId /\ job.at = "protect"
    BY <1>5, SubidsAreTyped DEF Protect
  <2>2. \A i \in Index : i \in DOMAIN items /\ Usable(i) /\ ex = before.ex => i \in is
    BY <1>1 DEF TestedIn, Present
  <2> HIDE DEF is
  <2> QED
    BY <1>4, <1>5, <2>1, <2>2
<1>6. CASE Fallback /\ ~(Len(storeConfig.subids) < 2)
  <2> DEFINE is == {i \in TestedIn({"failing", "hopeless"}) : items[i].sub = storeConfig.subids[1]}
             s == storeConfig.subids[2]
  <2>1. Move(is, s) /\ s \in SubId /\ job.at = "fallback"
    BY <1>6, SubidsAreTyped DEF Fallback
  <2>2. \A i \in Index : i \in DOMAIN items /\ Usable(i) /\ ex = before.ex => i \notin is
    BY <1>1 DEF TestedIn, Present
  <2> HIDE DEF is
  <2> QED
    BY <1>4, <2>1, <2>2
<1>7. CASE Blacklist /\ storeConfig.blacklist
  <2> DEFINE is == TestedIn({"hopeless"})
  <2>1. Move(is, "blacklist") /\ "blacklist" \in SubId /\ job.at = "blacklist"
    BY <1>7 DEF Blacklist, SubId
  <2>2. \A i \in Index : i \in DOMAIN items /\ Usable(i) /\ ex = before.ex => i \notin is
    BY <1>1 DEF TestedIn, Present
  <2> HIDE DEF is
  <2> QED
    BY <1>4, <2>1, <2>2
<1>8. \/ items' = items /\ (job.at = "protect" => storeConfig.subids = <<>>)
      \/ Protect /\ storeConfig.subids # <<>>
      \/ Fallback /\ ~(Len(storeConfig.subids) < 2)
      \/ Blacklist /\ storeConfig.blacklist
  BY DEF Protect, Fallback, Blacklist
<1> QED
  BY <1>3, <1>5, <1>6, <1>7, <1>8

\* RemoveInvalid(), RemoveGarbage(): what is usable is neither.
LEMMA RemovesKeep == StoreInv /\ (RemoveInvalid \/ RemoveGarbage) => StoreInv'
<1> SUFFICES ASSUME StoreInv, RemoveInvalid \/ RemoveGarbage PROVE StoreInv'
  OBVIOUS
<1> DEFINE left == IF job.at = "invalid"
                   THEN {i \in DOMAIN items :
                           /\ items[i].kind # "private" /\ items[i].sub \in subs
                           /\ storeConfig.subids # <<>> /\ items[i].kind = "plain"
                                 => items[i].sub \in Configured}
                   ELSE {i \in DOMAIN items : items[i].kind \notin {"private", "garbage"}}
<1>1. /\ job.at \in {"invalid", "garbage"} /\ Go /\ items' = Keep(left)
      /\ UNCHANGED <<ex, subs, storeConfig, target, before>>
  BY DEF RemoveInvalid, RemoveGarbage, Present
<1>2. /\ job.kind = "dedup" /\ job' \in JobRecord /\ job'.kind = "dedup" /\ ex = before.ex
      /\ job'.faults = job.faults /\ job'.result = "none" /\ job'.at = NextPhase
  BY <1>1, GoSteps DEF Dedups
<1>3. job'.at \in {"garbage", "merge"} /\ (job.at = "garbage" => job'.at = "merge")
  BY <1>1, <1>2, PhasesFollow
<1>4. left \subseteq DOMAIN items /\ (job.at = "invalid" => \A i \in left : items[i].sub \in subs)
  OBVIOUS
<1>5. IsItems(items) /\ IsItems(items') /\ DOMAIN items' = left /\ \A i \in left : items'[i] = items[i]
  <2>1. IsItems(items)
    BY DEF StoreInv, StoreTyped
  <2> HIDE DEF left
  <2> QED
    BY <1>1, <1>4, <2>1, KeepIsTyped
<1>6. StoreTyped'
  BY <1>1, <1>2, <1>5 DEF StoreInv, StoreTyped
<1>7. JobIsSound'
  BY <1>1, <1>2, <1>3 DEF JobIsSound, Dedups
<1>8. UsableIsKept'
  <2> SUFFICES ASSUME job'.faults = 0, Configured' \subseteq subs', NEW i \in Index, Usable(i)'
               PROVE  /\ i \in DOMAIN items' /\ items'[i].kind = before.items[i].kind
                      /\ items'[i].sub = IF storeConfig.subids = <<>> THEN before.items[i].sub
                                         ELSE storeConfig.subids[1]
    BY <1>1, <1>2, <1>3 DEF UsableIsKept, OneIsLeft, Dedups
  <2>1. Usable(i) /\ Configured \subseteq subs /\ job.faults = 0
    BY <1>1, <1>2, ConfigurationStays
  <2>2. /\ i \in DOMAIN items /\ items[i].kind = before.items[i].kind
        /\ items[i].sub = IF storeConfig.subids = <<>> THEN before.items[i].sub
                          ELSE storeConfig.subids[1]
    BY <1>1, <1>2, <2>1 DEF UsableIsKept, StoreInv, OneIsLeft, Dedups
  <2>3. /\ items[i].kind \in {"tls", "plain"}
        /\ storeConfig.subids = <<>> => items[i].sub \in subs
    BY <2>1, <2>2 DEF Usable
  <2>4. storeConfig.subids # <<>> => items[i].sub \in Configured
    BY <2>2, SubidsAreTyped
  <2>5. i \in left
    BY <2>1, <2>2, <2>3, <2>4
  <2> HIDE DEF left
  <2> QED
    BY <1>5, <2>2, <2>5
<1>9. RemovedIsGone'
  <2> HIDE DEF left
  <2>1. ASSUME job.faults = 0, NEW i \in left PROVE items[i].sub \in subs
    <3>1. CASE job.at = "invalid"
      BY <1>4, <2>1, <3>1
    <3>2. CASE job.at = "garbage"
      BY <1>2, <1>4, <2>1, <3>2 DEF RemovedIsGone, StoreInv
    <3> QED
      BY <1>1, <3>1, <3>2
  <2> QED
    BY <1>1, <1>2, <1>3, <1>5, <2>1 DEF RemovedIsGone, OneIsLeft
<1>10. CopiedIsThere'
  BY <1>2 DEF CopiedIsThere
<1> QED
  BY <1>6, <1>7, <1>8, <1>9, <1>10 DEF StoreInv

\* A proxy that comes before no working one in the order of the merge works.
LEMMA FirstWorks ==
    ASSUME StoreInv, ex = before.ex, NEW i \in DOMAIN items, NEW j \in DOMAIN items,
           Usable(j), storeConfig.subids # <<>> => items[j].sub \in Configured,
           ~Before(j, i)
    PROVE  i \in DOMAIN ex /\ Working(ex[i])
<1>1. j \in DOMAIN ex /\ ex[j] \in {"fast", "slow"}
  BY DEF Usable, Working, Present
<1>2. storeConfig.subids = <<>> => Configured = {}
  BY SubidsAreTyped
<1> DEFINE rank(k) == IF items[k].sub \in Configured THEN 0 ELSE 1
<1>3. ~(rank(j) < rank(i)) /\ ~(rank(i) = rank(j) /\ Delay(j) > Delay(i))
  BY DEF Before
<1>4. rank(i) = rank(j)
  <2>1. CASE storeConfig.subids = <<>>
    BY <1>2, <2>1
  <2>2. CASE storeConfig.subids # <<>>
    BY <1>3, <2>2
  <2> QED
    BY <2>1, <2>2
<1>5. Delay(j) = 2 \/ Delay(j) = 3
  BY <1>1 DEF Delay, Present
<1>6. ~(Delay(j) > Delay(i))
  BY <1>3, <1>4
<1>7. i \in DOMAIN ex => ex[i] \in {"failing", "hopeless", "fast", "slow"}
  BY DEF StoreInv, StoreTyped, IsEx, Tested
<1>8. Delay(i) # 0 /\ Delay(i) # 1
  BY <1>5, <1>6
<1>9. i \in DOMAIN ex
  BY <1>8 DEF Delay, Present
<1>10. ex[i] \notin {"failing", "hopeless"}
  BY <1>8, <1>9 DEF Delay, Present
<1> QED
  BY <1>7, <1>9, <1>10 DEF Working

LEMMA MergeKeeps == StoreInv /\ Merge => StoreInv'
<1> SUFFICES ASSUME StoreInv, Merge PROVE StoreInv'
  OBVIOUS
<1>1. /\ job.at = "merge" /\ Go /\ UNCHANGED <<ex, subs, storeConfig, target, before>>
      /\ IsItems(items)
  BY DEF Merge, StoreInv, StoreTyped
<1>2. /\ job.kind = "dedup" /\ job' \in JobRecord /\ job'.kind = "dedup" /\ ex = before.ex
      /\ job'.faults = job.faults /\ job'.result = "none" /\ job'.at = "cleanup"
  BY <1>1, GoSteps, PhasesFollow DEF Dedups
<1>3. \/ DOMAIN items = {} /\ items' = items
      \/ \E i \in DOMAIN items : (\A j \in DOMAIN items : ~Before(j, i)) /\ items' = Keep({i})
  <2>1. CASE items = <<>>
    <3>1. DOMAIN <<>> = {}
      OBVIOUS
    <3>2. DOMAIN items = {}
      BY <2>1, <3>1
    <3>3. items' = items
      BY <2>1 DEF Merge
    <3> QED
      BY <3>2, <3>3
  <2>2. CASE items # <<>>
    BY <2>2, Zenon DEF Merge, Present
  <2> QED
    BY <2>1, <2>2
<1>4. /\ IsItems(items') /\ DOMAIN items' \subseteq DOMAIN items
      /\ \A i \in DOMAIN items' : items'[i] = items[i] /\ \A j \in DOMAIN items : ~Before(j, i)
      /\ \A i, j \in DOMAIN items' : i = j
      /\ DOMAIN items # {} => DOMAIN items' # {}
  <2>1. CASE DOMAIN items = {} /\ items' = items
    BY <1>1, <2>1
  <2>2. CASE \E i \in DOMAIN items : (\A j \in DOMAIN items : ~Before(j, i)) /\ items' = Keep({i})
    <3>1. PICK i \in DOMAIN items : (\A j \in DOMAIN items : ~Before(j, i)) /\ items' = Keep({i})
      BY <2>2
    <3>2. IsItems(items') /\ DOMAIN items' = {i} /\ \A j \in {i} : items'[j] = items[j]
      BY <1>1, <3>1, KeepIsTyped
    <3> QED
      BY <3>1, <3>2
  <2> QED
    BY <1>3, <2>1, <2>2
<1>5. StoreTyped'
  BY <1>1, <1>2, <1>4 DEF StoreInv, StoreTyped
<1>6. JobIsSound'
  BY <1>1, <1>2 DEF JobIsSound, Dedups
<1>7. UsableIsKept'
  <2> SUFFICES ASSUME job'.faults = 0, Configured' \subseteq subs', NEW j \in Index, Usable(j)'
               PROVE  \E i \in DOMAIN items' \cap DOMAIN ex' : Working(ex'[i])
    BY <1>2 DEF UsableIsKept, OneIsLeft, Dedups
  <2>1. Usable(j) /\ Configured \subseteq subs /\ job.faults = 0
    BY <1>1, <1>2, ConfigurationStays
  <2>2. /\ j \in DOMAIN items
        /\ items[j].sub = IF storeConfig.subids = <<>> THEN before.items[j].sub
                          ELSE storeConfig.subids[1]
    BY <1>1, <1>2, <2>1 DEF UsableIsKept, StoreInv, OneIsLeft, Dedups
  <2>3. storeConfig.subids # <<>> => items[j].sub \in Configured
    BY <2>2, SubidsAreTyped
  <2>4. PICK i \in DOMAIN items' : TRUE
    BY <1>4, <2>2
  <2>5. i \in DOMAIN items /\ ~Before(j, i)
    BY <1>4, <2>2
  <2>6. i \in DOMAIN ex /\ Working(ex[i])
    BY <1>2, <2>1, <2>2, <2>3, <2>5, FirstWorks
  <2> QED
    BY <1>1, <2>4, <2>6
<1>8. RemovedIsGone'
  <2>1. ASSUME job.faults = 0 PROVE \A i \in DOMAIN items : items[i].sub \in subs
    BY <1>1, <1>2, <2>1 DEF RemovedIsGone, StoreInv
  <2> QED
    BY <1>1, <1>2, <1>4, <2>1 DEF RemovedIsGone, OneIsLeft
<1>9. CopiedIsThere'
  BY <1>2 DEF CopiedIsThere
<1> QED
  BY <1>5, <1>6, <1>7, <1>8, <1>9 DEF StoreInv

\* CleanupEx(): the results of the row that is left stay.
LEMMA CleanupKeeps == StoreInv /\ CleanupEx => StoreInv'
<1> SUFFICES ASSUME StoreInv, CleanupEx PROVE StoreInv'
  OBVIOUS
<1>1. /\ job.at = "cleanup" /\ Go /\ UNCHANGED <<items, subs, storeConfig, target, before>>
      /\ ex' = [i \in DOMAIN ex \cap DOMAIN items |-> ex[i]] /\ IsEx(ex)
  BY DEF CleanupEx, StoreInv, StoreTyped, Present
<1>2. /\ job.kind = "dedup" /\ job' \in JobRecord /\ job'.kind = "dedup"
      /\ job'.faults = job.faults /\ job'.result = "none" /\ job'.at = "commit"
  BY <1>1, GoSteps, PhasesFollow DEF Dedups
<1>3. /\ IsEx(ex') /\ DOMAIN ex' = DOMAIN ex \cap DOMAIN items
      /\ \A i \in DOMAIN ex' : ex'[i] = ex[i]
  BY <1>1 DEF IsEx
<1>4. StoreTyped'
  BY <1>1, <1>2, <1>3 DEF StoreInv, StoreTyped
<1>5. JobIsSound'
  BY <1>1, <1>2 DEF JobIsSound, Dedups
<1>6. UsableIsKept'
  <2> SUFFICES ASSUME job'.faults = 0, Configured' \subseteq subs', NEW j \in Index, Usable(j)'
               PROVE  \E i \in DOMAIN items' \cap DOMAIN ex' : Working(ex'[i])
    BY <1>2 DEF UsableIsKept, OneIsLeft, Dedups
  <2>1. Usable(j) /\ Configured \subseteq subs /\ job.faults = 0
    BY <1>1, <1>2, ConfigurationStays
  <2>2. \E i \in DOMAIN items \cap DOMAIN ex : Working(ex[i])
    BY <1>1, <1>2, <2>1 DEF UsableIsKept, StoreInv, OneIsLeft, Dedups
  <2> QED
    BY <1>1, <1>3, <2>2
<1>7. RemovedIsGone'
  BY <1>1, <1>2, <1>3 DEF RemovedIsGone, StoreInv, OneIsLeft
<1>8. CopiedIsThere'
  BY <1>2 DEF CopiedIsThere
<1> QED
  BY <1>4, <1>5, <1>6, <1>7, <1>8 DEF StoreInv

\* COMMIT: the tables stay.
LEMMA CommitKeeps == StoreInv /\ CommitDedup => StoreInv'
<1> SUFFICES ASSUME StoreInv, CommitDedup PROVE StoreInv'
  OBVIOUS
<1>1. /\ job.at = "commit" /\ job \in JobRecord /\ job.kind = "dedup"
      /\ UNCHANGED <<items, ex, subs, storeConfig, target, before>>
  BY DEF CommitDedup, StoreInv, StoreTyped, JobIsSound, Dedups
<1>2. job' \in JobRecord /\ job'.kind = "dedup" /\ job'.faults = job.faults /\ job'.at = "idle"
  BY <1>1 DEF CommitDedup, JobRecord
<1>3. StoreTyped'
  BY <1>1, <1>2 DEF StoreInv, StoreTyped
<1>4. JobIsSound'
  BY <1>2 DEF JobIsSound, Dedups
<1>5. UsableIsKept'
  <2> SUFFICES ASSUME job'.faults = 0, Configured' \subseteq subs', NEW j \in Index, Usable(j)'
               PROVE  \E i \in DOMAIN items' \cap DOMAIN ex' : Working(ex'[i])
    BY <1>2 DEF UsableIsKept, OneIsLeft, Dedups
  <2>1. Usable(j) /\ Configured \subseteq subs /\ job.faults = 0
    BY <1>1, <1>2, ConfigurationStays
  <2>2. \E i \in DOMAIN items \cap DOMAIN ex : Working(ex[i])
    BY <1>1, <2>1 DEF UsableIsKept, StoreInv, OneIsLeft, Dedups
  <2> QED
    BY <1>1, <2>2
<1>6. RemovedIsGone'
  BY <1>1, <1>2 DEF RemovedIsGone, StoreInv, OneIsLeft
<1>7. CopiedIsThere'
  BY <1>2 DEF CopiedIsThere
<1> QED
  BY <1>3, <1>4, <1>5, <1>6, <1>7 DEF StoreInv

\* A failed statement leaves the tables, or puts them back; from then on the
\* deduplication promises nothing.
LEMMA FailedStatementKeeps == StoreInv /\ StatementFails => StoreInv'
<1> SUFFICES ASSUME StoreInv, StatementFails PROVE StoreInv'
  OBVIOUS
<1>1. /\ job.at \in Dedups \ {"commit"} /\ job.faults < MaxFaults /\ job \in JobRecord
      /\ job.kind = "dedup" /\ job.result = "none" /\ ex = before.ex
      /\ UNCHANGED <<ex, subs, storeConfig, target, before>>
  <2>1. /\ job.at \in Dedups \ {"commit"} /\ job.faults < MaxFaults
        /\ UNCHANGED <<ex, subs, storeConfig, target, before>>
    BY PhasesAreDedups DEF StatementFails
  <2>2. job \in JobRecord
    BY DEF StoreInv, StoreTyped
  <2>3. job.kind = "dedup" /\ job.result = "none" /\ ex = before.ex
    BY <2>1 DEF StoreInv, JobIsSound, Dedups
  <2> QED
    BY <2>1, <2>2, <2>3
<1>2. PICK rolledBack \in BOOLEAN :
          /\ items' = IF rolledBack /\ job.tx THEN before.items ELSE items
          /\ job' = [job EXCEPT !.at = IF @ = "protect" THEN "blacklist" ELSE NextPhase,
                                !.tx = @ /\ ~rolledBack, !.faults = @ + 1]
  BY DEF StatementFails
<1> DEFINE at == IF job.at = "protect" THEN "blacklist" ELSE NextPhase
           tx == job.tx /\ ~rolledBack
<1>3. at \in Dedups /\ (job.at # "protect" => at = NextPhase)
  BY <1>1, PhasesFollow DEF Dedups
<1>4. tx \in BOOLEAN
  OBVIOUS
<1>5. job.faults + 1 \in 0 .. MaxFaults /\ job.faults + 1 # 0
  BY <1>1, StoreAssumption DEF JobRecord
<1>6. job' = [job EXCEPT !.at = at, !.tx = tx, !.faults = job.faults + 1]
  BY <1>2
<1> HIDE DEF at, tx
<1>7. /\ job' \in JobRecord /\ job'.kind = "dedup" /\ job'.faults # 0 /\ job'.result = "none"
      /\ job'.at \in Dedups
  BY <1>1, <1>3, <1>4, <1>5, <1>6 DEF JobRecord
<1>8. IsItems(items')
  BY <1>2 DEF StoreInv, StoreTyped
<1>9. StoreTyped'
  BY <1>1, <1>7, <1>8 DEF StoreInv, StoreTyped
<1>10. JobIsSound'
  BY <1>1, <1>7 DEF JobIsSound, Dedups
<1>11. UsableIsKept' /\ RemovedIsGone' /\ CopiedIsThere'
  BY <1>7 DEF UsableIsKept, RemovedIsGone, CopiedIsThere
<1> QED
  BY <1>9, <1>10, <1>11 DEF StoreInv

LEMMA NoJobIsTyped == NoJob \in JobRecord
<1>1. 0 \in 0 .. MaxFaults /\ 0 \in Nat
  BY StoreAssumption
<1> QED
  BY <1>1 DEF NoJob, JobRecord

\* Before anything is done the tables are what they were.
LEMMA BeginningKeeps == StoreInv /\ (BeginDedup \/ SyncRefused \/ BeginSync) => StoreInv'
<1> SUFFICES ASSUME StoreInv, BeginDedup \/ SyncRefused \/ BeginSync PROVE StoreInv'
  OBVIOUS
<1>1. /\ job = NoJob /\ UNCHANGED <<items, ex, subs, storeConfig, target, before>>
      /\ items = before.items /\ ex = before.ex
  <2>1. job = NoJob /\ UNCHANGED <<items, ex, subs, storeConfig, target, before>>
    BY DEF BeginDedup, SyncRefused, BeginSync
  <2> QED
    BY <2>1 DEF StoreInv, JobIsSound, NoJob
<1>2. ToCopy \subseteq Index
  BY DEF ToCopy, TestedIn, StoreInv, StoreTyped, IsItems, Present
<1>3. CASE BeginDedup
  <2>1. /\ job' \in JobRecord /\ job'.kind = "dedup" /\ job'.at = "protect"
        /\ job'.result = "none"
    <3>1. job' = [NoJob EXCEPT !.kind = "dedup", !.at = "protect", !.tx = TRUE]
          /\ NoJob.result = "none"
      BY <1>3 DEF BeginDedup, NoJob
    <3> QED
      BY <3>1, NoJobIsTyped DEF JobRecord, Dedups
  <2>2. StoreTyped'
    BY <1>1, <2>1 DEF StoreInv, StoreTyped
  <2>3. JobIsSound'
    BY <1>1, <2>1 DEF JobIsSound, Dedups
  <2>4. UsableIsKept'
    <3> SUFFICES ASSUME NEW i \in Index, Usable(i)' PROVE i \in DOMAIN items'
      BY <1>1, <2>1 DEF UsableIsKept, OneIsLeft
    <3> QED
      BY <1>1 DEF StoreInv, StoreTyped
  <2>5. RemovedIsGone' /\ CopiedIsThere'
    BY <2>1 DEF RemovedIsGone, CopiedIsThere, OneIsLeft
  <2> QED
    BY <2>2, <2>3, <2>4, <2>5 DEF StoreInv
<1>4. CASE BeginSync
  <2>1. PICK read \in SUBSET ToCopy :
            /\ read # ToCopy => job.faults < MaxFaults
            /\ job' = [NoJob EXCEPT !.kind = "copy", !.at = "copy", !.tx = TRUE, !.todo = read,
                                    !.unread = ToCopy \ read,
                                    !.faults = IF read = ToCopy THEN 0 ELSE 1]
    BY <1>4 DEF BeginSync
  <2> DEFINE unread == ToCopy \ read
             spent == IF read = ToCopy THEN 0 ELSE 1
  <2>2. /\ read \in SUBSET Index /\ unread \in SUBSET Index /\ read \cup unread = ToCopy
        /\ spent \in 0 .. MaxFaults
    BY <1>1, <1>2, <2>1, StoreAssumption DEF NoJob
  <2>3. job' = [NoJob EXCEPT !.kind = "copy", !.at = "copy", !.tx = TRUE, !.todo = read,
                            !.unread = unread, !.faults = spent]
    BY <2>1
  <2>4. ToCopy' = ToCopy
    BY <1>1 DEF ToCopy, TestedIn, Present
  <2> HIDE DEF unread, spent
  <2>5. /\ job' \in JobRecord /\ job'.kind = "copy" /\ job'.at = "copy"
        /\ job'.result = "none" /\ job'.todo = read /\ job'.unread = unread
    <3>1. NoJob.result = "none"
      BY DEF NoJob
    <3> QED
      BY <2>2, <2>3, <3>1, NoJobIsTyped DEF JobRecord, Dedups
  <2>6. StoreTyped'
    BY <1>1, <2>5 DEF StoreInv, StoreTyped
  <2>7. JobIsSound'
    BY <1>1, <2>5 DEF JobIsSound, Dedups
  <2>8. UsableIsKept' /\ RemovedIsGone'
    BY <2>5 DEF UsableIsKept, RemovedIsGone
  <2>9. CopiedIsThere'
    BY <2>2, <2>4, <2>5 DEF CopiedIsThere
  <2> QED
    BY <2>6, <2>7, <2>8, <2>9 DEF StoreInv
<1>5. CASE SyncRefused
  <2>1. /\ job' \in JobRecord /\ job'.kind = "copy" /\ job'.at = "idle" /\ job'.result = "error"
    <3>1. 1 \in 0 .. MaxFaults
      BY <1>1, <1>5, StoreAssumption DEF SyncRefused, NoJob
    <3>2. job' = [NoJob EXCEPT !.kind = "copy", !.faults = 1, !.result = "error"]
          /\ NoJob.at = "idle"
      BY <1>5 DEF SyncRefused, NoJob
    <3> QED
      BY <3>1, <3>2, NoJobIsTyped DEF JobRecord
  <2>2. StoreTyped'
    BY <1>1, <2>1 DEF StoreInv, StoreTyped
  <2>3. JobIsSound'
    BY <1>1, <2>1 DEF JobIsSound, Dedups
  <2>4. UsableIsKept' /\ RemovedIsGone' /\ CopiedIsThere'
    BY <2>1 DEF UsableIsKept, RemovedIsGone, CopiedIsThere
  <2> QED
    BY <2>2, <2>3, <2>4 DEF StoreInv
<1> QED
  BY <1>3, <1>4, <1>5

-----------------------------------------------------------------------------
(* ProfileStore: the copy.                                                  *)

\* What the copy goes through stays as it is while it copies.
LEMMA SourceStays ==
    ASSUME UNCHANGED <<items, ex, storeConfig>>
    PROVE  ToCopy' = ToCopy /\ \A i \in ToCopy : Skipped(i)' <=> Skipped(i)
BY DEF ToCopy, TestedIn, Skipped, Present, Configured

\* One proxy is done with.
LEMMA CopyingKeeps ==
    ASSUME StoreInv, NEW i \in Index, job.at = "copy", i \in job.todo,
           UNCHANGED <<items, ex, subs, storeConfig, before>>,
           job' \in JobRecord, job'.kind = job.kind, job'.at = job.at,
           job'.result = job.result, job'.todo = job.todo \ {i}, job'.unread = job.unread,
           job.untested \subseteq job'.untested, job.orphan \subseteq job'.orphan,
           job'.failed = 0 => job.failed = 0,
           job'.failed = 0 /\ ~Skipped(i) => Arrived(i)',
           IsTarget(target'),
           DOMAIN target.items \subseteq DOMAIN target'.items,
           DOMAIN target.ex \subseteq DOMAIN target'.ex, target.subs \subseteq target'.subs
    PROVE  StoreInv'
<1>1. job.kind = "copy" /\ job.result = "none"
  BY DEF StoreInv, JobIsSound
<1>2. StoreTyped'
  BY DEF StoreInv, StoreTyped
<1>3. JobIsSound'
  BY <1>1 DEF StoreInv, JobIsSound, Dedups
<1>4. UsableIsKept' /\ RemovedIsGone'
  BY <1>1 DEF UsableIsKept, RemovedIsGone
<1>5. CopiedIsThere'
  <2>1. ToCopy' = ToCopy /\ \A j \in ToCopy : Skipped(j)' <=> Skipped(j)
    BY SourceStays
  <2> SUFFICES ASSUME job'.failed = 0, NEW j \in ToCopy \ (job'.todo \cup job'.unread), ~Skipped(j)
               PROVE  Arrived(j)'
    BY <1>1, <2>1 DEF CopiedIsThere
  <2>2. CASE j = i
    BY <2>2
  <2>3. CASE j # i
    <3>1. Arrived(j)
      BY <1>1, <2>3 DEF StoreInv, CopiedIsThere
    <3> QED
      BY <3>1 DEF Arrived
  <2> QED
    BY <2>2, <2>3
<1> QED
  BY <1>2, <1>3, <1>4, <1>5 DEF StoreInv

\* A row put into a table, or not; a proxy noted, or not
LEMMA PutIsThere ==
    ASSUME NEW done \in BOOLEAN, NEW t, NEW i, NEW v
    PROVE  /\ DOMAIN t \subseteq DOMAIN PutIf(done, t, i, v)
           /\ DOMAIN PutIf(done, t, i, v) \subseteq DOMAIN t \cup {i}
           /\ done => i \in DOMAIN PutIf(done, t, i, v)
BY DEF PutIf, Put

LEMMA CopyKeeps ==
    ASSUME StoreInv, NEW i \in Index, SkipProtected(i) \/ CopyProxy(i)
    PROVE  StoreInv'
<1>1. /\ job.at = "copy" /\ i \in job.todo /\ UNCHANGED <<items, ex, subs, storeConfig, before>>
      /\ job \in JobRecord /\ IsTarget(target)
  BY DEF SkipProtected, CopyProxy, StoreInv, StoreTyped
<1>2. CASE SkipProtected(i)
  <2>1. /\ job' \in JobRecord /\ job'.kind = job.kind /\ job'.at = job.at
        /\ job'.result = job.result /\ job'.todo = job.todo \ {i} /\ job'.failed = job.failed
        /\ job'.unread = job.unread /\ job'.untested = job.untested /\ job'.orphan = job.orphan
    BY <1>1, <1>2 DEF SkipProtected, JobRecord
  <2> QED
    BY <1>1, <1>2, <2>1, CopyingKeeps DEF SkipProtected
<1>3. CASE CopyProxy(i)
  <2>1. PICK brought \in BOOLEAN, put \in BOOLEAN, results \in {"copied", "unread", "failed"} :
          LET fails == ~put \/ results = "failed"
              clean == brought /\ put /\ results = "copied"
          IN  /\ clean \/ job.faults < MaxFaults
              /\ target' = [items |-> PutIf(put, target.items, i, items[i]),
                            ex |-> PutIf(results = "copied", target.ex, i, ex[i]),
                            subs |-> IF brought THEN WithSubscription(items[i].sub)
                                     ELSE target.subs]
              /\ job' = [job EXCEPT !.todo = @ \ {i},
                                    !.faults = IF clean THEN @ ELSE @ + 1,
                                    !.failed = IF fails THEN @ + 1 ELSE @,
                                    !.untested = Noted(results # "unread", @, i),
                                    !.orphan = Noted(brought, @, i)]
    BY <1>3 DEF CopyProxy
  <2> DEFINE spent == IF brought /\ put /\ results = "copied" THEN job.faults ELSE job.faults + 1
             failed == IF ~put \/ results = "failed" THEN job.failed + 1 ELSE job.failed
             untested == Noted(results # "unread", job.untested, i)
             orphan == Noted(brought, job.orphan, i)
             done == results = "copied"
             rows == PutIf(put, target.items, i, items[i])
             tests == PutIf(done, target.ex, i, ex[i])
             known == IF brought THEN WithSubscription(items[i].sub) ELSE target.subs
  <2>2. /\ spent \in 0 .. MaxFaults /\ failed \in Nat
        /\ failed = 0 => job.failed = 0 /\ put /\ results # "failed"
    BY <1>1, <2>1, StoreAssumption DEF JobRecord
  <2>3. /\ untested \in SUBSET Index /\ job.untested \subseteq untested
        /\ orphan \in SUBSET Index /\ job.orphan \subseteq orphan
        /\ results # "unread" \/ i \in untested
        /\ brought \/ i \in orphan
    BY <1>1 DEF Noted, JobRecord
  <2>4. /\ DOMAIN target.items \subseteq DOMAIN rows /\ DOMAIN rows \subseteq DOMAIN target.items \cup {i}
        /\ DOMAIN target.ex \subseteq DOMAIN tests /\ DOMAIN tests \subseteq DOMAIN target.ex \cup {i}
        /\ put => i \in DOMAIN rows
        /\ done => i \in DOMAIN tests
    <3>1. done \in BOOLEAN
      OBVIOUS
    <3> HIDE DEF done
    <3> QED
      BY <3>1, PutIsThere
  <2>5. /\ target.subs \subseteq known
        /\ brought /\ items[i].sub \in subs => items[i].sub \in known
    BY DEF WithSubscription
  <2>6. /\ target' = [items |-> rows, ex |-> tests, subs |-> known]
        /\ job' = [job EXCEPT !.todo = job.todo \ {i}, !.faults = spent, !.failed = failed,
                              !.untested = untested, !.orphan = orphan]
    BY <2>1
  <2>7. done \/ results = "unread" \/ results = "failed"
    BY <2>1
  <2> HIDE DEF spent, failed, untested, orphan, done, rows, tests, known
  <2>8. /\ job' \in JobRecord /\ job'.kind = job.kind /\ job'.at = job.at
        /\ job'.result = job.result /\ job'.todo = job.todo \ {i} /\ job'.unread = job.unread
        /\ job'.failed = failed /\ job'.untested = untested /\ job'.orphan = orphan
    BY <1>1, <2>2, <2>3, <2>6 DEF JobRecord
  <2>9. target'.items = rows /\ target'.ex = tests /\ target'.subs = known /\ IsTarget(target')
    BY <1>1, <2>4, <2>6 DEF IsTarget
  <2>10. ASSUME job'.failed = 0 PROVE Arrived(i)'
    BY <1>1, <2>2, <2>3, <2>4, <2>5, <2>7, <2>8, <2>9, <2>10 DEF Arrived
  <2> QED
    BY <1>1, <2>2, <2>3, <2>4, <2>5, <2>8, <2>9, <2>10, CopyingKeeps
<1> QED
  BY <1>2, <1>3

\* EndSync: success is reported if nothing failed; a rollback is an error.
LEMMA EndSyncKeeps == StoreInv /\ (EndSync \/ CommitSyncFails) => StoreInv'
<1> SUFFICES ASSUME StoreInv, EndSync \/ CommitSyncFails PROVE StoreInv'
  OBVIOUS
<1>1. /\ job.at = "copy" /\ job.todo = {} /\ job.kind = "copy" /\ job \in JobRecord
      /\ UNCHANGED <<items, ex, subs, storeConfig, before>>
      /\ IsTarget(target')
  BY DEF EndSync, CommitSyncFails, StoreInv, StoreTyped, JobIsSound
<1>2. /\ job' \in JobRecord /\ job'.kind = "copy" /\ job'.at = "idle" /\ job'.todo = {}
      /\ job'.result = "ok" => job.failed = 0 /\ target' = target
      /\ job'.result # "error" => /\ job'.failed = job.failed /\ job'.unread = job.unread
                                  /\ job'.untested = job.untested /\ job'.orphan = job.orphan
                                  /\ target' = target
  <2>1. CASE EndSync
    <3> DEFINE result == IF job.failed = 0 THEN "ok" ELSE "error"
    <3>1. job' = [job EXCEPT !.at = "idle", !.tx = FALSE, !.result = result] /\ target' = target
      BY <2>1 DEF EndSync
    <3>2. result \in {"none", "ok", "error"} /\ (result = "ok" => job.failed = 0)
      OBVIOUS
    <3> HIDE DEF result
    <3> QED
      BY <1>1, <3>1, <3>2 DEF JobRecord
  <2>2. CASE CommitSyncFails
    <3>1. job' = [job EXCEPT !.at = "idle", !.tx = FALSE, !.faults = job.faults + 1,
                            !.result = "error"]
      BY <2>2 DEF CommitSyncFails
    <3>2. job.faults + 1 \in 0 .. MaxFaults
      BY <1>1, <2>2, StoreAssumption DEF CommitSyncFails, JobRecord
    <3> QED
      BY <1>1, <3>1, <3>2 DEF JobRecord
  <2> QED
    BY <2>1, <2>2
<1>3. StoreTyped'
  BY <1>1, <1>2 DEF StoreInv, StoreTyped
<1>4. JobIsSound'
  BY <1>1, <1>2 DEF StoreInv, JobIsSound, Dedups
<1>5. UsableIsKept' /\ RemovedIsGone'
  BY <1>2 DEF UsableIsKept, RemovedIsGone
<1>6. CopiedIsThere'
  <2> SUFFICES ASSUME job'.result # "error"
               PROVE  /\ job'.failed = 0 => \A i \in ToCopy' \ (job'.todo \cup job'.unread) :
                                               ~Skipped(i)' => Arrived(i)'
                      /\ job'.result = "ok" => job'.failed = 0
    BY <1>2 DEF CopiedIsThere
  <2>1. job.result = "none"
    BY <1>1 DEF StoreInv, JobIsSound
  <2> QED
    BY <1>1, <1>2, <2>1, SourceStays DEF StoreInv, CopiedIsThere, Arrived
<1> QED
  BY <1>3, <1>4, <1>5, <1>6 DEF StoreInv

-----------------------------------------------------------------------------
(* ProfileStore: the theorems.                                              *)

LEMMA StoreInitially == StoreInit => StoreInv
<1> SUFFICES ASSUME StoreInit PROVE StoreInv
  OBVIOUS
<1>1. /\ DOMAIN items = Index /\ \A i \in Index : items[i] \in ItemRow
  BY DEF StoreInit, ItemRow, SubId
<1>2. IsEx(ex)
  <2>1. PICK t \in [Index -> Tested] : ex = [i \in {j \in Index : t[j] # "none"} |-> t[i]]
    BY DEF StoreInit
  <2> QED
    BY <2>1 DEF IsEx
<1>3. subs \subseteq SubId
  BY DEF StoreInit, SubId
<1>4. storeConfig.subids \in {<<>>, <<"protected">>, <<"protected", "fallback">>}
  BY DEF StoreInit
<1>5. IsTarget(target) /\ IsTarget(before.target)
  <2>1. DOMAIN <<>> = {}
    OBVIOUS
  <2>2. /\ target = [items |-> <<>>, ex |-> <<>>, subs |-> {"other"}]
        /\ before.target = target
    BY DEF StoreInit
  <2> QED
    BY <2>1, <2>2 DEF IsTarget
<1>6. job \in JobRecord /\ job.kind = "none" /\ job.at = "idle" /\ job.result = "none"
  BY StoreAssumption DEF StoreInit, NoJob, JobRecord
<1>7. items = before.items /\ ex = before.ex
  BY DEF StoreInit
<1>8. StoreTyped
  BY <1>1, <1>2, <1>3, <1>4, <1>5, <1>6, <1>7 DEF StoreTyped, IsItems
<1>9. JobIsSound
  BY <1>6, <1>7 DEF JobIsSound, Dedups
<1>10. UsableIsKept /\ RemovedIsGone /\ CopiedIsThere
  BY <1>6 DEF UsableIsKept, RemovedIsGone, CopiedIsThere
<1> QED
  BY <1>8, <1>9, <1>10 DEF StoreInv

LEMMA StoreStutters == StoreInv /\ UNCHANGED storeVars => StoreInv'
<1> SUFFICES ASSUME StoreInv, UNCHANGED storeVars PROVE StoreInv'
  OBVIOUS
<1>1. UNCHANGED <<items, ex, subs, storeConfig, target, job, before>>
  BY DEF storeVars
<1> QED
  BY <1>1 DEF StoreInv, StoreTyped, JobIsSound, UsableIsKept, RemovedIsGone, CopiedIsThere,
              OneIsLeft, Usable, Configured, ToCopy, TestedIn, Skipped, Arrived, Present, IsTarget

LEMMA StoreInvStep == StoreInv /\ [StoreNext]_storeVars => StoreInv'
<1> SUFFICES ASSUME StoreInv, [StoreNext]_storeVars PROVE StoreInv'
  OBVIOUS
<1>1. CASE BeginDedup \/ SyncRefused \/ BeginSync
  BY <1>1, BeginningKeeps
<1>2. CASE Protect \/ Fallback \/ Blacklist
  BY <1>2, MovesKeep
<1>3. CASE RemoveInvalid \/ RemoveGarbage
  BY <1>3, RemovesKeep
<1>4. CASE Merge \/ CleanupEx \/ CommitDedup \/ StatementFails
  BY <1>4, MergeKeeps, CleanupKeeps, CommitKeeps, FailedStatementKeeps
<1>5. CASE EndSync \/ CommitSyncFails
  BY <1>5, EndSyncKeeps
<1>6. CASE \E i \in Index : SkipProtected(i) \/ CopyProxy(i)
  BY <1>6, CopyKeeps
<1>7. CASE UNCHANGED storeVars
  BY <1>7, StoreStutters
<1> QED
  BY <1>1, <1>2, <1>3, <1>4, <1>5, <1>6, <1>7 DEF StoreNext

LEMMA StoreInvAlways == StoreSpec => []StoreInv
<1>1. StoreInit => StoreInv
  BY StoreInitially
<1>2. StoreInv /\ [StoreNext]_storeVars => StoreInv'
  BY StoreInvStep
<1> QED
  BY <1>1, <1>2, PTL DEF StoreSpec

\* The type invariant of the tables and of the two programs that rewrite them
\* (src/src/update/Deduplicator.cpp, SubitemUpdaterV2.cpp syncDatabases()).
THEOREM StoreTypeCorrect == StoreSpec => []StoreTypeOK
<1>1. StoreInv => StoreTypeOK
  BY PhasesAreDedups DEF StoreInv, StoreTyped, StoreTypeOK, IsItems, IsEx, IsTarget, ItemRow, JobRecord, Present
<1> QED
  BY <1>1, StoreInvAlways, PTL

\* No working proxy is lost: a deduplication in which no statement failed, into
\* subscriptions that exist, leaves one that works if there was a usable one
\* (Deduplicator::deduplicate()).
LEMMA WorkingIsKept == StoreInv => WorkingSurvives
<1> SUFFICES ASSUME StoreInv, job.faults = 0, Configured \subseteq subs, NEW j \in Index, Usable(j)
             PROVE  \E i \in DOMAIN items \cap DOMAIN ex : Working(ex[i])
  BY DEF WorkingSurvives, Present
<1>1. j \in DOMAIN before.ex /\ Working(before.ex[j]) /\ DOMAIN before.items = Index
  BY DEF Usable, Present, StoreInv, StoreTyped
<1>2. CASE job.kind # "dedup"
  BY <1>1, <1>2 DEF StoreInv, JobIsSound
<1>3. CASE OneIsLeft
  BY <1>3 DEF StoreInv, UsableIsKept, OneIsLeft
<1>4. CASE job.kind = "dedup" /\ ~OneIsLeft
  <2>1. job.at \in Dedups \ {"commit"}
    BY <1>4 DEF OneIsLeft, StoreInv, StoreTyped, JobRecord, JobIsSound, Dedups
  <2>2. ex = before.ex
    BY <2>1 DEF StoreInv, JobIsSound
  <2>3. j \in DOMAIN items
    BY <1>4, <2>1 DEF StoreInv, UsableIsKept
  <2> QED
    BY <1>1, <2>2, <2>3
<1> QED
  BY <1>2, <1>3, <1>4

\* One row for each proxy
LEMMA AtMostOne ==
    ASSUME NEW S, \A i, j \in S : i = j
    PROVE  Cardinality(S) <= 1
<1>1. CASE S = {}
  BY <1>1, FS_EmptySet
<1>2. CASE S # {}
  <2>1. PICK i : i \in S
    BY <1>2
  <2>2. S = {i}
    BY <2>1
  <2>3. Cardinality({i}) = 1
    BY FS_Singleton
  <2> QED
    BY <2>2, <2>3
<1> QED
  BY <1>1, <1>2

LEMMA ReportsAreTrue == StoreInv => ReportedIsDone
<1> SUFFICES ASSUME StoreInv, job.result = "ok" PROVE ReportedIsDone
  BY DEF ReportedIsDone
<1>1. job.at = "idle" /\ (job.kind = "dedup" => OneIsLeft)
  BY DEF StoreInv, JobIsSound, OneIsLeft
<1>2. CASE job.kind = "dedup"
  <2>1. job.faults = 0 => /\ \A i, j \in DOMAIN items : i = j
                          /\ DOMAIN ex \subseteq DOMAIN items
                          /\ \A i \in DOMAIN items : items[i].sub \in subs
    BY <1>1, <1>2 DEF StoreInv, RemovedIsGone
  <2> QED
    BY <1>2, <2>1, AtMostOne DEF ReportedIsDone, Present
<1>3. CASE job.kind # "dedup"
  BY <1>1, <1>3 DEF StoreInv, StoreTyped, JobRecord, JobIsSound, CopiedIsThere, Arrived, ReportedIsDone, Present
<1> QED
  BY <1>2, <1>3

\* No working proxy is lost on the way, and what is reported as done is done: one row
\* for each proxy, in a subscription that exists, without results of deleted rows, and
\* every working proxy copied, but for what is logged and not counted
\* (Deduplicator::deduplicate(), syncDatabases()).
THEOREM StoreKeepsPromisesAlways == StoreSpec => []StoreKeepsPromises
<1>1. StoreInv => StoreKeepsPromises
  BY WorkingIsKept, ReportsAreTrue DEF StoreKeepsPromises
<1> QED
  BY <1>1, StoreInvAlways, PTL

-----------------------------------------------------------------------------
(* SubscriptionImport: the inductive invariant.                             *)

ValidUrl == {url \in Url : url.valid}
LineRecord == [url : Url, remark : BOOLEAN]
Word == Stem \cup {"imported", "domain", "given", "-"}
RemarkName == Seq(Word) \ {<<"">>}

RowRecord ==
    [url : ValidUrl, name : RemarkName, sort : Nat, run : Nat, after : SUBSET Nat,
     blind : BOOLEAN]

RunRecord ==
    [at : {"off", "check", "sort", "line", "insert"}, run : Nat, after : SUBSET Nat,
     file : BOOLEAN, lines : Seq(LineRecord), next : Nat, sort : Nat, blind : BOOLEAN,
     added : Nat, skipped : Nat, failed : Nat, result : {"none", "true", "false"}]

ImportTyped ==
    /\ imported \in Seq(RowRecord) /\ import \in [Importer -> RunRecord]
    /\ imports \in 0 .. MaxImports /\ importFaults \in 0 .. MaxImportFaults
    /\ removed \subseteq Url

\* The runs are numbered; the ones that one comes after have ended.
RunsAreNumbered ==
    /\ \A n \in 1 .. Len(imported) : imported[n].run \in 1 .. imports
    /\ \A i \in Importer :
          /\ import[i].run \in 0 .. imports /\ import[i].after \subseteq 1 .. imports
          /\ import[i].at # "off" => import[i].run # 0
    /\ \A i, j \in Importer :
          /\ i # j /\ import[i].run # 0 => import[i].run # import[j].run
          /\ import[i].at # "off" /\ import[j].at # "off" => import[j].run \notin import[i].after

\* A run that has the sort value of its next row, one that knows its line to be new, and
\* one that has a line
HasSort(r) == r.at \in {"line", "insert"} \/ (r.at = "check" /\ r.file)
KnowsNew(r) == r.at = "insert" \/ (r.at = "sort" /\ ~r.file)
HasLine(r) == r.at = "check" \/ KnowsNew(r)

\* A single URL is one line; until it is done nothing has failed.
Single(r) == ~r.file /\ r.at # "off" => Len(r.lines) = 1 /\ r.next = 1 /\ r.failed = 0

\* Where a run is in its lines, and what it has counted
LinesCounted(r) ==
    /\ Single(r) /\ Len(r.lines) <= MaxFileLines /\ r.next <= Len(r.lines) + 1
    /\ r.at = "line" => r.file /\ r.next > 0
    /\ HasLine(r) => r.next \in 1 .. Len(r.lines) /\ r.lines[r.next].url \in ValidUrl
    /\ r.at = "sort" /\ r.file => r.next = 1
    /\ r.at # "off" => r.result = "none"
    /\ r.file /\ r.next > 0 => r.added + r.skipped + r.failed = r.next - 1
    /\ r.file /\ r.next > 0 /\ r.result # "none" => r.next = Len(r.lines) + 1
    /\ r.result = "true" => r.failed = 0 /\ r.next = Len(r.lines) + 1

\* What a run has behind it is in the table, as long as nothing failed.
DoneIsThere(r, rows, gone) ==
    r.failed = 0 =>
       \A n \in 1 .. Len(r.lines) : n < r.next =>
          /\ r.lines[n].url.valid
          /\ isUrlExists(r.lines[n].url, rows) \/ r.lines[n].url \in gone

\* What it knows of the rows that were there before it and of its own
ComesBehind(r, rows) ==
    r.at # "off" /\ ~r.blind =>
       \A n \in 1 .. Len(rows) : rows[n].run \in r.after \cup {r.run} =>
          /\ HasSort(r) => rows[n].sort < r.sort
          /\ KnowsNew(r) => rows[n].url # r.lines[r.next].url

ImportIsSound(r, rows, gone) == LinesCounted(r) /\ DoneIsThere(r, rows, gone) /\ ComesBehind(r, rows)

RowsInOrder(rows) ==
    \A m, n \in 1 .. Len(rows) :
       m < n /\ ~rows[n].blind /\ rows[m].run \in rows[n].after \cup {rows[n].run} =>
          rows[m].url # rows[n].url /\ rows[m].sort < rows[n].sort

OwnRows(r, rows) == {n \in 1 .. Len(rows) : rows[n].run = r.run}

\* A set of <<run, line>>, one for each row that was ever inserted: it bounds the sort
\* values, and the lines ahead of a run are not in it.
RunBudget(A, r) ==
    /\ HasSort(r) => r.sort \in 10 .. 10 * Cardinality(A) + 10
    /\ r.at # "off" => \A k \in Nat : k >= r.next => <<r.run, k>> \notin A

Budget(A, rows, runs, n) ==
    /\ A \subseteq (1 .. n) \X (1 .. MaxFileLines)
    /\ \A k \in 1 .. Len(rows) : rows[k].sort \in 10 .. 10 * Cardinality(A)
    /\ \A i \in Importer : RunBudget(A, runs[i])

SortsBounded ==
    \E A \in SUBSET ((1 .. imports) \X (1 .. MaxFileLines)) : Budget(A, imported, import, imports)

ImportInv ==
    /\ ImportTyped /\ RunsAreNumbered /\ RowsInOrder(imported) /\ SortsBounded
    /\ \A i \in Importer :
          /\ ImportIsSound(import[i], imported, removed)
          /\ removed = {} => import[i].added = Cardinality(OwnRows(import[i], imported))

-----------------------------------------------------------------------------
(* SubscriptionImport: lemmas about the table and the sort values.          *)

LEMMA LeastOfNats ==
    ASSUME NEW S, S \subseteq Nat, S # {}
    PROVE  \E x \in S : \A y \in S : x <= y
<1> DEFINE R == OpToRel(<, Nat)
<1>1. \A x \in Nat, y \in Nat : <<y, x>> \in R <=> y < x
  BY DEF OpToRel
<1>2. IsWellFoundedOn(R, Nat)
  BY NatLessThanWellFounded
<1> HIDE DEF R
<1>3. PICK x \in S : \A y \in S : ~ (<<y, x>> \in R)
  BY <1>2, WFMin
<1>4. \A y \in S : x <= y
  <2> TAKE y \in S
  <2>1. ~ (y < x)
    BY <1>1, <1>3
  <2> QED
    BY <2>1
<1> QED
  BY <1>4

LEMMA MaxOfBounded ==
    ASSUME NEW S, S \subseteq Nat, S # {}, NEW b \in Nat, \A x \in S : x <= b
    PROVE  Max(S) \in S /\ \A y \in S : y <= Max(S)
<1> DEFINE T == {b - x : x \in S}
<1>1. T \subseteq Nat /\ T # {}
  <2>1. \A x \in S : b - x \in Nat
    OBVIOUS
  <2>2. PICK x \in S : TRUE
    OBVIOUS
  <2> QED
    BY <2>1, <2>2
<1>2. PICK t \in T : \A y \in T : t <= y
  BY <1>1, LeastOfNats
<1>3. PICK x \in S : t = b - x
  OBVIOUS
<1>4. \A y \in S : x >= y
  <2> TAKE y \in S
  <2>1. b - x <= b - y
    BY <1>2, <1>3
  <2>2. x \in Nat /\ y \in Nat
    OBVIOUS
  <2> QED
    BY <2>1, <2>2
<1>5. Max(S) \in S /\ \A y \in S : Max(S) >= y
  BY <1>4 DEF Max
<1>6. Max(S) \in Nat
  BY <1>5
<1> QED
  BY <1>5, <1>6

\* getNextSortValue(): behind every row.
LEMMA SortValueIsBehind ==
    ASSUME NEW rows \in Seq(RowRecord), NEW b \in Nat,
           \A n \in 1 .. Len(rows) : rows[n].sort <= b
    PROVE  /\ getNextSortValue(rows) \in 10 .. b + 10
           /\ \A n \in 1 .. Len(rows) : rows[n].sort < getNextSortValue(rows)
<1> DEFINE S == {0} \cup {rows[n].sort : n \in DOMAIN rows}
<1>1. DOMAIN rows = 1 .. Len(rows) /\ \A n \in 1 .. Len(rows) : rows[n] \in RowRecord
  OBVIOUS
<1>2. \A n \in 1 .. Len(rows) : rows[n].sort \in Nat
  BY <1>1 DEF RowRecord
<1>3. S \subseteq Nat /\ S # {} /\ \A x \in S : x <= b
  BY <1>1, <1>2
<1>4. \A n \in 1 .. Len(rows) : rows[n].sort \in S
  BY <1>1
<1>5. getNextSortValue(rows) = 10 + Max(S)
  BY DEF getNextSortValue
<1> HIDE DEF S
<1>6. Max(S) \in S /\ \A y \in S : y <= Max(S)
  BY <1>3, MaxOfBounded
<1>7. Max(S) \in Nat /\ Max(S) <= b
  BY <1>3, <1>6
<1>8. ASSUME NEW n \in 1 .. Len(rows) PROVE rows[n].sort < getNextSortValue(rows)
  BY <1>2, <1>4, <1>5, <1>6, <1>7
<1> QED
  BY <1>5, <1>7, <1>8

\* RemoveAt(): the rows behind move up.
LEMMA RemoveIs ==
    ASSUME NEW rows \in Seq(RowRecord), NEW n \in 1 .. Len(rows)
    PROVE  /\ RemoveAt(rows, n) \in Seq(RowRecord) /\ Len(RemoveAt(rows, n)) = Len(rows) - 1
           /\ \A j \in 1 .. Len(rows) - 1 :
                 RemoveAt(rows, n)[j] = IF j < n THEN rows[j] ELSE rows[j + 1]
<1> DEFINE front == SubSeq(rows, 1, n - 1)
           back == SubSeq(rows, n + 1, Len(rows))
<1>1. Len(rows) \in Nat /\ \A i \in 1 .. Len(rows) : rows[i] \in RowRecord
  OBVIOUS
<1>2. /\ front \in Seq(RowRecord) /\ Len(front) = n - 1
      /\ \A i \in 1 .. n - 1 : front[i] = rows[i]
  <2>1. 1 \in Int /\ n - 1 \in Int /\ \A i \in 1 .. n - 1 : rows[i] \in RowRecord
    BY <1>1
  <2>2. /\ front \in Seq(RowRecord) /\ Len(front) = IF 1 <= n - 1 THEN (n - 1) - 1 + 1 ELSE 0
        /\ \A i \in 1 .. (n - 1) - 1 + 1 : front[i] = rows[1 + i - 1]
    BY <2>1, SubSeqProperties
  <2> HIDE DEF front
  <2>3. Len(front) = n - 1
    BY <2>2
  <2>4. ASSUME NEW i \in 1 .. n - 1 PROVE front[i] = rows[i]
    BY <2>2
  <2> QED
    BY <2>2, <2>3, <2>4
<1>3. /\ back \in Seq(RowRecord) /\ Len(back) = Len(rows) - n
      /\ \A i \in 1 .. Len(rows) - n : back[i] = rows[n + i]
  <2>1. n + 1 \in Int /\ Len(rows) \in Int /\ \A i \in n + 1 .. Len(rows) : rows[i] \in RowRecord
    BY <1>1
  <2>2. /\ back \in Seq(RowRecord)
        /\ Len(back) = IF n + 1 <= Len(rows) THEN Len(rows) - (n + 1) + 1 ELSE 0
        /\ \A i \in 1 .. Len(rows) - (n + 1) + 1 : back[i] = rows[(n + 1) + i - 1]
    BY <2>1, SubSeqProperties
  <2> HIDE DEF back
  <2>3. Len(back) = Len(rows) - n
    BY <1>1, <2>2
  <2>4. ASSUME NEW i \in 1 .. Len(rows) - n PROVE back[i] = rows[n + i]
    <3>1. i \in 1 .. Len(rows) - (n + 1) + 1 /\ (n + 1) + i - 1 = n + i
      BY <1>1
    <3> QED
      BY <2>2, <3>1
  <2> QED
    BY <2>2, <2>3, <2>4
<1>4. RemoveAt(rows, n) = front \o back
  BY DEF RemoveAt
<1> HIDE DEF front, back
<1>5. /\ front \o back \in Seq(RowRecord) /\ Len(front \o back) = Len(front) + Len(back)
      /\ \A i \in 1 .. Len(front) + Len(back) :
            (front \o back)[i] = IF i <= Len(front) THEN front[i] ELSE back[i - Len(front)]
  BY <1>2, <1>3, ConcatProperties
<1>6. Len(front) + Len(back) = Len(rows) - 1
  BY <1>1, <1>2, <1>3
<1>7. ASSUME NEW j \in 1 .. Len(rows) - 1
      PROVE  (front \o back)[j] = IF j < n THEN rows[j] ELSE rows[j + 1]
  <2>1. CASE j < n
    <3>1. j \in 1 .. n - 1 /\ j <= Len(front)
      BY <1>2, <2>1
    <3> QED
      BY <1>2, <1>5, <1>6, <2>1, <3>1
  <2>2. CASE ~(j < n)
    <3>1. ~(j <= Len(front)) /\ j - Len(front) = j - (n - 1) /\ j - (n - 1) \in 1 .. Len(rows) - n
          /\ n + (j - (n - 1)) = j + 1
      BY <1>1, <1>2, <2>2
    <3> QED
      BY <1>3, <1>5, <1>6, <2>2, <3>1
  <2> QED
    BY <2>1, <2>2
<1> QED
  BY <1>4, <1>5, <1>6, <1>7

LEMMA PlainNames ==
    <<"imported">> \in RemarkName /\ <<"domain">> \in RemarkName /\ <<"given">> \in RemarkName
<1>1. \A w \in {"imported", "domain", "given"} : <<w>> \in Seq(Word)
  BY DEF Word
<1>2. <<"imported">> # <<"">> /\ <<"domain">> # <<"">> /\ <<"given">> # <<"">>
  OBVIOUS
<1> QED
  BY <1>1, <1>2 DEF RemarkName

\* extractRemarksFromUrl(): there is a name.
LEMMA NameIsThere ==
    ASSUME NEW url \in ValidUrl
    PROVE  extractRemarksFromUrl(url) \in RemarkName
<1>1. url.path \in SeqOf(Stem, 2)
  <2>1. url \in Url /\ url.valid /\ ~NoUrl.valid
    BY DEF ValidUrl, NoUrl
  <2>2. url \in [valid : {TRUE}, path : SeqOf(Stem, 2)]
    BY <2>1 DEF Url
  <2> QED
    BY <2>2
<1>2. PICK m \in 0 .. 2 : url.path \in [1 .. m -> Stem]
  BY <1>1 DEF SeqOf
<1>3. CASE url.path = <<>>
  BY <1>3, PlainNames DEF extractRemarksFromUrl
<1>4. CASE url.path # <<>>
  <2> DEFINE first == url.path[1]
             last == Last(url.path)
  <2>1. Len(url.path) = m /\ url.path \in Seq(Stem)
    BY <1>2
  <2>2. m # 0
    BY <1>4, <2>1
  <2>3. m = 1 \/ m = 2
    BY <2>2
  <2>4. first \in Stem /\ last \in Stem
    BY <1>2, <2>1, <2>3 DEF Last
  <2>5. extractRemarksFromUrl(url) = IF last \notin {"", first} THEN <<first, "-", last>>
                                     ELSE IF first = "" THEN <<"domain">> ELSE <<first>>
    BY <1>4 DEF extractRemarksFromUrl
  <2> HIDE DEF first, last
  <2>6. CASE last \notin {"", first}
    <3>1. <<first, "-", last>> \in Seq(Word)
      BY <2>4 DEF Word
    <3>2. <<first, "-", last>> # <<"">>
      OBVIOUS
    <3> QED
      BY <2>5, <2>6, <3>1, <3>2 DEF RemarkName
  <2>7. CASE last \in {"", first} /\ first = ""
    BY <2>5, <2>7, PlainNames
  <2>8. CASE last \in {"", first} /\ first # ""
    <3>1. <<first>> \in Seq(Word)
      BY <2>4 DEF Word
    <3>2. <<first>> # <<"">>
      BY <2>8
    <3> QED
      BY <2>5, <2>8, <3>1, <3>2 DEF RemarkName
  <2> QED
    BY <2>6, <2>7, <2>8
<1> QED
  BY <1>3, <1>4

\* A budget is a finite set.
LEMMA BudgetIsFinite ==
    ASSUME NEW n \in 0 .. MaxImports, NEW A, A \subseteq (1 .. n) \X (1 .. MaxFileLines)
    PROVE  /\ IsFiniteSet(A) /\ Cardinality(A) \in Nat
           /\ Cardinality(A) <= MaxImports * MaxFileLines
<1>1. MaxImports \in Nat /\ MaxFileLines \in Nat
  BY ImportAssumption
<1> DEFINE whole == (1 .. MaxImports) \X (1 .. MaxFileLines)
<1>2. IsFiniteSet(1 .. MaxImports) /\ Cardinality(1 .. MaxImports) = MaxImports
  BY <1>1, FS_Interval
<1>3. IsFiniteSet(1 .. MaxFileLines) /\ Cardinality(1 .. MaxFileLines) = MaxFileLines
  BY <1>1, FS_Interval
<1>4. IsFiniteSet(whole) /\ Cardinality(whole) = MaxImports * MaxFileLines
  <2>1. /\ IsFiniteSet(whole)
        /\ Cardinality(whole) = Cardinality(1 .. MaxImports) * Cardinality(1 .. MaxFileLines)
    BY <1>2, <1>3, FS_Product, Zenon
  <2> QED
    BY <1>2, <1>3, <2>1, Zenon
<1>5. A \subseteq whole
  BY <1>1
<1> HIDE DEF whole
<1> QED
  BY <1>4, <1>5, FS_Subset, FS_CardinalityType

\* What an importer has
LEMMA RunFacts ==
    ASSUME ImportInv, NEW i \in Importer
    PROVE  /\ import[i] \in RunRecord /\ ImportIsSound(import[i], imported, removed)
           /\ imported \in Seq(RowRecord) /\ imports \in 0 .. MaxImports
           /\ DOMAIN imported = 1 .. Len(imported) /\ Len(imported) \in Nat
           /\ \A n \in 1 .. Len(imported) : imported[n] \in RowRecord
           /\ import[i].lines \in Seq(LineRecord) /\ Len(import[i].lines) \in Nat
           /\ import[i].next \in Nat /\ import[i].sort \in Nat
BY DEF ImportInv, ImportTyped, RunRecord

-----------------------------------------------------------------------------
(* SubscriptionImport: the steps that leave the table.                      *)

\* Rows that a run counts as its own
LEMMA OwnRowsAre ==
    ASSUME NEW r, NEW q, q.run = r.run, NEW rows
    PROVE  OwnRows(q, rows) = OwnRows(r, rows)
BY DEF OwnRows

\* A run that keeps its sort value stays in the budget.
LEMMA BudgetStays ==
    ASSUME NEW A, NEW r \in RunRecord, NEW q \in RunRecord, RunBudget(A, r), r.at # "off",
           q.next >= r.next, q.run = r.run, HasSort(q) => HasSort(r) /\ q.sort = r.sort
    PROVE  RunBudget(A, q)
<1>1. \A k \in Nat : k >= q.next => <<q.run, k>> \notin A
  <2> SUFFICES ASSUME NEW k \in Nat, k >= q.next PROVE <<q.run, k>> \notin A
    OBVIOUS
  <2>1. k >= r.next
    BY DEF RunRecord
  <2> QED
    BY <2>1 DEF RunBudget
<1>2. HasSort(q) => q.sort \in 10 .. 10 * Cardinality(A) + 10
  BY DEF RunBudget
<1> QED
  BY <1>1, <1>2 DEF RunBudget

\* One importer goes on with the same run, and the table stays.
LEMMA RunStepKeeps ==
    ASSUME ImportInv, NEW i \in Importer, NEW q \in RunRecord, Become(i, q),
           import[i].at # "off", UNCHANGED <<imported, imports, removed>>,
           importFaults' \in 0 .. MaxImportFaults,
           q.run = import[i].run, q.after = import[i].after, q.added = import[i].added,
           ImportIsSound(q, imported, removed),
           \A A : Budget(A, imported, import, imports) => RunBudget(A, q)
    PROVE  ImportInv'
<1>1. /\ import' \in [Importer -> RunRecord] /\ import'[i] = q
      /\ \A j \in Importer \ {i} : import'[j] = import[j]
  BY DEF Become, ImportInv, ImportTyped
<1>2. ImportTyped'
  BY <1>1 DEF ImportInv, ImportTyped
<1>3. RunsAreNumbered'
  <2>1. \A j \in Importer : /\ import'[j].run = import[j].run /\ import'[j].after = import[j].after
                            /\ import'[j].at # "off" => import[j].at # "off"
    BY <1>1
  <2> QED
    BY <2>1 DEF ImportInv, RunsAreNumbered
<1>4. RowsInOrder(imported')
  BY DEF ImportInv
<1>5. SortsBounded'
  <2>1. PICK A \in SUBSET ((1 .. imports) \X (1 .. MaxFileLines)) :
               Budget(A, imported, import, imports)
    BY DEF ImportInv, SortsBounded
  <2>2. RunBudget(A, q)
    BY <2>1
  <2>3. \A j \in Importer : RunBudget(A, import'[j])
    BY <1>1, <2>1, <2>2 DEF Budget
  <2>4. Budget(A, imported', import', imports')
    BY <2>1, <2>3 DEF Budget
  <2> QED
    BY <2>4 DEF SortsBounded
<1>6. ASSUME NEW j \in Importer
      PROVE  /\ ImportIsSound(import'[j], imported', removed')
             /\ removed' = {} => import'[j].added = Cardinality(OwnRows(import'[j], imported'))
  <2>1. CASE j = i
    BY <1>1, <2>1, OwnRowsAre DEF ImportInv
  <2>2. CASE j # i
    BY <1>1, <2>2 DEF ImportInv
  <2> QED
    BY <2>1, <2>2
<1> QED
  BY <1>2, <1>3, <1>4, <1>5, <1>6 DEF ImportInv

\* A read that was not blind has seen the table.
LEMMA ReadsSee ==
    ASSUME ImportInv, NEW i \in Importer, NEW seen \in {imported, <<>>}, NEW blind \in BOOLEAN,
           Reads(i, seen, blind)
    PROVE  /\ seen \in Seq(RowRecord) /\ importFaults' \in 0 .. MaxImportFaults
           /\ ~blind => seen = imported /\ ~import[i].blind
<1>1. importFaults \in 0 .. MaxImportFaults /\ MaxImportFaults \in Nat /\ import[i].blind \in BOOLEAN
  BY ImportAssumption DEF ImportInv, ImportTyped, RunRecord
<1>2. imported \in Seq(RowRecord) /\ <<>> \in Seq(RowRecord)
  BY DEF ImportInv, ImportTyped
<1>3. CASE seen = imported /\ blind = import[i].blind /\ UNCHANGED importFaults
  BY <1>1, <1>2, <1>3
<1>4. CASE /\ seen = <<>> /\ blind /\ importFaults < MaxImportFaults
           /\ importFaults' = importFaults + 1
  BY <1>1, <1>2, <1>4
<1> QED
  BY <1>3, <1>4 DEF Reads

LEMMA TakeSortKeeps ==
    ASSUME ImportInv, NEW i \in Importer, TakeSort(i)
    PROVE  ImportInv'
<1> DEFINE r == import[i]
<1>1. PICK seen \in {imported, <<>>} : \E blind \in BOOLEAN :
          /\ Reads(i, seen, blind)
          /\ Become(i, [r EXCEPT !.sort = getNextSortValue(seen), !.blind = blind,
                                 !.at = IF @ = "sort" /\ r.file THEN "line" ELSE "insert"])
  BY DEF TakeSort
<1>2. PICK blind \in BOOLEAN :
          /\ Reads(i, seen, blind)
          /\ Become(i, [r EXCEPT !.sort = getNextSortValue(seen), !.blind = blind,
                                 !.at = IF @ = "sort" /\ r.file THEN "line" ELSE "insert"])
  BY <1>1
<1>3. r.at = "sort" /\ UNCHANGED <<imported, imports, removed>>
  BY DEF TakeSort
<1>4. r \in RunRecord /\ ImportIsSound(r, imported, removed) /\ r.lines \in Seq(LineRecord)
  BY RunFacts DEF RunRecord
<1>5. /\ seen \in Seq(RowRecord) /\ importFaults' \in 0 .. MaxImportFaults
      /\ ~blind => seen = imported /\ ~r.blind
  BY <1>2, ReadsSee
<1> DEFINE at == IF r.file THEN "line" ELSE "insert"
           v == getNextSortValue(seen)
           q == [r EXCEPT !.sort = v, !.blind = blind, !.at = at]
<1>6. Become(i, q)
  BY <1>2, <1>3
<1>7. ASSUME NEW A, Budget(A, imported, import, imports)
      PROVE  /\ v \in 10 .. 10 * Cardinality(A) + 10
             /\ \A n \in 1 .. Len(seen) : seen[n].sort < v
  <2>1. Cardinality(A) \in Nat
    BY <1>7, BudgetIsFinite, RunFacts DEF Budget
  <2>2. 10 * Cardinality(A) \in Nat
    BY <2>1
  <2>3. \A n \in 1 .. Len(seen) : seen[n].sort <= 10 * Cardinality(A)
    <3>1. CASE seen = imported
      <4>1. \A n \in 1 .. Len(imported) : imported[n].sort \in 10 .. 10 * Cardinality(A)
        BY <1>7 DEF Budget
      <4> QED
        BY <2>2, <3>1, <4>1
    <3>2. CASE seen = <<>>
      BY <3>2
    <3> QED
      BY <3>1, <3>2
  <2> HIDE DEF v
  <2>4. /\ getNextSortValue(seen) \in 10 .. 10 * Cardinality(A) + 10
        /\ \A n \in 1 .. Len(seen) : seen[n].sort < getNextSortValue(seen)
    BY <1>5, <2>2, <2>3, SortValueIsBehind
  <2> QED
    BY <2>4 DEF v
<1>8. v \in Nat /\ \A n \in 1 .. Len(seen) : seen[n].sort < v
  <2>1. PICK A \in SUBSET ((1 .. imports) \X (1 .. MaxFileLines)) :
               Budget(A, imported, import, imports)
    BY DEF ImportInv, SortsBounded
  <2>2. v \in 10 .. 10 * Cardinality(A) + 10 /\ \A n \in 1 .. Len(seen) : seen[n].sort < v
    BY <1>7, <2>1
  <2> HIDE DEF v
  <2> QED
    BY <2>2
<1>9. at \in {"line", "insert"} /\ (at = "line" <=> r.file)
  OBVIOUS
<1> HIDE DEF v, at
<1>10. /\ q \in RunRecord /\ q.at = at /\ q.sort = v /\ q.blind = blind /\ q.run = r.run
       /\ q.after = r.after /\ q.file = r.file /\ q.lines = r.lines /\ q.next = r.next
       /\ q.added = r.added /\ q.skipped = r.skipped /\ q.failed = r.failed /\ q.result = r.result
  BY <1>4, <1>8, <1>9 DEF RunRecord
<1> HIDE DEF q
<1>11. LinesCounted(q)
  BY <1>3, <1>4, <1>9, <1>10 DEF ImportIsSound, LinesCounted, Single, HasLine, KnowsNew, RunRecord
<1>12. DoneIsThere(q, imported, removed)
  BY <1>4, <1>10 DEF ImportIsSound, DoneIsThere
<1>13. ComesBehind(q, imported)
  <2> SUFFICES ASSUME ~blind, NEW n \in 1 .. Len(imported),
                      imported[n].run \in r.after \cup {r.run}
               PROVE  /\ imported[n].sort < v
                      /\ KnowsNew(q) => imported[n].url # r.lines[r.next].url
    BY <1>10 DEF ComesBehind
  <2>1. imported[n].sort < v
    BY <1>5, <1>8
  <2>2. KnowsNew(q) => KnowsNew(r)
    BY <1>3, <1>9, <1>10 DEF KnowsNew
  <2>3. KnowsNew(r) => imported[n].url # r.lines[r.next].url
    BY <1>3, <1>4, <1>5 DEF ImportIsSound, ComesBehind
  <2> QED
    BY <2>1, <2>2, <2>3
<1>14. ImportIsSound(q, imported, removed)
  BY <1>11, <1>12, <1>13 DEF ImportIsSound
<1>15. ASSUME NEW A, Budget(A, imported, import, imports) PROVE RunBudget(A, q)
  <2>1. v \in 10 .. 10 * Cardinality(A) + 10
    BY <1>7, <1>15
  <2>2. RunBudget(A, r)
    BY <1>15 DEF Budget
  <2> QED
    BY <1>3, <1>10, <2>1, <2>2 DEF RunBudget
<1> QED
  BY <1>3, <1>5, <1>6, <1>10, <1>14, <1>15, RunStepKeeps

\* Each line of a file is counted once.
LEMMA OneMoreIsCounted ==
    ASSUME NEW r \in RunRecord, LinesCounted(r), r.file, r.next > 0
    PROVE  /\ r.added + (r.skipped + 1) + r.failed = (r.next + 1) - 1
           /\ r.added + r.skipped + (r.failed + 1) = (r.next + 1) - 1
           /\ (r.added + 1) + r.skipped + r.failed = (r.next + 1) - 1
<1>1. /\ r.added \in Nat /\ r.skipped \in Nat /\ r.failed \in Nat /\ r.next \in Nat
      /\ r.added + r.skipped + r.failed = r.next - 1
  BY DEF RunRecord, LinesCounted
<1> QED
  BY <1>1

LEMMA ReadLineKeeps ==
    ASSUME ImportInv, NEW i \in Importer, ReadLine(i)
    PROVE  ImportInv'
<1> DEFINE r == import[i]
<1>1. /\ r.at = "line" /\ r.next <= Len(r.lines)
      /\ UNCHANGED <<imported, imports, importFaults, removed>>
      /\ IF r.lines[r.next].url.valid THEN Become(i, [r EXCEPT !.at = "check"])
         ELSE Become(i, [r EXCEPT !.failed = @ + 1, !.next = @ + 1])
  BY DEF ReadLine, Line
<1>2. /\ r \in RunRecord /\ ImportIsSound(r, imported, removed) /\ r.lines \in Seq(LineRecord)
      /\ r.next \in Nat /\ r.failed \in Nat /\ r.next > 0 /\ r.file
      /\ Len(r.lines) \in Nat
  BY <1>1, RunFacts DEF RunRecord, ImportIsSound, LinesCounted
<1>3. importFaults' \in 0 .. MaxImportFaults
  BY <1>1 DEF ImportInv, ImportTyped
<1>4. CASE r.lines[r.next].url.valid
  <2> DEFINE q == [r EXCEPT !.at = "check"]
  <2>1. /\ q \in RunRecord /\ q.at = "check" /\ q.sort = r.sort /\ q.blind = r.blind
        /\ q.run = r.run /\ q.after = r.after /\ q.file = r.file /\ q.lines = r.lines
        /\ q.next = r.next /\ q.added = r.added /\ q.skipped = r.skipped
        /\ q.failed = r.failed /\ q.result = r.result
    BY <1>2 DEF RunRecord
  <2>2. Become(i, q)
    BY <1>1, <1>4
  <2> HIDE DEF q
  <2>3. r.next \in 1 .. Len(r.lines) /\ r.lines[r.next].url \in ValidUrl
    <3>1. r.next \in 1 .. Len(r.lines)
      BY <1>1, <1>2
    <3>2. r.lines[r.next] \in LineRecord
      BY <1>2, <3>1
    <3> QED
      BY <1>4, <3>1, <3>2 DEF LineRecord, ValidUrl
  <2>4. LinesCounted(q)
    BY <1>1, <1>2, <2>1, <2>3 DEF ImportIsSound, LinesCounted, Single, HasLine, KnowsNew
  <2>5. DoneIsThere(q, imported, removed)
    BY <1>2, <2>1 DEF ImportIsSound, DoneIsThere
  <2>6. ComesBehind(q, imported)
    BY <1>1, <1>2, <2>1 DEF ImportIsSound, ComesBehind, HasSort, KnowsNew
  <2>7. ASSUME NEW A, Budget(A, imported, import, imports) PROVE RunBudget(A, q)
    <3>1. RunBudget(A, r)
      BY <2>7 DEF Budget
    <3>2. HasSort(r)
      BY <1>1 DEF HasSort
    <3> QED
      BY <1>1, <1>2, <2>1, <3>1, <3>2, BudgetStays
  <2> QED
    BY <1>1, <1>3, <2>1, <2>2, <2>4, <2>5, <2>6, <2>7, RunStepKeeps DEF ImportIsSound
<1>5. CASE ~r.lines[r.next].url.valid
  <2> DEFINE failed == r.failed + 1
             next == r.next + 1
             q == [r EXCEPT !.failed = failed, !.next = next]
  <2>0. failed \in Nat /\ next \in Nat
    BY <1>2
  <2> HIDE DEF failed, next
  <2>1. /\ q \in RunRecord /\ q.at = r.at /\ q.sort = r.sort /\ q.blind = r.blind
        /\ q.run = r.run /\ q.after = r.after /\ q.file = r.file /\ q.lines = r.lines
        /\ q.next = next /\ q.added = r.added /\ q.skipped = r.skipped
        /\ q.failed = failed /\ q.result = r.result
    BY <1>2, <2>0 DEF RunRecord
  <2>2. Become(i, q)
    BY <1>1, <1>5 DEF failed, next
  <2> HIDE DEF q
  <2> USE DEF failed, next
  <2>3. r.added \in Nat /\ r.skipped \in Nat
    BY <1>2 DEF RunRecord
  <2>4. LinesCounted(q)
    <3>1. /\ r.added + r.skipped + r.failed = r.next - 1 /\ r.result = "none"
          /\ Len(r.lines) <= MaxFileLines
      BY <1>1, <1>2 DEF ImportIsSound, LinesCounted
    <3>2. q.added + q.skipped + q.failed = q.next - 1
      <4>1. r.added + r.skipped + (r.failed + 1) = (r.next + 1) - 1
        BY <1>2, OneMoreIsCounted DEF ImportIsSound
      <4> QED
        BY <2>1, <4>1
    <3>3. q.next <= Len(q.lines) + 1 /\ q.next > 0
      BY <1>1, <1>2, <2>1
    <3>4. ~HasLine(q)
      BY <1>1, <2>1 DEF HasLine, KnowsNew
    <3> QED
      BY <1>1, <1>2, <2>1, <3>1, <3>2, <3>3, <3>4 DEF LinesCounted, Single
  <2>5. DoneIsThere(q, imported, removed)
    <3>1. q.failed # 0
      BY <1>2, <2>1
    <3> QED
      BY <3>1 DEF DoneIsThere
  <2>6. ComesBehind(q, imported)
    BY <1>1, <1>2, <2>1 DEF ImportIsSound, ComesBehind, HasSort, KnowsNew
  <2>7. ASSUME NEW A, Budget(A, imported, import, imports) PROVE RunBudget(A, q)
    <3>1. RunBudget(A, r)
      BY <2>7 DEF Budget
    <3>2. HasSort(r) /\ q.next >= r.next
      BY <1>1, <1>2, <2>1 DEF HasSort
    <3> QED
      BY <1>1, <1>2, <2>1, <3>1, <3>2, BudgetStays
  <2> QED
    BY <1>1, <1>3, <2>1, <2>2, <2>4, <2>5, <2>6, <2>7, RunStepKeeps DEF ImportIsSound
<1> QED
  BY <1>4, <1>5

LEMMA CheckUrlKeeps ==
    ASSUME ImportInv, NEW i \in Importer, CheckUrl(i)
    PROVE  ImportInv'
<1> DEFINE r == import[i]
           url == r.lines[r.next].url
<1>1. r.at = "check" /\ UNCHANGED <<imported, imports, removed>>
  BY DEF CheckUrl
<1>2. /\ r \in RunRecord /\ ImportIsSound(r, imported, removed) /\ r.lines \in Seq(LineRecord)
      /\ r.next \in 1 .. Len(r.lines) /\ Len(r.lines) \in Nat /\ url \in ValidUrl
      /\ r.result = "none"
  BY <1>1, RunFacts DEF RunRecord, ImportIsSound, LinesCounted, Single, HasLine
<1>3. PICK seen \in {imported, <<>>} : \E blind \in BOOLEAN :
          /\ Reads(i, seen, blind)
          /\ Become(i,
               IF isUrlExists(url, seen)
               THEN [r EXCEPT !.blind = blind, !.skipped = @ + 1, !.next = @ + 1,
                              !.at = IF r.file THEN "line" ELSE "off",
                              !.result = IF r.file THEN @ ELSE "true"]
               ELSE [r EXCEPT !.blind = blind, !.at = IF r.file THEN "insert" ELSE "sort"])
  BY DEF CheckUrl, Line
<1>4. PICK blind \in BOOLEAN :
          /\ Reads(i, seen, blind)
          /\ Become(i,
               IF isUrlExists(url, seen)
               THEN [r EXCEPT !.blind = blind, !.skipped = @ + 1, !.next = @ + 1,
                              !.at = IF r.file THEN "line" ELSE "off",
                              !.result = IF r.file THEN @ ELSE "true"]
               ELSE [r EXCEPT !.blind = blind, !.at = IF r.file THEN "insert" ELSE "sort"])
  BY <1>3
<1>5. /\ importFaults' \in 0 .. MaxImportFaults
      /\ ~blind => seen = imported /\ ~r.blind
  BY <1>4, ReadsSee
<1>6. ASSUME NEW A, Budget(A, imported, import, imports) PROVE RunBudget(A, r)
  BY <1>6 DEF Budget
<1>7. CASE isUrlExists(url, seen)
  <2> DEFINE at == IF r.file THEN "line" ELSE "off"
             result == IF r.file THEN r.result ELSE "true"
             skipped == r.skipped + 1
             next == r.next + 1
             q == [r EXCEPT !.blind = blind, !.skipped = skipped, !.next = next, !.at = at,
                            !.result = result]
  <2>1. /\ r.skipped \in Nat /\ r.added \in Nat /\ r.failed \in Nat /\ r.next \in Nat
        /\ r.file \in BOOLEAN /\ r.result \in {"none", "true", "false"}
    BY <1>2 DEF RunRecord
  <2>2. /\ skipped \in Nat /\ next \in Nat /\ skipped = r.skipped + 1 /\ next = r.next + 1
        /\ at \in {"line", "off"} /\ result \in {"none", "true", "false"}
        /\ (at = "line" <=> r.file) /\ (r.file => result = "none") /\ (~r.file => result = "true")
    BY <1>2, <2>1
  <2>3. Become(i, q)
    BY <1>4, <1>7
  <2> HIDE DEF at, result, skipped, next
  <2>4. /\ q \in RunRecord /\ q.at = at /\ q.sort = r.sort /\ q.blind = blind
        /\ q.run = r.run /\ q.after = r.after /\ q.file = r.file /\ q.lines = r.lines
        /\ q.next = next /\ q.added = r.added /\ q.skipped = skipped
        /\ q.failed = r.failed /\ q.result = result
    BY <1>2, <2>2 DEF RunRecord
  <2> HIDE DEF q
  <2>5. seen = imported
    <3>1. ~isUrlExists(url, <<>>)
      BY DEF isUrlExists
    <3> QED
      BY <1>7, <3>1
  <2>6. LinesCounted(q)
    <3>1. r.file => r.added + skipped + r.failed = next - 1
      <4> SUFFICES ASSUME r.file PROVE r.added + skipped + r.failed = next - 1
        OBVIOUS
      <4>1. r.next > 0 /\ LinesCounted(r)
        BY <1>2 DEF ImportIsSound
      <4>2. r.added + (r.skipped + 1) + r.failed = (r.next + 1) - 1
        BY <1>2, <4>1, OneMoreIsCounted
      <4> QED
        BY <2>2, <4>2
    <3>2. next <= Len(r.lines) + 1 /\ next > 0 /\ Len(r.lines) <= MaxFileLines
      BY <1>2, <2>1, <2>2 DEF ImportIsSound, LinesCounted
    <3>3. ~r.file => next = Len(r.lines) + 1 /\ r.failed = 0
      BY <1>1, <1>2, <2>2 DEF ImportIsSound, LinesCounted, Single
    <3>4. ~HasLine(q)
      BY <2>2, <2>4 DEF HasLine, KnowsNew
    <3> QED
      BY <2>2, <2>4, <3>1, <3>2, <3>3, <3>4 DEF LinesCounted, Single
  <2>7. DoneIsThere(q, imported, removed)
    <3> SUFFICES ASSUME r.failed = 0, NEW n \in 1 .. Len(r.lines), n < next
                 PROVE  /\ r.lines[n].url.valid
                        /\ isUrlExists(r.lines[n].url, imported) \/ r.lines[n].url \in removed
      BY <2>4 DEF DoneIsThere
    <3>1. CASE n = r.next
      BY <1>2, <1>7, <2>5, <3>1 DEF ValidUrl
    <3>2. CASE n # r.next
      <4>1. n < r.next
        BY <2>1, <2>2, <3>2
      <4> QED
        BY <1>2, <4>1 DEF ImportIsSound, DoneIsThere
    <3> QED
      BY <3>1, <3>2
  <2>8. ComesBehind(q, imported)
    <3>1. ~KnowsNew(q) /\ (HasSort(q) => HasSort(r)) /\ (q.at # "off" => r.file)
      BY <1>1, <2>2, <2>4 DEF HasSort, KnowsNew
    <3> QED
      BY <1>1, <1>2, <1>5, <2>4, <3>1 DEF ImportIsSound, ComesBehind
  <2>9. \A A : Budget(A, imported, import, imports) => RunBudget(A, q)
    <3>1. q.next >= r.next /\ (HasSort(q) => HasSort(r) /\ q.sort = r.sort)
      BY <1>1, <2>1, <2>2, <2>4 DEF HasSort
    <3> QED
      BY <1>1, <1>2, <1>6, <2>4, <3>1, BudgetStays
  <2> QED
    BY <1>1, <1>5, <2>3, <2>4, <2>6, <2>7, <2>8, <2>9, RunStepKeeps DEF ImportIsSound
<1>8. CASE ~isUrlExists(url, seen)
  <2> DEFINE at == IF r.file THEN "insert" ELSE "sort"
             q == [r EXCEPT !.blind = blind, !.at = at]
  <2>1. at \in {"insert", "sort"} /\ (at = "insert" <=> r.file)
    OBVIOUS
  <2>2. Become(i, q)
    BY <1>4, <1>8
  <2> HIDE DEF at
  <2>3. /\ q \in RunRecord /\ q.at = at /\ q.sort = r.sort /\ q.blind = blind
        /\ q.run = r.run /\ q.after = r.after /\ q.file = r.file /\ q.lines = r.lines
        /\ q.next = r.next /\ q.added = r.added /\ q.skipped = r.skipped
        /\ q.failed = r.failed /\ q.result = r.result
    BY <1>2, <2>1 DEF RunRecord
  <2> HIDE DEF q
  <2>4. LinesCounted(q)
    BY <1>1, <1>2, <2>1, <2>3 DEF ImportIsSound, LinesCounted, Single, HasLine, KnowsNew
  <2>5. DoneIsThere(q, imported, removed)
    BY <1>2, <2>3 DEF ImportIsSound, DoneIsThere
  <2>6. HasSort(q) => HasSort(r)
    BY <1>1, <2>1, <2>3 DEF HasSort
  <2>7. ComesBehind(q, imported)
    <3> SUFFICES ASSUME ~blind, NEW n \in 1 .. Len(imported),
                        imported[n].run \in r.after \cup {r.run}
                 PROVE  /\ HasSort(q) => imported[n].sort < r.sort
                        /\ imported[n].url # url
      BY <2>3 DEF ComesBehind
    <3>1. imported[n].url # url
      BY <1>5, <1>8, RunFacts DEF isUrlExists
    <3> QED
      BY <1>1, <1>2, <1>5, <2>6, <3>1 DEF ImportIsSound, ComesBehind
  <2>8. \A A : Budget(A, imported, import, imports) => RunBudget(A, q)
    <3>1. q.next >= r.next
      BY <1>2, <2>3
    <3> QED
      BY <1>1, <1>2, <1>6, <2>3, <2>6, <3>1, BudgetStays
  <2> QED
    BY <1>1, <1>5, <2>2, <2>3, <2>4, <2>5, <2>7, <2>8, RunStepKeeps DEF ImportIsSound
<1> QED
  BY <1>7, <1>8

\* After the insert
IsInserted(q, r, result) ==
    q = IF r.file THEN [r EXCEPT !.at = "line", !.next = @ + 1]
        ELSE [r EXCEPT !.at = "off", !.next = @ + 1, !.result = result]

LEMMA InsertedIs ==
    ASSUME NEW r \in RunRecord, r.result = "none", NEW result \in {"true", "false"},
           NEW q, IsInserted(q, r, result)
    PROVE  /\ q \in RunRecord /\ q.next = r.next + 1
           /\ q.at = (IF r.file THEN "line" ELSE "off")
           /\ q.result = (IF r.file THEN "none" ELSE result)
           /\ q.sort = r.sort /\ q.blind = r.blind /\ q.run = r.run /\ q.after = r.after
           /\ q.file = r.file /\ q.lines = r.lines /\ q.added = r.added
           /\ q.skipped = r.skipped /\ q.failed = r.failed
<1> DEFINE next == r.next + 1
<1>1. next \in Nat
  BY DEF RunRecord
<1>2. q = IF r.file THEN [r EXCEPT !.at = "line", !.next = next]
          ELSE [r EXCEPT !.at = "off", !.next = next, !.result = result]
  BY DEF IsInserted
<1>3. next = r.next + 1
  OBVIOUS
<1> HIDE DEF next
<1>4. CASE r.file
  <2>1. q = [r EXCEPT !.at = "line", !.next = next]
    BY <1>2, <1>4
  <2> QED
    BY <1>1, <1>3, <1>4, <2>1 DEF RunRecord
<1>5. CASE ~r.file
  <2>1. q = [r EXCEPT !.at = "off", !.next = next, !.result = result]
    BY <1>2, <1>5
  <2> QED
    BY <1>1, <1>3, <1>5, <2>1 DEF RunRecord
<1> QED
  BY <1>4, <1>5

\* Where it is in its lines then, if one more was counted.
LEMMA InsertedCounted ==
    ASSUME NEW r \in RunRecord, NEW q \in RunRecord, LinesCounted(r), r.at = "insert",
           q.next = r.next + 1, q.at = (IF r.file THEN "line" ELSE "off"),
           q.file = r.file, q.lines = r.lines,
           r.file => q.added + q.skipped + q.failed = q.next - 1,
           r.file => q.result = "none",
           ~r.file => (q.result = "true" => q.failed = 0)
    PROVE  LinesCounted(q)
<1>1. /\ r.next \in 1 .. Len(r.lines) /\ Len(r.lines) \in Nat /\ Len(r.lines) <= MaxFileLines
      /\ ~r.file => Len(r.lines) = 1 /\ r.next = 1
  BY DEF RunRecord, LinesCounted, HasLine, KnowsNew, Single
<1>2. q.next <= Len(q.lines) + 1 /\ q.next > 0 /\ (~r.file => q.next = Len(q.lines) + 1)
  <2>1. \A m \in Nat : \A n \in 1 .. m : n + 1 <= m + 1 /\ n + 1 > 0
    OBVIOUS
  <2>2. r.next + 1 <= Len(r.lines) + 1 /\ r.next + 1 > 0
    BY <1>1, <2>1
  <2>3. ~r.file => r.next + 1 = Len(r.lines) + 1
    BY <1>1
  <2> QED
    BY <2>2, <2>3
<1>3. ~HasLine(q) /\ Single(q) /\ q.at # "sort" /\ (q.at # "off" => r.file)
  BY DEF HasLine, KnowsNew, Single
<1> QED
  BY <1>1, <1>2, <1>3 DEF LinesCounted, RunRecord

LEMMA InsertFailsKeeps ==
    ASSUME ImportInv, NEW i \in Importer, InsertFails(i)
    PROVE  ImportInv'
<1> DEFINE r == import[i]
           failed == r.failed + 1
           s == [r EXCEPT !.failed = failed]
           q == Inserted(i, s, FALSE)
<1>1. /\ r.at = "insert" /\ importFaults < MaxImportFaults /\ importFaults' = importFaults + 1
      /\ UNCHANGED <<imported, imports, removed>> /\ Become(i, q)
  BY DEF InsertFails
<1>2. /\ r \in RunRecord /\ ImportIsSound(r, imported, removed) /\ r.next \in Nat
      /\ r.next > 0 /\ r.result = "none" /\ LinesCounted(r)
  BY <1>1, RunFacts DEF RunRecord, ImportIsSound, LinesCounted, HasLine, KnowsNew
<1>3. importFaults' \in 0 .. MaxImportFaults
  BY <1>1, ImportAssumption DEF ImportInv, ImportTyped
<1>4. failed \in Nat /\ failed = r.failed + 1 /\ failed # 0
  BY <1>2 DEF RunRecord
<1> HIDE DEF failed
<1>5. /\ s \in RunRecord /\ s.failed = failed /\ s.result = r.result /\ s.next = r.next
      /\ s.file = r.file /\ s.sort = r.sort /\ s.blind = r.blind /\ s.run = r.run
      /\ s.after = r.after /\ s.lines = r.lines /\ s.added = r.added /\ s.skipped = r.skipped
  BY <1>2, <1>4 DEF RunRecord
<1> HIDE DEF s
<1>6. /\ q \in RunRecord /\ q.next = s.next + 1 /\ q.at = (IF s.file THEN "line" ELSE "off")
      /\ q.result = (IF s.file THEN "none" ELSE "false")
      /\ q.sort = s.sort /\ q.blind = s.blind /\ q.run = s.run /\ q.after = s.after
      /\ q.file = s.file /\ q.lines = s.lines /\ q.added = s.added
      /\ q.skipped = s.skipped /\ q.failed = s.failed
  <2>1. IsInserted(q, s, "false")
    BY DEF Inserted, IsInserted
  <2>2. s \in RunRecord /\ s.result = "none" /\ "false" \in {"true", "false"}
    BY <1>2, <1>5
  <2> HIDE DEF q
  <2> QED
    BY <2>1, <2>2, InsertedIs
<1> HIDE DEF q
<1>7. LinesCounted(q)
  <2>1. r.file => r.added + r.skipped + (r.failed + 1) = (r.next + 1) - 1
    BY <1>2, OneMoreIsCounted
  <2>2. r.file => q.added + q.skipped + q.failed = q.next - 1
    BY <1>4, <1>5, <1>6, <2>1
  <2> QED
    BY <1>1, <1>2, <1>5, <1>6, <2>2, InsertedCounted
<1>8. DoneIsThere(q, imported, removed)
  BY <1>4, <1>5, <1>6 DEF DoneIsThere
<1>9. (HasSort(q) => HasSort(r)) /\ ~KnowsNew(q) /\ q.next >= r.next
  BY <1>1, <1>2, <1>5, <1>6 DEF HasSort, KnowsNew
<1>10. ComesBehind(q, imported)
  BY <1>1, <1>2, <1>5, <1>6, <1>9 DEF ImportIsSound, ComesBehind
<1>11. ASSUME NEW A, Budget(A, imported, import, imports) PROVE RunBudget(A, q)
  <2>1. RunBudget(A, r)
    BY <1>11 DEF Budget
  <2> QED
    BY <1>1, <1>2, <1>5, <1>6, <1>9, <2>1, BudgetStays
<1> QED
  BY <1>1, <1>3, <1>5, <1>6, <1>7, <1>8, <1>10, <1>11, RunStepKeeps DEF ImportIsSound

LEMMA EndFileKeeps ==
    ASSUME ImportInv, NEW i \in Importer, EndFile(i)
    PROVE  ImportInv'
<1> DEFINE r == import[i]
           result == IF r.failed = 0 THEN "true" ELSE "false"
           q == [r EXCEPT !.at = "off", !.result = result]
<1>1. /\ r.at = "line" /\ r.next > Len(r.lines) /\ Become(i, q)
      /\ UNCHANGED <<imported, imports, importFaults, removed>>
  BY DEF EndFile
<1>2. /\ r \in RunRecord /\ ImportIsSound(r, imported, removed) /\ r.next \in Nat
      /\ Len(r.lines) \in Nat /\ LinesCounted(r)
  BY RunFacts DEF ImportIsSound
<1>3. importFaults' \in 0 .. MaxImportFaults
  BY <1>1 DEF ImportInv, ImportTyped
<1>4. result \in {"true", "false"} /\ (result = "true" => r.failed = 0)
  OBVIOUS
<1> HIDE DEF result
<1>5. /\ q \in RunRecord /\ q.at = "off" /\ q.result = result /\ q.next = r.next
      /\ q.file = r.file /\ q.sort = r.sort /\ q.blind = r.blind /\ q.run = r.run
      /\ q.after = r.after /\ q.lines = r.lines /\ q.added = r.added /\ q.skipped = r.skipped
      /\ q.failed = r.failed
  BY <1>2, <1>4 DEF RunRecord
<1> HIDE DEF q
<1>6. LinesCounted(q)
  <2>1. q.next = Len(q.lines) + 1
    BY <1>1, <1>2, <1>5 DEF LinesCounted
  <2>2. ~HasLine(q) /\ Single(q)
    BY <1>5 DEF HasLine, KnowsNew, Single
  <2> QED
    BY <1>1, <1>2, <1>4, <1>5, <2>1, <2>2 DEF LinesCounted
<1>7. DoneIsThere(q, imported, removed) /\ ComesBehind(q, imported)
  BY <1>2, <1>5 DEF ImportIsSound, DoneIsThere, ComesBehind
<1>8. ASSUME NEW A PROVE RunBudget(A, q)
  BY <1>5 DEF RunBudget, HasSort
<1> QED
  BY <1>1, <1>3, <1>5, <1>6, <1>7, <1>8, RunStepKeeps DEF ImportIsSound

-----------------------------------------------------------------------------
(* SubscriptionImport: a row more, a run more, a row less.                  *)

\* The table with one row behind it
Grown(more, rows, row) ==
    /\ more \in Seq(RowRecord) /\ Len(more) = Len(rows) + 1 /\ more[Len(rows) + 1] = row
    /\ \A n \in 1 .. Len(rows) : more[n] = rows[n]

LEMMA AppendGrows ==
    ASSUME NEW rows \in Seq(RowRecord), NEW row \in RowRecord
    PROVE  Grown(Append(rows, row), rows, row)
BY AppendProperties DEF Grown

LEMMA OwnRowsGrow ==
    ASSUME NEW rows \in Seq(RowRecord), NEW row, NEW more, Grown(more, rows, row), NEW r
    PROVE  /\ IsFiniteSet(OwnRows(r, rows))
           /\ row.run # r.run => OwnRows(r, more) = OwnRows(r, rows)
           /\ row.run = r.run =>
                 Cardinality(OwnRows(r, more)) = Cardinality(OwnRows(r, rows)) + 1
<1> DEFINE len == Len(rows)
<1>1. len \in Nat /\ Len(more) = len + 1 /\ 1 .. len + 1 = (1 .. len) \cup {len + 1}
      /\ len + 1 \notin 1 .. len
  BY DEF Grown
<1>2. \A n \in 1 .. len : more[n] = rows[n]
  BY DEF Grown
<1>3. more[len + 1] = row
  BY DEF Grown
<1>4. IsFiniteSet(OwnRows(r, rows))
  <2>1. IsFiniteSet(1 .. len)
    BY <1>1, FS_Interval
  <2> QED
    BY <2>1, FS_Subset DEF OwnRows
<1>5. OwnRows(r, more) = {n \in (1 .. len) \cup {len + 1} : more[n].run = r.run}
  BY <1>1 DEF OwnRows
<1>6. OwnRows(r, rows) = {n \in 1 .. len : rows[n].run = r.run}
  BY DEF OwnRows
<1> HIDE DEF len
<1>7. ASSUME row.run # r.run PROVE OwnRows(r, more) = OwnRows(r, rows)
  BY <1>2, <1>3, <1>5, <1>6, <1>7
<1>8. ASSUME row.run = r.run
      PROVE  Cardinality(OwnRows(r, more)) = Cardinality(OwnRows(r, rows)) + 1
  <2>1. OwnRows(r, more) = OwnRows(r, rows) \cup {len + 1} /\ len + 1 \notin OwnRows(r, rows)
    BY <1>1, <1>2, <1>3, <1>5, <1>6, <1>8
  <2> QED
    BY <1>4, <2>1, FS_AddElement
<1> QED
  BY <1>4, <1>7, <1>8

\* What is behind a run stays there.
LEMMA DoneStaysThere ==
    ASSUME NEW rows \in Seq(RowRecord), NEW row, NEW more, Grown(more, rows, row), NEW url,
           isUrlExists(url, rows)
    PROVE  isUrlExists(url, more)
<1>1. PICK n \in 1 .. Len(rows) : rows[n].url = url
  BY DEF isUrlExists
<1>2. n \in DOMAIN more /\ more[n].url = url
  BY <1>1 DEF Grown
<1> QED
  BY <1>2 DEF isUrlExists

\* The row that an importer inserts
LEMMA RowIsTyped ==
    ASSUME NEW r \in RunRecord, r.next \in 1 .. Len(r.lines), r.lines[r.next].url \in ValidUrl,
           NEW row,
           row = [url |-> r.lines[r.next].url,
                  name |-> IF r.lines[r.next].remark THEN <<"given">>
                           ELSE extractRemarksFromUrl(r.lines[r.next].url),
                  sort |-> r.sort, run |-> r.run, after |-> r.after, blind |-> r.blind]
    PROVE  /\ row \in RowRecord /\ row.url = r.lines[r.next].url /\ row.sort = r.sort
           /\ row.run = r.run /\ row.after = r.after /\ row.blind = r.blind
<1> DEFINE url == r.lines[r.next].url
           name == IF r.lines[r.next].remark THEN <<"given">> ELSE extractRemarksFromUrl(url)
<1>1. url \in ValidUrl
  OBVIOUS
<1>2. name \in RemarkName
  BY <1>1, NameIsThere, PlainNames
<1>3. row = [url |-> url, name |-> name, sort |-> r.sort, run |-> r.run, after |-> r.after,
             blind |-> r.blind]
  OBVIOUS
<1>4. r.sort \in Nat /\ r.run \in Nat /\ r.after \in SUBSET Nat /\ r.blind \in BOOLEAN
  BY DEF RunRecord
<1> HIDE DEF url, name
<1>5. row \in RowRecord
  BY <1>1, <1>2, <1>3, <1>4 DEF RowRecord
<1> QED
  BY <1>3, <1>5 DEF url

LEMMA InsertRowKeeps ==
    ASSUME ImportInv, NEW i \in Importer, InsertRow(i)
    PROVE  ImportInv'
<1> DEFINE r == import[i]
           added == r.added + 1
           behind == r.sort + 10
           s == [r EXCEPT !.added = added, !.sort = behind]
           q == Inserted(i, s, TRUE)
           row == [url |-> r.lines[r.next].url,
                   name |-> IF r.lines[r.next].remark THEN <<"given">>
                            ELSE extractRemarksFromUrl(r.lines[r.next].url),
                   sort |-> r.sort, run |-> r.run, after |-> r.after, blind |-> r.blind]
<1>1. /\ r.at = "insert" /\ UNCHANGED <<imports, importFaults, removed>>
      /\ imported' = Append(imported, row)
  BY DEF InsertRow, Line
<1>2. Become(i, q)
  BY DEF InsertRow, NextSort
<1>3. /\ r \in RunRecord /\ ImportIsSound(r, imported, removed) /\ r.next \in Nat
      /\ r.next > 0 /\ r.result = "none" /\ LinesCounted(r) /\ r.sort \in Nat
      /\ r.next \in 1 .. Len(r.lines) /\ r.lines[r.next].url \in ValidUrl
      /\ Len(r.lines) \in Nat /\ imported \in Seq(RowRecord) /\ Len(imported) \in Nat
      /\ \A n \in 1 .. Len(imported) : imported[n] \in RowRecord
  BY <1>1, RunFacts DEF RunRecord, ImportIsSound, LinesCounted, HasLine, KnowsNew
<1>4. /\ row \in RowRecord /\ row.url = r.lines[r.next].url /\ row.sort = r.sort
      /\ row.run = r.run /\ row.after = r.after /\ row.blind = r.blind
  BY <1>3, RowIsTyped
<1> HIDE DEF row
<1>5. Grown(imported', imported, row)
  BY <1>1, <1>3, <1>4, AppendGrows
<1>6. added \in Nat /\ behind \in Nat /\ added = r.added + 1 /\ behind = r.sort + 10
  BY <1>3 DEF RunRecord
<1> HIDE DEF added, behind
<1>7. /\ s \in RunRecord /\ s.failed = r.failed /\ s.result = r.result /\ s.next = r.next
      /\ s.file = r.file /\ s.sort = behind /\ s.blind = r.blind /\ s.run = r.run
      /\ s.after = r.after /\ s.lines = r.lines /\ s.added = added /\ s.skipped = r.skipped
  BY <1>3, <1>6 DEF RunRecord
<1> HIDE DEF s
<1>8. /\ q \in RunRecord /\ q.next = s.next + 1 /\ q.at = (IF s.file THEN "line" ELSE "off")
      /\ q.result = (IF s.file THEN "none" ELSE "true")
      /\ q.sort = s.sort /\ q.blind = s.blind /\ q.run = s.run /\ q.after = s.after
      /\ q.file = s.file /\ q.lines = s.lines /\ q.added = s.added
      /\ q.skipped = s.skipped /\ q.failed = s.failed
  <2>1. IsInserted(q, s, "true")
    BY DEF Inserted, IsInserted
  <2>2. s \in RunRecord /\ s.result = "none" /\ "true" \in {"true", "false"}
    BY <1>3, <1>7
  <2> HIDE DEF q
  <2> QED
    BY <2>1, <2>2, InsertedIs
<1> HIDE DEF q
<1>9. /\ import' \in [Importer -> RunRecord] /\ import'[i] = q
      /\ \A j \in Importer \ {i} : import'[j] = import[j]
  BY <1>2, <1>8 DEF Become, ImportInv, ImportTyped
<1>10. /\ imported' \in Seq(RowRecord) /\ Len(imported') = Len(imported) + 1
       /\ imported'[Len(imported) + 1] = row
       /\ \A n \in 1 .. Len(imported) : imported'[n] = imported[n]
       /\ \A n \in 1 .. Len(imported') : n \in 1 .. Len(imported) \/ n = Len(imported) + 1
  BY <1>3, <1>5 DEF Grown
<1>11. ImportTyped'
  BY <1>1, <1>9, <1>10 DEF ImportInv, ImportTyped
<1>12. RunsAreNumbered'
  <2>1. \A j \in Importer : /\ import'[j].run = import[j].run /\ import'[j].after = import[j].after
                            /\ import'[j].at # "off" => import[j].at # "off"
    BY <1>1, <1>7, <1>8, <1>9
  <2>2. r.run \in 1 .. imports
    BY <1>1, <1>3 DEF ImportInv, RunsAreNumbered, ImportTyped
  <2>3. \A n \in 1 .. Len(imported') : imported'[n].run \in 1 .. imports
    BY <1>4, <1>10, <2>2 DEF ImportInv, RunsAreNumbered
  <2> QED
    BY <1>1, <2>1, <2>3 DEF ImportInv, RunsAreNumbered
<1>13. RowsInOrder(imported')
  <2> SUFFICES ASSUME NEW m \in 1 .. Len(imported'), NEW n \in 1 .. Len(imported'), m < n,
                      ~imported'[n].blind,
                      imported'[m].run \in imported'[n].after \cup {imported'[n].run}
               PROVE  /\ imported'[m].url # imported'[n].url
                      /\ imported'[m].sort < imported'[n].sort
    BY DEF RowsInOrder
  <2>1. m \in 1 .. Len(imported) /\ imported'[m] = imported[m]
    BY <1>3, <1>10
  <2>2. CASE n \in 1 .. Len(imported)
    BY <1>10, <2>1, <2>2 DEF ImportInv, RowsInOrder
  <2>3. CASE n = Len(imported) + 1
    <3>1. ~r.blind /\ imported[m].run \in r.after \cup {r.run}
      BY <1>4, <1>10, <2>1, <2>3
    <3>2. imported[m].sort < r.sort /\ imported[m].url # r.lines[r.next].url
      BY <1>1, <1>3, <2>1, <3>1 DEF ImportIsSound, ComesBehind, HasSort, KnowsNew
    <3> QED
      BY <1>4, <1>10, <2>1, <2>3, <3>2
  <2> QED
    BY <1>10, <2>2, <2>3
<1>14. SortsBounded'
  <2>1. PICK A \in SUBSET ((1 .. imports) \X (1 .. MaxFileLines)) :
               Budget(A, imported, import, imports)
    BY DEF ImportInv, SortsBounded
  <2> DEFINE B == A \cup {<<r.run, r.next>>}
  <2>2. IsFiniteSet(A) /\ Cardinality(A) \in Nat
    BY <2>1, BudgetIsFinite, RunFacts
  <2>3. RunBudget(A, r) /\ <<r.run, r.next>> \notin A /\ r.sort \in 10 .. 10 * Cardinality(A) + 10
    BY <1>1, <1>3, <2>1 DEF Budget, RunBudget, HasSort
  <2>4. Cardinality(B) = Cardinality(A) + 1
    BY <2>2, <2>3, FS_AddElement
  <2>5. r.run \in 1 .. imports /\ r.next \in 1 .. MaxFileLines
    <3>1. r.run \in 0 .. imports /\ r.run # 0 /\ imports \in Nat
      BY <1>1 DEF ImportInv, RunsAreNumbered, ImportTyped
    <3>2. Len(r.lines) <= MaxFileLines /\ MaxFileLines \in Nat
      BY <1>3, ImportAssumption DEF LinesCounted
    <3> QED
      BY <1>3, <3>1, <3>2
  <2>6. B \in SUBSET ((1 .. imports) \X (1 .. MaxFileLines))
    BY <2>5
  <2>7. 10 * Cardinality(B) = 10 * Cardinality(A) + 10 /\ 10 * Cardinality(A) \in Nat
    BY <2>2, <2>4
  <2>8. ASSUME NEW k \in 1 .. Len(imported')
        PROVE  imported'[k].sort \in 10 .. 10 * Cardinality(B)
    <3>1. CASE k \in 1 .. Len(imported)
      <4>1. imported[k].sort \in 10 .. 10 * Cardinality(A)
        BY <2>1, <3>1 DEF Budget
      <4> QED
        BY <1>10, <2>7, <3>1, <4>1
    <3>2. CASE k = Len(imported) + 1
      BY <1>4, <1>10, <2>3, <2>7, <3>2
    <3> QED
      BY <1>10, <3>1, <3>2
  <2> HIDE DEF B
  <2>9. ASSUME NEW j \in Importer PROVE RunBudget(B, import'[j])
    <3>1. CASE j = i
      <4>1. HasSort(q) => q.sort \in 10 .. 10 * Cardinality(B) + 10
        BY <1>3, <1>6, <1>7, <1>8, <2>3, <2>7
      <4>2. \A k \in Nat : k >= q.next => <<q.run, k>> \notin B
        <5> SUFFICES ASSUME NEW k \in Nat, k >= q.next PROVE <<q.run, k>> \notin B
          OBVIOUS
        <5>1. k >= r.next /\ k # r.next
          BY <1>3, <1>7, <1>8
        <5>2. <<r.run, k>> \notin A
          BY <1>1, <2>3, <5>1 DEF RunBudget
        <5> QED
          BY <1>7, <1>8, <5>1, <5>2 DEF B
      <4> QED
        BY <1>9, <3>1, <4>1, <4>2 DEF RunBudget
    <3>2. CASE j # i
      <4>1. RunBudget(A, import[j]) /\ import'[j] = import[j]
        BY <1>9, <2>1, <3>2 DEF Budget
      <4>2. import[j].at # "off" => import[j].run # r.run
        BY <1>1, <3>2 DEF ImportInv, RunsAreNumbered
      <4>3. HasSort(import[j]) => import[j].sort \in 10 .. 10 * Cardinality(B) + 10
        <5>1. HasSort(import[j]) => import[j].sort \in 10 .. 10 * Cardinality(A) + 10
          BY <4>1 DEF RunBudget
        <5> QED
          BY <2>7, <5>1
      <4>4. import[j].at # "off" => \A k \in Nat : k >= import[j].next => <<import[j].run, k>> \notin B
        BY <4>1, <4>2 DEF RunBudget, B
      <4> QED
        BY <4>1, <4>3, <4>4 DEF RunBudget
    <3> QED
      BY <3>1, <3>2
  <2>10. Budget(B, imported', import', imports')
    BY <1>1, <2>6, <2>8, <2>9 DEF Budget
  <2> QED
    BY <1>1, <2>6, <2>10 DEF SortsBounded
<1>15. ASSUME NEW j \in Importer \ {i}
       PROVE  /\ ImportIsSound(import'[j], imported', removed')
              /\ removed' = {} => import'[j].added = Cardinality(OwnRows(import'[j], imported'))
  <2> DEFINE other == import[j]
  <2>1. /\ import'[j] = other /\ LinesCounted(other) /\ DoneIsThere(other, imported, removed)
        /\ ComesBehind(other, imported)
        /\ removed = {} => other.added = Cardinality(OwnRows(other, imported))
    BY <1>9 DEF ImportInv, ImportIsSound
  <2>2. DoneIsThere(other, imported', removed')
    BY <1>1, <1>3, <1>5, <2>1, DoneStaysThere DEF DoneIsThere
  <2>3. r.run # other.run
    BY <1>1, <1>3 DEF ImportInv, RunsAreNumbered
  <2>4. ComesBehind(other, imported')
    <3> SUFFICES ASSUME other.at # "off", ~other.blind, NEW n \in 1 .. Len(imported'),
                        imported'[n].run \in other.after \cup {other.run}
                 PROVE  /\ HasSort(other) => imported'[n].sort < other.sort
                        /\ KnowsNew(other) => imported'[n].url # other.lines[other.next].url
      BY DEF ComesBehind
    <3>1. r.run \notin other.after
      BY <1>1 DEF ImportInv, RunsAreNumbered
    <3>2. n \in 1 .. Len(imported) /\ imported'[n] = imported[n]
      BY <1>4, <1>10, <2>3, <3>1
    <3> QED
      BY <2>1, <3>2 DEF ComesBehind
  <2>5. OwnRows(other, imported') = OwnRows(other, imported)
    BY <1>3, <1>4, <1>5, <2>3, OwnRowsGrow
  <2> QED
    BY <1>1, <2>1, <2>2, <2>4, <2>5 DEF ImportIsSound
<1>16. ImportIsSound(q, imported', removed')
  <2>1. LinesCounted(q)
    <3>1. r.file => (r.added + 1) + r.skipped + r.failed = (r.next + 1) - 1
      BY <1>3, OneMoreIsCounted
    <3>2. r.file => q.added + q.skipped + q.failed = q.next - 1
      BY <1>6, <1>7, <1>8, <3>1
    <3>3. ~r.file => r.failed = 0
      BY <1>1, <1>3 DEF LinesCounted, Single
    <3> QED
      BY <1>1, <1>3, <1>7, <1>8, <3>2, <3>3, InsertedCounted
  <2>2. DoneIsThere(q, imported', removed')
    <3> SUFFICES ASSUME r.failed = 0, NEW n \in 1 .. Len(r.lines), n < r.next + 1
                 PROVE  /\ r.lines[n].url.valid
                        /\ isUrlExists(r.lines[n].url, imported') \/ r.lines[n].url \in removed'
      BY <1>7, <1>8 DEF DoneIsThere
    <3>1. CASE n = r.next
      <4>1. Len(imported) + 1 \in DOMAIN imported'
        BY <1>3, <1>10
      <4>2. isUrlExists(r.lines[r.next].url, imported')
        BY <1>4, <1>10, <4>1 DEF isUrlExists
      <4> QED
        BY <1>3, <3>1, <4>2 DEF ValidUrl
    <3>2. CASE n # r.next
      <4>1. n < r.next
        BY <1>3, <3>2
      <4>2. /\ r.lines[n].url.valid
            /\ isUrlExists(r.lines[n].url, imported) \/ r.lines[n].url \in removed
        BY <1>3, <4>1 DEF ImportIsSound, DoneIsThere
      <4> QED
        BY <1>1, <1>3, <1>5, <4>2, DoneStaysThere
    <3> QED
      BY <3>1, <3>2
  <2>3. ComesBehind(q, imported')
    <3> SUFFICES ASSUME ~r.blind, NEW n \in 1 .. Len(imported'),
                        imported'[n].run \in r.after \cup {r.run}
                 PROVE  imported'[n].sort < behind
      <4>1. ~KnowsNew(q)
        BY <1>8 DEF KnowsNew
      <4> QED
        BY <1>7, <1>8, <4>1 DEF ComesBehind
    <3>1. CASE n \in 1 .. Len(imported)
      <4>1. imported[n].sort < r.sort /\ imported[n].sort \in Nat
        BY <1>1, <1>3, <1>10, <3>1 DEF ImportIsSound, ComesBehind, HasSort, RowRecord
      <4> QED
        BY <1>3, <1>6, <1>10, <3>1, <4>1
    <3>2. CASE n = Len(imported) + 1
      BY <1>3, <1>4, <1>6, <1>10, <3>2
    <3> QED
      BY <1>10, <3>1, <3>2
  <2> QED
    BY <2>1, <2>2, <2>3 DEF ImportIsSound
<1>17. removed' = {} => q.added = Cardinality(OwnRows(q, imported'))
  <2>1. removed = {} => r.added = Cardinality(OwnRows(r, imported))
    BY DEF ImportInv
  <2>2. Cardinality(OwnRows(r, imported')) = Cardinality(OwnRows(r, imported)) + 1
    BY <1>3, <1>4, <1>5, OwnRowsGrow
  <2>3. OwnRows(q, imported') = OwnRows(r, imported')
    BY <1>7, <1>8, OwnRowsAre
  <2> QED
    BY <1>1, <1>6, <1>7, <1>8, <2>1, <2>2, <2>3
<1>18. \A j \in Importer :
          /\ ImportIsSound(import'[j], imported', removed')
          /\ removed' = {} => import'[j].added = Cardinality(OwnRows(import'[j], imported'))
  BY <1>9, <1>15, <1>16, <1>17
<1> QED
  BY <1>11, <1>12, <1>13, <1>14, <1>18 DEF ImportInv

\* An import begins: it comes after every run that has ended.
LEMMA StartKeeps ==
    ASSUME ImportInv, NEW i \in Importer, NEW run \in RunRecord, StartImport(i, run),
           ~HasSort(run), ~KnowsNew(run), LinesCounted(run), run.next <= 1, run.added = 0
    PROVE  ImportInv'
<1> DEFINE ended == (1 .. imports) \ {import[j].run : j \in {k \in Importer : import[k].at # "off"}}
           number == imports + 1
           q == [run EXCEPT !.run = number, !.after = ended]
<1>1. /\ import[i].at = "off" /\ imports < MaxImports /\ imports' = number /\ Become(i, q)
      /\ UNCHANGED <<imported, importFaults, removed>>
  BY DEF StartImport
<1>2. /\ imported \in Seq(RowRecord) /\ imports \in 0 .. MaxImports /\ MaxImports \in Nat
      /\ importFaults \in 0 .. MaxImportFaults /\ removed \subseteq Url
      /\ import \in [Importer -> RunRecord]
  BY ImportAssumption DEF ImportInv, ImportTyped
<1>3. /\ number \in Nat /\ number \in 1 .. MaxImports /\ number \notin 1 .. imports
      /\ 1 .. imports \subseteq 1 .. number
      /\ ended \subseteq 1 .. imports /\ ended \subseteq Nat
  BY <1>1, <1>2
<1>4. ASSUME NEW j \in Importer, import[j].at # "off" PROVE import[j].run \notin ended
  BY <1>4
<1> HIDE DEF number, ended
<1>5. /\ q \in RunRecord /\ q.run = number /\ q.after = ended /\ q.at = run.at
      /\ q.file = run.file /\ q.lines = run.lines /\ q.next = run.next /\ q.sort = run.sort
      /\ q.blind = run.blind /\ q.added = run.added /\ q.skipped = run.skipped
      /\ q.failed = run.failed /\ q.result = run.result
  BY <1>3 DEF RunRecord
<1> HIDE DEF q
<1>6. /\ import' \in [Importer -> RunRecord] /\ import'[i] = q
      /\ \A j \in Importer \ {i} : import'[j] = import[j]
  BY <1>1, <1>2, <1>5 DEF Become
<1>7. ImportTyped'
  BY <1>1, <1>2, <1>3, <1>6 DEF ImportTyped
<1>8. /\ \A n \in 1 .. Len(imported) : imported[n].run \in 1 .. imports
      /\ \A j \in Importer : import[j].run \in 0 .. imports /\ import[j].after \subseteq 1 .. imports
  BY DEF ImportInv, RunsAreNumbered
<1>9. RunsAreNumbered'
  <2>1. ASSUME NEW n \in 1 .. Len(imported') PROVE imported'[n].run \in 1 .. imports'
    BY <1>1, <1>3, <1>8
  <2>2. ASSUME NEW j \in Importer
        PROVE  /\ import'[j].run \in 0 .. imports' /\ import'[j].after \subseteq 1 .. imports'
               /\ import'[j].at # "off" => import'[j].run # 0
    <3>1. CASE j = i
      <4>1. import'[j].run = number /\ import'[j].after = ended /\ imports' = number
        BY <1>1, <1>5, <1>6, <3>1
      <4>2. number \in 0 .. number /\ number # 0 /\ ended \subseteq 1 .. number
        BY <1>3
      <4> QED
        BY <4>1, <4>2
    <3>2. CASE j # i
      <4>1. import[j].run \in 0 .. number
        BY <1>1, <1>2, <1>3, <1>8 DEF number
      <4> QED
        BY <1>1, <1>3, <1>6, <1>8, <3>2, <4>1 DEF ImportInv, RunsAreNumbered
    <3> QED
      BY <3>1, <3>2
  <2>3. ASSUME NEW j \in Importer, NEW k \in Importer
        PROVE  /\ j # k /\ import'[j].run # 0 => import'[j].run # import'[k].run
               /\ import'[j].at # "off" /\ import'[k].at # "off" =>
                     import'[k].run \notin import'[j].after
    <3>1. \A l \in Importer : import[l].run # number /\ number \notin import[l].after
      BY <1>2, <1>3, <1>8
    <3>2. CASE j = i /\ k = i
      BY <1>3, <1>5, <1>6, <3>2
    <3>3. CASE j = i /\ k # i
      BY <1>4, <1>5, <1>6, <3>1, <3>3
    <3>4. CASE j # i /\ k = i
      BY <1>5, <1>6, <3>1, <3>4
    <3>5. CASE j # i /\ k # i
      BY <1>6, <3>5 DEF ImportInv, RunsAreNumbered
    <3> QED
      BY <3>2, <3>3, <3>4, <3>5
  <2> QED
    BY <2>1, <2>2, <2>3 DEF RunsAreNumbered
<1>10. RowsInOrder(imported')
  BY <1>1 DEF ImportInv
<1>11. SortsBounded'
  <2>1. PICK A \in SUBSET ((1 .. imports) \X (1 .. MaxFileLines)) :
               Budget(A, imported, import, imports)
    BY DEF ImportInv, SortsBounded
  <2>2. A \in SUBSET ((1 .. imports') \X (1 .. MaxFileLines))
    BY <1>1, <1>3, <2>1
  <2>3. RunBudget(A, q)
    <3>1. ~HasSort(q)
      BY <1>5 DEF HasSort
    <3>2. \A k \in Nat : <<q.run, k>> \notin A
      BY <1>3, <1>5, <2>1
    <3> QED
      BY <3>1, <3>2 DEF RunBudget
  <2>4. Budget(A, imported', import', imports')
    BY <1>1, <1>6, <2>1, <2>2, <2>3 DEF Budget
  <2> QED
    BY <2>2, <2>4 DEF SortsBounded
<1>12. ImportIsSound(q, imported', removed')
  <2>1. LinesCounted(q)
    BY <1>5 DEF LinesCounted, HasLine, KnowsNew, Single
  <2>2. DoneIsThere(q, imported', removed')
    <3>1. \A n \in 1 .. Len(run.lines) : ~(n < run.next)
      BY DEF RunRecord
    <3> QED
      BY <1>5, <3>1 DEF DoneIsThere
  <2>3. ComesBehind(q, imported')
    BY <1>5 DEF ComesBehind, HasSort, KnowsNew
  <2> QED
    BY <2>1, <2>2, <2>3 DEF ImportIsSound
<1>13. q.added = Cardinality(OwnRows(q, imported'))
  <2>1. OwnRows(q, imported') = {}
    BY <1>1, <1>3, <1>5, <1>8 DEF OwnRows
  <2> QED
    BY <1>5, <2>1, FS_EmptySet
<1>14. \A j \in Importer :
          /\ ImportIsSound(import'[j], imported', removed')
          /\ removed' = {} => import'[j].added = Cardinality(OwnRows(import'[j], imported'))
  BY <1>1, <1>6, <1>12, <1>13 DEF ImportInv
<1> QED
  BY <1>7, <1>9, <1>10, <1>11, <1>14 DEF ImportInv

LEMMA IdleIsTyped == Idle \in RunRecord
BY DEF Idle, RunRecord

\* Lines are lines, and those of a file are not too many.
LEMMA LinesAre ==
    /\ \A url \in Url : LET content == <<[url |-> url, remark |-> FALSE]>>
                        IN  /\ content \in Seq(LineRecord) /\ Len(content) = 1
                            /\ content[1].url = url
    /\ \A content \in SeqOf(FileLine, MaxFileLines) :
          content \in Seq(LineRecord) /\ Len(content) \in 0 .. MaxFileLines
<1>1. ASSUME NEW url \in Url, NEW content, content = <<[url |-> url, remark |-> FALSE]>>
      PROVE  content \in Seq(LineRecord) /\ Len(content) = 1 /\ content[1].url = url
  <2>1. [url |-> url, remark |-> FALSE] \in LineRecord
    BY DEF LineRecord
  <2> QED
    BY <1>1, <2>1
<1>2. ASSUME NEW content \in SeqOf(FileLine, MaxFileLines)
      PROVE  content \in Seq(LineRecord) /\ Len(content) \in 0 .. MaxFileLines
  <2>1. PICK m \in 0 .. MaxFileLines : content \in [1 .. m -> FileLine]
    BY DEF SeqOf
  <2>2. ASSUME NEW l \in FileLine PROVE l \in LineRecord
    <3>1. PICK u \in {v \in Url : Len(v.path) < 2 /\ v.path # <<"">>} :
                 l = [url |-> u, remark |-> u.path = <<>>]
      BY DEF FileLine
    <3>2. u \in Url /\ (u.path = <<>>) \in BOOLEAN
      OBVIOUS
    <3> QED
      BY <3>1, <3>2 DEF LineRecord
  <2>3. content \in [1 .. m -> LineRecord] /\ m \in Nat
    BY <2>1, <2>2, ImportAssumption
  <2> QED
    BY <2>1, <2>3
<1> QED
  BY <1>1, <1>2

LEMMA BeginningsKeep ==
    ASSUME ImportInv, NEW i \in Importer,
           \/ \E url \in Url : ImportUrl(i, url)
           \/ \E content \in SeqOf(FileLine, MaxFileLines) : ImportFile(i, content)
           \/ NoFile(i)
    PROVE  ImportInv'
<1>1. MaxFileLines \in Nat \ {0}
  BY ImportAssumption
<1>2. ASSUME NEW url \in Url, ImportUrl(i, url) PROVE ImportInv'
  <2> DEFINE content == <<[url |-> url, remark |-> FALSE]>>
  <2>1. content \in Seq(LineRecord) /\ Len(content) = 1 /\ content[1].url = url
    BY LinesAre
  <2>2. IF url.valid
        THEN StartImport(i, [Idle EXCEPT !.lines = content, !.next = 1, !.at = "check"])
        ELSE StartImport(i, [Idle EXCEPT !.lines = content, !.next = 1, !.failed = 1,
                                         !.result = "false"])
    BY <1>2 DEF ImportUrl, Idle
  <2> HIDE DEF content
  <2>3. CASE url.valid
    <3> DEFINE run == [Idle EXCEPT !.lines = content, !.next = 1, !.at = "check"]
    <3>1. /\ run \in RunRecord /\ run.lines = content /\ run.next = 1 /\ run.at = "check"
          /\ ~run.file /\ run.added = 0 /\ run.failed = 0 /\ run.result = "none"
      BY <2>1, IdleIsTyped DEF Idle, RunRecord
    <3>2. StartImport(i, run)
      BY <2>2, <2>3
    <3> HIDE DEF run
    <3>3. ~HasSort(run) /\ ~KnowsNew(run) /\ run.next <= 1
      BY <3>1 DEF HasSort, KnowsNew
    <3>4. LinesCounted(run)
      <4>1. run.next \in 1 .. Len(run.lines) /\ run.lines[run.next].url \in ValidUrl
        <5>1. url \in ValidUrl
          BY <2>3 DEF ValidUrl
        <5>2. run.lines[run.next] = content[1] /\ Len(run.lines) = 1
          BY <2>1, <3>1
        <5>3. run.lines[run.next].url = url
          BY <2>1, <5>2, Zenon
        <5>4. run.next \in 1 .. Len(run.lines)
          BY <3>1, <5>2
        <5> QED
          BY <5>1, <5>3, <5>4, Zenon
      <4>2. Len(run.lines) = 1 /\ 1 <= MaxFileLines /\ run.next <= Len(run.lines) + 1
        BY <1>1, <2>1, <3>1
      <4>3. Single(run)
        BY <3>1, <4>2 DEF Single
      <4> QED
        BY <3>1, <4>1, <4>2, <4>3 DEF LinesCounted
    <3> QED
      BY <3>1, <3>2, <3>3, <3>4, StartKeeps
  <2>4. CASE ~url.valid
    <3> DEFINE run == [Idle EXCEPT !.lines = content, !.next = 1, !.failed = 1, !.result = "false"]
    <3>1. /\ run \in RunRecord /\ run.lines = content /\ run.next = 1 /\ run.at = "off"
          /\ ~run.file /\ run.added = 0 /\ run.failed = 1 /\ run.result = "false"
      BY <2>1, IdleIsTyped DEF Idle, RunRecord
    <3>2. StartImport(i, run)
      BY <2>2, <2>4
    <3> HIDE DEF run
    <3>3. ~HasSort(run) /\ ~KnowsNew(run) /\ run.next <= 1
      BY <3>1 DEF HasSort, KnowsNew
    <3>4. LinesCounted(run)
      <4>1. ~HasLine(run) /\ Single(run)
        BY <3>1 DEF HasLine, KnowsNew, Single
      <4>2. Len(run.lines) = 1 /\ 1 <= MaxFileLines /\ run.next <= Len(run.lines) + 1
        BY <1>1, <2>1, <3>1
      <4> QED
        BY <3>1, <4>1, <4>2 DEF LinesCounted
    <3> QED
      BY <3>1, <3>2, <3>3, <3>4, StartKeeps
  <2> QED
    BY <2>3, <2>4
<1>3. ASSUME NEW content \in SeqOf(FileLine, MaxFileLines), ImportFile(i, content) PROVE ImportInv'
  <2> DEFINE run == [Idle EXCEPT !.file = TRUE, !.lines = content, !.next = 1, !.at = "sort"]
  <2>1. content \in Seq(LineRecord) /\ Len(content) \in 0 .. MaxFileLines
    BY LinesAre
  <2>2. /\ run \in RunRecord /\ run.lines = content /\ run.next = 1 /\ run.at = "sort" /\ run.file
        /\ run.added = 0 /\ run.skipped = 0 /\ run.failed = 0 /\ run.result = "none"
    BY <2>1, IdleIsTyped DEF Idle, RunRecord
  <2>3. StartImport(i, run)
    BY <1>3 DEF ImportFile
  <2> HIDE DEF run
  <2>4. ~HasSort(run) /\ ~KnowsNew(run) /\ run.next <= 1
    BY <2>2 DEF HasSort, KnowsNew
  <2>5. LinesCounted(run)
    BY <1>1, <2>1, <2>2 DEF LinesCounted, HasLine, KnowsNew, Single
  <2> QED
    BY <2>2, <2>3, <2>4, <2>5, StartKeeps
<1>4. CASE NoFile(i)
  <2> DEFINE run == [Idle EXCEPT !.file = TRUE, !.result = "false"]
  <2>1. /\ run \in RunRecord /\ run.lines = <<>> /\ run.next = 0 /\ run.at = "off" /\ run.file
        /\ run.added = 0 /\ run.failed = 0 /\ run.result = "false"
    BY IdleIsTyped DEF Idle, RunRecord
  <2>2. StartImport(i, run)
    BY <1>4 DEF NoFile
  <2> HIDE DEF run
  <2>3. ~HasSort(run) /\ ~KnowsNew(run) /\ run.next <= 1
    BY <2>1 DEF HasSort, KnowsNew
  <2>4. LinesCounted(run)
    BY <1>1, <2>1 DEF LinesCounted, HasLine, KnowsNew, Single
  <2> QED
    BY <2>1, <2>2, <2>3, <2>4, StartKeeps
<1> QED
  BY <1>2, <1>3, <1>4

\* deleteSubscription(): the order of the others stays.
LEMMA DeleteKeeps ==
    ASSUME ImportInv, NEW n \in DOMAIN imported, DeleteRow(n)
    PROVE  ImportInv'
<1> DEFINE old(k) == IF k < n THEN k ELSE k + 1
<1>1. /\ imported \in Seq(RowRecord) /\ Len(imported) \in Nat /\ n \in 1 .. Len(imported)
      /\ \A k \in 1 .. Len(imported) : imported[k] \in RowRecord
  BY DEF ImportInv, ImportTyped
<1>2. /\ imported' = RemoveAt(imported, n) /\ removed' = removed \cup {imported[n].url}
      /\ UNCHANGED <<import, imports, importFaults>>
  BY DEF DeleteRow
<1>3. /\ imported' \in Seq(RowRecord) /\ Len(imported') = Len(imported) - 1
      /\ \A k \in 1 .. Len(imported') : imported'[k] = IF k < n THEN imported[k] ELSE imported[k + 1]
  BY <1>1, <1>2, RemoveIs
<1>4. \A k \in 1 .. Len(imported') : old(k) \in 1 .. Len(imported) /\ imported'[k] = imported[old(k)]
  BY <1>1, <1>3
<1>5. \A k, l \in 1 .. Len(imported') : k < l => old(k) < old(l)
  BY <1>1, <1>3
<1>6. \A k \in 1 .. Len(imported) : k # n => \E l \in 1 .. Len(imported') : imported'[l] = imported[k]
  <2> SUFFICES ASSUME NEW k \in 1 .. Len(imported), k # n
               PROVE  \E l \in 1 .. Len(imported') : imported'[l] = imported[k]
    OBVIOUS
  <2>1. CASE k < n
    <3>1. k \in 1 .. Len(imported') /\ imported'[k] = imported[k]
      BY <1>1, <1>3, <2>1
    <3> QED
      BY <3>1
  <2>2. CASE ~(k < n)
    <3>1. k - 1 \in 1 .. Len(imported') /\ ~(k - 1 < n) /\ (k - 1) + 1 = k
      BY <1>1, <1>3, <2>2
    <3>2. imported'[k - 1] = imported[k]
      BY <1>3, <3>1
    <3> QED
      BY <3>1, <3>2
  <2> QED
    BY <2>1, <2>2
<1>7. imported[n].url \in Url
  BY <1>1 DEF RowRecord, ValidUrl
<1> HIDE DEF old
<1>8. ImportTyped'
  BY <1>2, <1>3, <1>7 DEF ImportInv, ImportTyped
<1>9. RunsAreNumbered'
  BY <1>2, <1>4 DEF ImportInv, RunsAreNumbered
<1>10. RowsInOrder(imported')
  BY <1>4, <1>5 DEF ImportInv, RowsInOrder
<1>11. SortsBounded'
  <2>1. PICK A \in SUBSET ((1 .. imports) \X (1 .. MaxFileLines)) :
               Budget(A, imported, import, imports)
    BY DEF ImportInv, SortsBounded
  <2>2. Budget(A, imported', import', imports')
    BY <1>2, <1>4, <2>1 DEF Budget
  <2> QED
    BY <1>2, <2>2 DEF SortsBounded
<1>12. removed' # {}
  BY <1>2
<1>13. ASSUME NEW j \in Importer PROVE ImportIsSound(import'[j], imported', removed')
  <2> DEFINE r == import[j]
  <2>1. /\ import'[j] = r /\ LinesCounted(r) /\ DoneIsThere(r, imported, removed)
        /\ ComesBehind(r, imported)
    BY <1>2 DEF ImportInv, ImportIsSound
  <2>2. DoneIsThere(r, imported', removed')
    <3>1. \A url : isUrlExists(url, imported) =>
                      isUrlExists(url, imported') \/ url \in removed'
      <4> SUFFICES ASSUME NEW url, NEW k \in DOMAIN imported, imported[k].url = url
                   PROVE  isUrlExists(url, imported') \/ url \in removed'
        BY DEF isUrlExists
      <4>1. CASE k = n
        BY <1>2, <4>1
      <4>2. CASE k # n
        <5>1. PICK l \in 1 .. Len(imported') : imported'[l] = imported[k]
          BY <1>1, <1>6, <4>2
        <5>2. l \in DOMAIN imported'
          BY <1>3
        <5> QED
          BY <5>1, <5>2 DEF isUrlExists
      <4> QED
        BY <4>1, <4>2
    <3>2. removed \subseteq removed'
      BY <1>2
    <3> QED
      BY <2>1, <3>1, <3>2 DEF DoneIsThere
  <2>3. ComesBehind(r, imported')
    BY <1>4, <2>1 DEF ComesBehind
  <2> QED
    BY <2>1, <2>2, <2>3 DEF ImportIsSound
<1> QED
  BY <1>8, <1>9, <1>10, <1>11, <1>12, <1>13 DEF ImportInv

-----------------------------------------------------------------------------
(* SubscriptionImport: what is proved of it.                                *)

LEMMA ImportInitially == ImportInit => ImportInv
<1> SUFFICES ASSUME ImportInit PROVE ImportInv
  OBVIOUS
<1>1. /\ imported = <<>> /\ import = [i \in Importer |-> Idle]
      /\ imports = 0 /\ importFaults = 0 /\ removed = {}
  BY DEF ImportInit
<1>2. /\ Idle.at = "off" /\ Idle.run = 0 /\ Idle.after = {} /\ Idle.lines = <<>>
      /\ Idle.next = 0 /\ ~Idle.file /\ Idle.added = 0 /\ Idle.failed = 0 /\ Idle.result = "none"
  BY DEF Idle
<1>3. imported \in Seq(RowRecord) /\ Len(imported) = 0 /\ Len(Idle.lines) = 0
  BY <1>1, <1>2
<1>4. \A i \in Importer : import[i] = Idle
  BY <1>1
<1>5. MaxImports \in Nat /\ MaxImportFaults \in Nat /\ MaxFileLines \in Nat
  BY ImportAssumption
<1>6. ImportTyped
  BY <1>1, <1>3, <1>5, IdleIsTyped DEF ImportTyped
<1>7. RunsAreNumbered
  BY <1>1, <1>2, <1>3, <1>4 DEF RunsAreNumbered
<1>8. RowsInOrder(imported)
  BY <1>3 DEF RowsInOrder
<1>9. SortsBounded
  <2>1. RunBudget({}, Idle)
    BY <1>2 DEF RunBudget, HasSort
  <2>2. Budget({}, imported, import, imports)
    BY <1>3, <1>4, <2>1 DEF Budget
  <2> QED
    BY <2>2 DEF SortsBounded
<1>10. ImportIsSound(Idle, imported, removed)
  <2>1. LinesCounted(Idle)
    BY <1>2, <1>3, <1>5 DEF LinesCounted, HasLine, KnowsNew, Single
  <2>2. DoneIsThere(Idle, imported, removed) /\ ComesBehind(Idle, imported)
    BY <1>2, <1>3 DEF DoneIsThere, ComesBehind
  <2> QED
    BY <2>1, <2>2 DEF ImportIsSound
<1>11. Idle.added = Cardinality(OwnRows(Idle, imported))
  <2>1. OwnRows(Idle, imported) = {}
    BY <1>3 DEF OwnRows
  <2> QED
    BY <1>2, <2>1, FS_EmptySet
<1> QED
  BY <1>4, <1>6, <1>7, <1>8, <1>9, <1>10, <1>11 DEF ImportInv

LEMMA ImportStutters == ImportInv /\ UNCHANGED importVars => ImportInv'
<1> SUFFICES ASSUME ImportInv, UNCHANGED importVars PROVE ImportInv'
  OBVIOUS
<1>1. UNCHANGED <<imported, import, imports, importFaults, removed>>
  BY DEF importVars
<1>2. ImportTyped' /\ RunsAreNumbered' /\ SortsBounded'
  BY <1>1 DEF ImportInv, ImportTyped, RunsAreNumbered, SortsBounded
<1> QED
  BY <1>1, <1>2 DEF ImportInv

LEMMA ImportInvStep == ImportInv /\ [ImportNext]_importVars => ImportInv'
<1> SUFFICES ASSUME ImportInv, [ImportNext]_importVars PROVE ImportInv'
  OBVIOUS
<1>1. ASSUME NEW i \in Importer,
             \/ \E url \in Url : ImportUrl(i, url)
             \/ \E content \in SeqOf(FileLine, MaxFileLines) : ImportFile(i, content)
             \/ NoFile(i)
      PROVE  ImportInv'
  BY <1>1, BeginningsKeep
<1>2. ASSUME NEW i \in Importer, TakeSort(i) \/ ReadLine(i) \/ CheckUrl(i)
      PROVE  ImportInv'
  BY <1>2, TakeSortKeeps, ReadLineKeeps, CheckUrlKeeps
<1>3. ASSUME NEW i \in Importer, InsertRow(i) \/ InsertFails(i) \/ EndFile(i)
      PROVE  ImportInv'
  BY <1>3, InsertRowKeeps, InsertFailsKeeps, EndFileKeeps
<1>4. ASSUME NEW n \in DOMAIN imported, DeleteRow(n) PROVE ImportInv'
  BY <1>4, DeleteKeeps
<1>5. CASE UNCHANGED importVars
  BY <1>5, ImportStutters
<1> QED
  BY <1>1, <1>2, <1>3, <1>4, <1>5 DEF ImportNext

LEMMA ImportInvAlways == ImportSpec => []ImportInv
BY ImportInitially, ImportInvStep, PTL DEF ImportSpec

\* Type correctness of the table and of the imports; with it a bound on the sort values.
THEOREM ImportTypeCorrect == ImportSpec => []ImportTypeOK
<1>1. ImportInv => ImportTypeOK
  <2> SUFFICES ASSUME ImportInv PROVE ImportTypeOK
    OBVIOUS
  <2>1. /\ DOMAIN imported = 1 .. Len(imported) /\ imports \in 0 .. MaxImports
        /\ \A n \in 1 .. Len(imported) : imported[n] \in RowRecord
    BY DEF ImportInv, ImportTyped
  <2>2. ASSUME NEW n \in DOMAIN imported
        PROVE  /\ imported[n].url \in Url \ {NoUrl}
               /\ imported[n].sort \in 10 .. 10 * (MaxImports * MaxFileLines + 1)
    <3>1. imported[n].url \in ValidUrl
      BY <2>1 DEF RowRecord
    <3>2. imported[n].url \in Url \ {NoUrl}
      BY <3>1 DEF ValidUrl, NoUrl
    <3>3. PICK A \in SUBSET ((1 .. imports) \X (1 .. MaxFileLines)) :
                 Budget(A, imported, import, imports)
      BY DEF ImportInv, SortsBounded
    <3>4. imported[n].sort \in 10 .. 10 * Cardinality(A)
      BY <2>1, <3>3 DEF Budget
    <3> DEFINE all == MaxImports * MaxFileLines
    <3>5. Cardinality(A) \in Nat /\ Cardinality(A) <= all
      BY <2>1, <3>3, BudgetIsFinite
    <3>6. all \in Nat
      BY ImportAssumption
    <3> HIDE DEF all
    <3>7. imported[n].sort \in 10 .. 10 * (all + 1)
      BY <3>4, <3>5, <3>6
    <3> QED
      BY <3>2, <3>7 DEF all
  <2>3. ASSUME NEW i \in Importer
        PROVE  /\ import[i].at \in {"off", "check", "sort", "line", "insert"}
               /\ import[i].next \in 0 .. MaxFileLines + 1
               /\ import[i].result \in {"none", "true", "false"}
    <3>1. import[i] \in RunRecord /\ LinesCounted(import[i]) /\ Len(import[i].lines) \in Nat
      BY RunFacts DEF ImportIsSound
    <3>2. /\ import[i].next \in Nat /\ import[i].next <= Len(import[i].lines) + 1
          /\ Len(import[i].lines) <= MaxFileLines /\ MaxFileLines \in Nat
      BY <3>1, ImportAssumption DEF RunRecord, LinesCounted
    <3> QED
      BY <3>1, <3>2 DEF RunRecord
  <2> QED
    BY <2>1, <2>2, <2>3 DEF ImportTypeOK, ImportInv, ImportTyped
<1> QED
  BY <1>1, ImportInvAlways, PTL

\* An import that reports success has brought in what it was given, no URL comes in twice
\* and no row in front of the others but through an import at the same time or a read that
\* failed, and every line is counted once (importFromFile(), importSingleUrl()).
THEOREM ImportsAreTrueAlways == ImportSpec => []ImportsAreTrue
<1>1. ImportInv => ImportsAreTrue
  <2> SUFFICES ASSUME ImportInv PROVE ImportsAreTrue
    OBVIOUS
  <2>1. /\ DOMAIN imported = 1 .. Len(imported) /\ imported \in Seq(RowRecord)
        /\ \A n \in 1 .. Len(imported) : imported[n] \in RowRecord
    BY DEF ImportInv, ImportTyped
  <2>2. SuccessMeansPresent
    <3> SUFFICES ASSUME NEW i \in Importer, import[i].result = "true", NEW n \in DOMAIN import[i].lines
                 PROVE  /\ import[i].lines[n].url.valid
                        /\ isUrlExists(import[i].lines[n].url, imported)
                              \/ import[i].lines[n].url \in removed
      BY DEF SuccessMeansPresent
    <3>1. /\ LinesCounted(import[i]) /\ DoneIsThere(import[i], imported, removed)
          /\ n \in 1 .. Len(import[i].lines)
      BY RunFacts DEF ImportIsSound
    <3>2. import[i].failed = 0 /\ n < import[i].next
      BY <3>1 DEF LinesCounted
    <3> QED
      BY <3>1, <3>2 DEF DoneIsThere
  <2>3. AddedOnceInOrder
    BY <2>1 DEF ImportInv, RowsInOrder, AddedOnceInOrder
  <2>4. ImportsAccounted
    <3>1. \A n \in DOMAIN imported : imported[n].name # <<"">>
      BY <2>1 DEF RowRecord, RemarkName
    <3>2. ASSUME NEW i \in Importer
          PROVE  /\ import[i].result # "none" /\ import[i].next > 0 /\ import[i].file =>
                       import[i].added + import[i].skipped + import[i].failed = Len(import[i].lines)
                 /\ removed = {} =>
                       import[i].added = Cardinality({n \in DOMAIN imported :
                                                        imported[n].run = import[i].run})
      <4>1. LinesCounted(import[i]) /\ Len(import[i].lines) \in Nat
        BY RunFacts DEF ImportIsSound
      <4>2. import[i].result # "none" /\ import[i].next > 0 /\ import[i].file =>
               /\ import[i].added + import[i].skipped + import[i].failed = import[i].next - 1
               /\ import[i].next = Len(import[i].lines) + 1
        BY <4>1 DEF LinesCounted
      <4>3. (Len(import[i].lines) + 1) - 1 = Len(import[i].lines)
        BY <4>1
      <4>4. removed = {} => import[i].added = Cardinality(OwnRows(import[i], imported))
        BY DEF ImportInv
      <4>5. OwnRows(import[i], imported) = {n \in DOMAIN imported :
                                              imported[n].run = import[i].run}
        BY <2>1 DEF OwnRows
      <4> QED
        BY <4>2, <4>3, <4>4, <4>5
    <3> QED
      BY <3>1, <3>2 DEF ImportsAccounted
  <2> QED
    BY <2>2, <2>3, <2>4 DEF ImportsAreTrue
<1> QED
  BY <1>1, ImportInvAlways, PTL

-----------------------------------------------------------------------------
(* What the runs check of the components together.                          *)

\* Each job of the composition behaves as it does alone: what is proved of a job holds of
\* every behaviour that the runs explore, whichever job it is that moves.
THEOREM BackgroundRunsEachJob ==
    BackgroundSpec => /\ TaskSpec /\ SubSpec /\ StoreSpec /\ PoolSpec /\ CallSpec
                      /\ EncodingSpec /\ LinkSpec /\ ImportSpec /\ HistorySpec
<1>1. BackgroundInit => /\ TaskInit /\ SubInit /\ StoreInit /\ PoolInit /\ CallInit
                        /\ EncodingInit /\ LinkInit /\ ImportInit /\ HistoryInit
  BY DEF BackgroundInit, Start
<1>2. [BackgroundNext]_backgroundVars =>
         /\ [TaskNext]_taskVars /\ [SubNext]_subVars /\ [StoreNext]_storeVars
         /\ [PoolNext]_poolVars /\ [CallNext]_callVars /\ [EncodingNext]_encodingVars
         /\ [LinkNext]_linkVars /\ [ImportNext]_importVars /\ [HistoryNext]_historyVars
  <2>1. CASE BackgroundNext
    BY <2>1, Zenon DEF BackgroundNext
  <2>2. CASE UNCHANGED backgroundVars
    BY <2>2 DEF backgroundVars
  <2> QED
    BY <2>1, <2>2
<1> QED
  BY <1>1, <1>2, PTL DEF BackgroundSpec, TaskSpec, SubSpec, StoreSpec, PoolSpec, CallSpec,
                         EncodingSpec, LinkSpec, ImportSpec, HistorySpec

\* What the tables say is true: what deduplication and copy leave in them, and what the
\* row of a proxy says of its tests and sessions (Deduplicator::deduplicate(),
\* syncDatabases(), ProfileExItemDAO, ProxyRuntimeHistoryDAO).
THEOREM TablesAreTrueAlways == HistorySpec /\ StoreSpec => []TablesAreTrue
<1>1. HistoryIsTrue /\ StoreKeepsPromises => TablesAreTrue
  BY DEF TablesAreTrue
<1> QED
  BY <1>1, HistoryIsTrueAlways, StoreKeepsPromisesAlways, PTL

\* What is promised of subscriptions: one that is enabled is tried until it answers, and
\* an import brings in what it reports, once and in order (SubitemUpdaterV2::run(),
\* Importer::importFromFile(), importSingleUrl()).
THEOREM SubscriptionsAreTrueAlways == SubSpec /\ ImportSpec => []SubscriptionsAreTrue
<1>1. TriedUntilVerdict /\ ImportsAreTrue => SubscriptionsAreTrue
  BY DEF SubscriptionsAreTrue
<1> QED
  BY <1>1, TriedUntilVerdictAlways, ImportsAreTrueAlways, PTL

\* Type correctness of the nine jobs side by side.
THEOREM BackgroundTypeCorrect == BackgroundSpec => []BackgroundTypeOK
<1>1. TaskTypeOK /\ SubTypeOK /\ StoreTypeOK /\ PoolTypeOK /\ CallTypeOK /\ EncodingTypeOK
      /\ LinkTypeOK /\ ImportTypeOK /\ HistoryTypeOK => BackgroundTypeOK
  BY DEF BackgroundTypeOK
<1> QED
  BY <1>1, BackgroundRunsEachJob, TaskTypeCorrect, SubTypeCorrect, StoreTypeCorrect,
     PoolTypeCorrect, CallTypeCorrect, EncodingTypeCorrect, LinkTypeCorrect,
     ImportTypeCorrect, HistoryTypeCorrect, PTL

=============================================================================
