------------------------- MODULE SubscriptionImport -------------------------
(***************************************************************************)
(* How subscriptions get into the table (src/src/update/Importer.cpp): a   *)
(* single URL from the window or the command line, or a file with a URL    *)
(* and a remark on each line.  The window and the command line are         *)
(* processes of their own; the table has no unique index on the URL, and   *)
(* nothing holds the check, the sort value and the insert together.        *)
(***************************************************************************)
EXTENDS Naturals, Sequences, FiniteSets, SequencesExt, FiniteSetsExt

CONSTANTS
    Importer,         \* processes that import
    Window,           \* the one that is the window: it imports single URLs
    Stem,             \* what a segment of a path is without its extension; "": nothing
    MaxFileLines,     \* bound: lines of a file
    MaxImports,       \* bound: imports started
    MaxImportFaults,  \* bound: statements that fail
    MaxDeletes        \* bound: URLs that the user deletes

ASSUME ImportAssumption ==
    /\ Window \in Importer
    /\ MaxFileLines \in Nat \ {0}
    /\ {MaxImports, MaxImportFaults, MaxDeletes} \subseteq Nat

VARIABLES
    imported,     \* the table SubItem, in the order of the inserts
    import,       \* what each importer is doing
    imports,      \* number of imports started
    importFaults, \* statements that have failed
    removed       \* the URLs that the user has deleted

importVars == <<imported, import, imports, importFaults, removed>>

\* A URL: whether utils::isValidUrlFormat() finds a scheme and a domain, and the
\* segments behind the first slash; <<>> without one.
NoUrl == [valid |-> FALSE, path |-> <<>>]
Url == {NoUrl} \cup [valid : {TRUE}, path : SeqOf(Stem, 2)]

\* A line: its URL, and whether a remark follows; empty lines are left out.  A file
\* has URLs with one segment, which name themselves, or none, and then a remark.
FileLine == {[url |-> u, remark |-> u.path = <<>>] :
                u \in {v \in Url : Len(v.path) < 2 /\ v.path # <<"">>}}

Idle == [at |-> "off", run |-> 0, after |-> {}, file |-> FALSE, lines |-> <<>>, next |-> 0,
         sort |-> 0, blind |-> FALSE, added |-> 0, skipped |-> 0, failed |-> 0,
         result |-> "none"]

ImportTypeOK ==
    /\ \A n \in DOMAIN imported :
          /\ imported[n].url \in Url \ {NoUrl}
          /\ imported[n].sort \in 10 .. 10 * (MaxImports * MaxFileLines + 1)
    /\ \A i \in Importer :
          /\ import[i].at \in {"off", "check", "sort", "line", "insert"}
          /\ import[i].next \in 0 .. MaxFileLines + 1
          /\ import[i].result \in {"none", "true", "false"}
    /\ imports \in 0 .. MaxImports /\ importFaults \in 0 .. MaxImportFaults
    /\ removed \subseteq Url

ImportInit ==
    /\ imported = <<>> /\ import = [i \in Importer |-> Idle]
    /\ imports = 0 /\ importFaults = 0 /\ removed = {}

-----------------------------------------------------------------------------
(* What the importer computes.                                              *)

\* extractRemarksFromUrl(): the first segment, with the last when it is another one;
\* the domain when that leaves nothing.
extractRemarksFromUrl(url) ==
    IF url.path = <<>> THEN <<"imported">>
    ELSE LET first == url.path[1]
             last == Last(url.path)
         IN  IF last \notin {"", first} THEN <<first, "-", last>>
             ELSE IF first = "" THEN <<"domain">> ELSE <<first>>

\* getNextSortValue()
getNextSortValue(seen) == 10 + Max({0} \cup {seen[n].sort : n \in DOMAIN seen})

\* Mutant: the value stays that of the first row.
SameSort(sort) == sort

\* A row of a file sorts behind the one before it.
NextSort(sort) == sort + 10

isUrlExists(url, seen) == \E n \in DOMAIN seen : seen[n].url = url

-----------------------------------------------------------------------------
(* The steps of an import.                                                  *)

Become(i, r) == import' = [import EXCEPT ![i] = r]
Line(i) == import[i].lines[import[i].next]

\* A read sees the table, or fails and is taken for one of an empty table.
Reads(i, seen, blind) ==
    \/ seen = imported /\ blind = import[i].blind /\ UNCHANGED importFaults
    \/ /\ seen = <<>> /\ blind /\ importFaults < MaxImportFaults
       /\ importFaults' = importFaults + 1

StartImport(i, run) ==
    /\ import[i].at = "off" /\ imports < MaxImports
    /\ imports' = imports + 1
    /\ Become(i, [run EXCEPT !.run = imports + 1,
                             !.after = (1 .. imports) \ {import[j].run : j \in {k \in Importer :
                                                             import[k].at # "off"}}])
    /\ UNCHANGED <<imported, importFaults, removed>>

\* importSingleUrl()
ImportUrl(i, url) ==
    LET run == [Idle EXCEPT !.lines = <<[url |-> url, remark |-> FALSE]>>, !.next = 1]
    IN  IF url.valid THEN StartImport(i, [run EXCEPT !.at = "check"])
        ELSE StartImport(i, [run EXCEPT !.failed = 1, !.result = "false"])

\* importFromFile()
ImportFile(i, lines) ==
    /\ i # Window
    /\ StartImport(i, [Idle EXCEPT !.file = TRUE, !.lines = lines, !.next = 1, !.at = "sort"])

\* The file cannot be opened.
NoFile(i) ==
    /\ i # Window
    /\ StartImport(i, [Idle EXCEPT !.file = TRUE, !.result = "false"])

\* A file reads the sort value once, a single URL when it is known to be new.
TakeSort(i) ==
    /\ import[i].at = "sort"
    /\ \E seen \in {imported, <<>>}, blind \in BOOLEAN :
          /\ Reads(i, seen, blind)
          /\ Become(i, [import[i] EXCEPT !.sort = getNextSortValue(seen), !.blind = blind,
                                         !.at = IF @ = "sort" /\ import[i].file THEN "line"
                                                ELSE "insert"])
    /\ UNCHANGED <<imported, imports, removed>>

\* The next line is looked at.
ReadLine(i) ==
    /\ import[i].at = "line" /\ import[i].next <= Len(import[i].lines)
    /\ IF Line(i).url.valid
       THEN Become(i, [import[i] EXCEPT !.at = "check"])
       ELSE Become(i, [import[i] EXCEPT !.failed = @ + 1, !.next = @ + 1])
    /\ UNCHANGED <<imported, imports, importFaults, removed>>

\* isUrlExists() decides whether the line is skipped.
CheckUrl(i) ==
    /\ import[i].at = "check"
    /\ \E seen \in {imported, <<>>}, blind \in BOOLEAN :
          /\ Reads(i, seen, blind)
          /\ Become(i,
               IF isUrlExists(Line(i).url, seen)
               THEN [import[i] EXCEPT !.blind = blind, !.skipped = @ + 1, !.next = @ + 1,
                                      !.at = IF import[i].file THEN "line" ELSE "off",
                                      !.result = IF import[i].file THEN @ ELSE "true"]
               ELSE [import[i] EXCEPT !.blind = blind,
                                      !.at = IF import[i].file THEN "insert" ELSE "sort"])
    /\ UNCHANGED <<imported, imports, removed>>

\* After the insert a file goes on with the next line, a single URL is done.
Inserted(i, run, ok) ==
    IF run.file THEN [run EXCEPT !.at = "line", !.next = @ + 1]
    ELSE [run EXCEPT !.at = "off", !.next = @ + 1, !.result = IF ok THEN "true" ELSE "false"]

\* insertSubItem()
InsertRow(i) ==
    /\ import[i].at = "insert"
    /\ imported' = Append(imported,
           [url |-> Line(i).url,
            name |-> IF Line(i).remark THEN <<"given">> ELSE extractRemarksFromUrl(Line(i).url),
            sort |-> import[i].sort, run |-> import[i].run, after |-> import[i].after,
            blind |-> import[i].blind])
    /\ Become(i, Inserted(i, [import[i] EXCEPT !.added = @ + 1, !.sort = NextSort(@)], TRUE))
    /\ UNCHANGED <<imports, importFaults, removed>>

InsertFails(i) ==
    /\ import[i].at = "insert" /\ importFaults < MaxImportFaults
    /\ importFaults' = importFaults + 1
    /\ Become(i, Inserted(i, [import[i] EXCEPT !.failed = @ + 1], FALSE))
    /\ UNCHANGED <<imported, imports, removed>>

\* The end of the file
EndFile(i) ==
    /\ import[i].at = "line" /\ import[i].next > Len(import[i].lines)
    /\ Become(i, [import[i] EXCEPT !.at = "off",
                                   !.result = IF import[i].failed = 0 THEN "true" ELSE "false"])
    /\ UNCHANGED <<imported, imports, importFaults, removed>>

\* deleteSubscription(): its row; the window does one thing at a time.
DeleteRow(n) ==
    /\ import[Window].at = "off" /\ Cardinality(removed) < MaxDeletes
    /\ imported' = RemoveAt(imported, n)
    /\ removed' = removed \cup {imported[n].url}
    /\ UNCHANGED <<import, imports, importFaults>>

ImportNext ==
    \/ \E i \in Importer :
          \/ \E url \in Url : ImportUrl(i, url)
          \/ \E lines \in SeqOf(FileLine, MaxFileLines) : ImportFile(i, lines)
          \/ NoFile(i) \/ TakeSort(i) \/ ReadLine(i) \/ CheckUrl(i)
          \/ InsertRow(i) \/ InsertFails(i) \/ EndFile(i)
    \/ \E n \in DOMAIN imported : DeleteRow(n)

ImportSpec == ImportInit /\ [][ImportNext]_importVars

-----------------------------------------------------------------------------
(* What an import promises.                                                 *)

\* An import that reports success has brought every URL it was given into the table,
\* or found it there: it is still there unless the user has deleted it
\* (Importer::importFromFile, importSingleUrl).
SuccessMeansPresent ==
    \A i \in Importer :
       import[i].result = "true" =>
          \A n \in DOMAIN import[i].lines :
             /\ import[i].lines[n].url.valid
             /\ isUrlExists(import[i].lines[n].url, imported)
                   \/ import[i].lines[n].url \in removed

\* Nothing but an import at the same time, or a read that failed, brings a URL into
\* the table twice, or a row in front of those that were there (Importer::isUrlExists,
\* getNextSortValue): imports one after the other, and the lines of one file, do not.
AddedOnceInOrder ==
    \A m, n \in DOMAIN imported :
       (/\ m < n /\ ~imported[n].blind
        /\ imported[m].run \in imported[n].after \cup {imported[n].run}) =>
          /\ imported[m].url # imported[n].url
          /\ imported[m].sort < imported[n].sort

\* Every line is counted once, what was counted as added was added (importFromFile, the
\* summary), and no row is without a name (extractRemarksFromUrl).
ImportsAccounted ==
    /\ \A n \in DOMAIN imported : imported[n].name # <<"">>
    /\ \A i \in Importer :
          LET run == import[i]
              own == {n \in DOMAIN imported : imported[n].run = run.run}
          IN  /\ run.result # "none" /\ run.next > 0 /\ run.file =>
                    run.added + run.skipped + run.failed = Len(run.lines)
              /\ removed = {} => run.added = Cardinality(own)

ImportsAreTrue == SuccessMeansPresent /\ AddedOnceInOrder /\ ImportsAccounted

=============================================================================
