---------------------------- MODULE MCBackground ----------------------------
(***************************************************************************)
(* The jobs behind the window and the command line, checked side by side:  *)
(* the auto task, the subscription update, the two programs that rewrite   *)
(* the profile tables, the proxy pool, the calls that put an outbound into *)
(* an instance, what such a call carries, the links that proxies come as,  *)
(* the import of subscriptions, and the row that remembers a proxy's tests *)
(* and sessions.  In each behaviour one of them moves, on an instance of   *)
(* its own (focus).                                                        *)
(***************************************************************************)
EXTENDS AutoTask, SubscriptionUpdate, ProfileStore, MemberPool, ControlCall, OutboundEncoding,
        ShareLinks, SubscriptionImport, TestHistory

CONSTANTS t1, t2, u1, u2, s1, s2, p1, p2, o1, o2, i1, i2

VARIABLE focus

backgroundVars == <<taskVars, subVars, storeVars, poolVars, callVars, encodingVars,
                    linkVars, importVars, historyVars, focus>>

\* Two processes on one task, or one on two tasks; one updater of two subscriptions,
\* or two of one that the user edits; the tables; a pool with two members, with one that
\* the window probes too, or with one and a request that is given up; one caller and
\* one instance; one profile; one link, or a subscription; two importers, one of them
\* the window; a batch of one or two sub-batches and a reporter, or a batch with one
\* failure, a reporter of valid and failed tests, and a session with two watchers.
Focus == {"shared", "long", "update", "editors", "store", "members", "probes",
          "strays", "calls", "encoding", "links", "import", "streak", "session"}

Quiet == [on |-> FALSE, remark |-> [marks |-> 0, name |-> "a"], due |-> FALSE]

\* What SubInit and StoreInit leave open is settled for the components that do not
\* move, and narrowed for the others: the tables start from every combination that
\* one of the store's steps tells apart, not from every combination.
SubChoice ==
    CASE focus = "update" -> TRUE
      [] focus = "editors" ->
            /\ subItem \in [Sub -> [on : BOOLEAN, remark : [marks : {0, 1}, name : Names],
                                    due : BOOLEAN]]
            /\ subItem[s2] = Quiet
            /\ config = [methods |-> <<"accelerator", "direct">>, relay |-> TRUE]
      [] OTHER ->
            /\ subItem = [s \in Sub |-> Quiet]
            /\ config = [methods |-> <<>>, relay |-> FALSE]

StoreChoice ==
    IF focus = "store"
    THEN /\ items \in {f \in [Index -> [sub : SubId \ {"blacklist"}, kind : Kind]] :
                          /\ f[1].sub # "unknown" /\ f[1].kind = "tls"
                          /\ f[2].sub # "fallback" /\ f[2].kind # "tls"}
         /\ storeConfig \in {[subids |-> <<>>, blacklist |-> TRUE, skip |-> FALSE],
                             [subids |-> <<"protected">>, blacklist |-> FALSE, skip |-> FALSE],
                             [subids |-> <<"protected", "fallback">>, blacklist |-> FALSE,
                              skip |-> TRUE]}
         /\ subs # SubId \ {"unknown"} => Len(storeConfig.subids) = 2
    ELSE /\ items = [i \in Index |-> [sub |-> "other", kind |-> "plain"]]
         /\ ex = <<>>
         /\ storeConfig = [subids |-> <<>>, blacklist |-> FALSE, skip |-> FALSE]
         /\ subs = SubId \ {"unknown"}

StoreSubs == subs \in {SubId \ {"unknown"}, {"fallback", "blacklist", "other"}}

CallChoice == focus # "calls" => injection.who = "pool"

\* At most one column is empty, or both that switch unverified certificates off; with a
\* cipher, which goes into the account, at most the password.  One profile for the others.
Wanting == {{}, {"cert", "certsha"}} \cup {{column} : column \in Optional}

EncodingChoice ==
    IF focus = "encoding"
    THEN /\ subject \in [type : Protocol, network : Network, streamsecurity : TlsKind,
                         security : Cipher, empty : Wanting]
         /\ subject.security = "" \/ subject.empty \in {{}, {"id"}}
    ELSE subject = [type |-> "vless", network |-> "tcp", streamsecurity |-> "", security |-> "",
                    empty |-> {}]

LinkChoice ==
    focus # "links" =>
        /\ shared = NoProxy /\ wrapped = FALSE
        /\ lines = <<Link("none", <<>>, <<>>)>>

\* Where no history moves, one of its initial states will do.
HistoryChoice ==
    /\ focus # "streak" => batch.results = <<"failed">> /\ table.row.exists
    /\ focus = "streak" => batch.results[1] # "other" /\ Len(batch.results) \in {2, 3}

Start(foci) ==
    /\ focus \in foci
    /\ TaskInit /\ PoolInit
    /\ CallInit /\ CallChoice
    /\ EncodingChoice /\ EncodingInit
    /\ LinkChoice /\ LinkInit /\ ImportInit
    /\ HistoryInit /\ HistoryChoice
    /\ SubChoice /\ SubInit
    /\ StoreSubs /\ StoreChoice /\ StoreInit

BackgroundInit == Start(Focus)

Alone(u) == update'[u].at = "off" /\ updateResult'[u] = "none"

\* A second import has the URLs of a file; no fault once the user deletes.
FewImports ==
    /\ removed' = {} \/ importFaults' = 0
    /\ imports' > 1 => \A i \in Importer :
          ToSet(import'[i].lines) \subseteq {[l EXCEPT !.remark = r] : l \in FileLine, r \in BOOLEAN}

\* A copy does not look at kinds, nor at which failure the last test was.
FewCopies ==
    job'.kind = "copy" => /\ items[2].kind = "plain"
                          /\ \A i \in Present(ex) : ex[i] # "hopeless"

BackgroundNext ==
    /\ UNCHANGED focus
    /\ \/ /\ \/ focus = "shared" /\ TaskNext /\ tasks' <= 1
             \/ focus = "long" /\ TaskNext /\ tpc'[t2] = "off"
          /\ UNCHANGED <<subVars, storeVars, poolVars, callVars, encodingVars, linkVars,
                         importVars, historyVars>>
       \/ /\ \/ focus = "update" /\ SubNext /\ Alone(u2) /\ edits' = 0
             \/ focus = "editors" /\ SubNext /\ subItem'[s2] = Quiet
          /\ UNCHANGED <<taskVars, storeVars, poolVars, callVars, encodingVars, linkVars,
                         importVars, historyVars>>
       \/ /\ focus = "store" /\ StoreNext /\ FewCopies
          /\ UNCHANGED <<taskVars, subVars, poolVars, callVars, encodingVars, linkVars,
                         importVars, historyVars>>
       \/ /\ \/ focus = "members" /\ PoolNext /\ poolUi'.at # "probing" /\ losses' = 0
             \/ /\ focus = "strays" /\ PoolNext /\ poolUi'.at # "probing"
                /\ poolUi'.proxy # p2
             \/ focus = "probes" /\ PoolNext /\ poolUi'.proxy # p2 /\ losses' = 0
          /\ UNCHANGED <<taskVars, subVars, storeVars, callVars, encodingVars, linkVars,
                         importVars, historyVars>>
       \/ /\ focus = "calls" /\ CallNext
          /\ UNCHANGED <<taskVars, subVars, storeVars, poolVars, encodingVars, linkVars,
                         importVars, historyVars>>
       \/ /\ focus = "encoding" /\ EncodingNext
          /\ UNCHANGED <<taskVars, subVars, storeVars, poolVars, callVars, linkVars,
                         importVars, historyVars>>
       \/ /\ focus = "links" /\ LinkNext
          /\ UNCHANGED <<taskVars, subVars, storeVars, poolVars, callVars, encodingVars,
                         importVars, historyVars>>
       \/ /\ focus = "import" /\ ImportNext /\ FewImports
          /\ UNCHANGED <<taskVars, subVars, storeVars, poolVars, callVars, encodingVars,
                         linkVars, historyVars>>
       \/ /\ \/ focus = "streak" /\ HistoryNext /\ UNCHANGED launch
             \/ /\ focus = "session" /\ HistoryNext
                /\ \A r \in Reporter : report'[r].what \in {"valid", "failed"}
          /\ UNCHANGED <<taskVars, subVars, storeVars, poolVars, callVars, encodingVars,
                         linkVars, importVars>>

BackgroundSpec ==
    BackgroundInit /\ [][BackgroundNext]_backgroundVars /\ PoolFairness

\* The pool alone
PoolSafety ==
    Start({"members"}) /\ [][BackgroundNext]_backgroundVars

BackgroundTypeOK == TaskTypeOK /\ SubTypeOK /\ StoreTypeOK /\ PoolTypeOK
                    /\ CallTypeOK /\ EncodingTypeOK /\ LinkTypeOK /\ ImportTypeOK
                    /\ HistoryTypeOK

\* A subscription that is enabled is tried until it answers, and an import brings in
\* what it reports, once and in order (SubscriptionUpdate, SubscriptionImport).
SubscriptionsAreTrue == TriedUntilVerdict /\ ImportsAreTrue

\* The tables of the proxies: what deduplication and copy leave in them, and what the
\* row of a proxy says of its tests and sessions (ProfileStore, TestHistory).
TablesAreTrue == StoreKeepsPromises /\ HistoryIsTrue

=============================================================================
