# Verification of multiple_thread_validproxy

`multiple_thread_validproxy` keeps a SQLite database of proxy profiles and tests
them in parallel: every worker thread owns one Xray process, injects one profile
at a time into it over gRPC, measures the connection through it and hands the
verdict to a queue that writes it back to the database. Around this engine the
program starts long-lived "standalone" proxies, updates subscriptions, runs a
resumable pipeline of maintenance tasks, and watches the network; a wxWidgets
window and a command line drive the same classes.

This directory holds TLA+ modules of the parts that carry the program's own
control, TLC configurations that check them on small instances, and proofs that
TLAPS checks for every value of the constants. `PROJECT.json` maps each
definition to the lines it models and lists runs, mutants, hazards and theorems.

## 1. Inventory

| Component | State it keeps | Operations | Shared with | Hard behaviour |
|---|---|---|---|---|
| **Batch test engine** `ProxyBatchTester` | profile queue, atomic counters, `cancelRequested_`, `batchStopReported_`, per-worker `instanceDead`/`relaunchDecision` | `run*`, worker loop, `waitForNetworkRecovery`, `waitInterruptible`, `requestBatchCancellation`, join | XrayManager, XrayApi, NetworkMonitor, TestResultQueue, the caller's cancel flag | workers racing for profiles; a dying or hung Xray in the middle of an injection; an outage that must stop the batch and not single workers; every early `return` that drops a profile |
| **Worker policy** `BatchWorkerPolicy` | none | `decideInstanceDead`, `shouldReportEndpointUnreachable` | batch engine | "throttled" must never be read as "failed" |
| **Control client** `XrayApi` | connect-failure counter, `lastError_`, two hooks | add/remove outbound, `grpcConnect` | one per worker | hooks that run in the middle of a call and replace the instance under it |
| **Xray pool** `XrayManager` | list of instances, per-port throttle | `start`, `stopAll`, `evaluateInstanceHealth[ThrottledEx]` | batch engine, probe pool, finder, Ctrl+C | process start outside the lock while ports must stay reserved |
| **Port reservations** `PortManager` | set of reserved ports | `findAvailable`, `freePort`, `clearPorts` | pool, probe pool, standalone proxies | reserve before listen; release by a party that is not the owner |
| **Result queue** `TestResultQueue` | buffer, `running_`, flush thread | `start`, `enqueue`, `flushLoop`, `flushWithRetry`, `stop` | workers, `ProfileExItemDAO` | flush during shutdown; whole-batch retry after a partial commit |
| **Result persistence** `ProfileExItemDAO` | the row of each proxy | `updateTestResultBatch` in sub-batches, `updateTestResult`, `updateStartupTime` | the shared SQLite connection | nested transactions, rollback on each error path; a row is read, then written back as a whole, by several threads |
| **Runtime history** `ProxyRuntimeHistoryDAO` | detail rows and aggregate | `insertStart`, `finalizeStop`, heartbeat | same connection | a transaction belongs to the connection, not to the thread |
| **Auto task** `AutoTaskManager` | step list, index, flags, state file | `run`, `resume`, `runSteps`, `cancel`, `-cancel-task` | all update/test components, another process through the file | crash between two saves, cancel against the end of a step, two processes on one file |
| **Operation control** `AppController`, `AsyncOperationGuard` | running operation, `cancelRequested_`, the database handle and the retired ones | start/cancel operations, silent and manual probe, deduplication, save, switch database, close | everything the window can start | one flag and one handle shared by threads that start and end at any time |
| **Standalone proxies** `AppController`, `ProcessExitListener`, `ProcessInspector` | entries, watchers, open history rows, `adoptInFlight` | start, stop, exit watcher and takeover, adoption sweep, detection of the port | history DAO, other programs | exit against stop; adoption of a process that survived; facts that age |
| **Standalone pool** `StandaloneProxyPool`, `ProxyProbePool` | members with states, resident workers | inject, evaluate, two-phase removal, probe | XrayManager, PortManager | the record of a member and its outbound change in separate steps |
| **Network monitor** `NetworkMonitor` | connected flag, check thread | start, stop, vote over URLs | batch engine, finder, resolver, auto task | flapping |
| **Subscription update** `SubitemUpdaterV2` | phase lists, verdicts, markers in remarks | run, runSingle, sync | profile tables, another process | a list rebuilt in each phase; cancellation |
| **Import, parser** `Importer`, `SubscriptionParser` | counters | import of a URL or a file, parse | SubItem table, another process | check then insert; several rounds of decoding |
| **Deduplicator** | none | seven phases in one transaction | profile tables | failing phases |
| **Proxy finder**, **Region resolver** | instances, last result; buffer, queue | find first / best; resolve | XrayManager, NetworkMonitor, HTTP | several candidates on one instance; a buffer flushed by several threads |
| **Templates** `TemplateDecomposer`, `ComponentBundleDAO`, `ConfigDialog` | templates, bundles, chains, versions | decompose, rebuild, sync, edit | window and command line | row after row without a transaction |
| **Outbounds** `OutboundBuilder*`, `XrayApi` encoder | none | JSON and protobuf of a profile | every injection | two encodings of one thing |
| **Share links** `share/*` | none | build a link per type | parser | escapes and separators |
| Widgets, list models, logger, SQL helpers | - | layout, wording | - | not state machines |

How they interact: the caller (window, CLI or auto task) creates a
`ProxyBatchTester` with a pointer to its cancel flag. The tester creates an
`XrayManager`, which reserves ports with the process-wide `PortManager` and
starts one Xray per worker. Workers pop the shared queue under `queueMutex_`,
call their own `XrayApi` (whose hooks call back into `XrayManager` for a health
evaluation and into the worker's `instanceDead` flag), and `enqueue` results. The
flush thread of `TestResultQueue` calls `ProfileExItemDAO`, on the same SQLite
connection on which the window and the process watchers write the runtime
history.

What makes each correct:

* engine - no profile tested twice, dropped or half counted; a batch that ends by
  itself has settled everything; a worker leaves only for a reason the code
  names; a measurement is of the worker's own outbound; the batch always ends;
* result queue - nothing lost between buffer, batch and verdict; `stop()` leaves
  nothing pending; flushed means committed; no leaked transaction; `stop()` returns;
* history - detail row and aggregate commit together;
* pool and ports - one instance per port, reservations that match owners, no orphans;
* auto task - a resumed task repeats no completed step and skips none;
* operations - no thread finds its database handle closed, a cancel reaches the
  operation it was meant for, and what the window waits for comes;
* standalone proxies - one watcher and one open row per process, a session closed
  only when its process is dead, and then indeed closed; the right port;
* standalone pool - no outbound without a member, no worker lost, removals end;
* updates and imports - every subscription tried until a verdict, nothing enabled
  behind the user's back, imports that did what they report;
* store - no working proxy lost on the way, success means done;
* control calls, encodings, links - what is reported as injected is there, and a proxy
  is the same one whichever way it travels;
* templates - rewriting them changes no build, the mark "in sync" is true.

## 2. Plan

1. `BatchTester` implementing `BatchLedger` - the engine (checked and proved).
2. `ResultQueue` on `SharedConnection`, implementing `ResultDelivery` (checked and proved).
3. `XrayPool`: XrayManager and PortManager with their concurrent clients (checked and proved).
4. The running window: `Standalone`, `PortAdoption`, `Operations`, `TemplateChain`,
   `NetworkJobs` (checked, composed in `MCDesktop`, proved in `Desktop_proofs` and
   `TemplateChain_proofs`).
5. The jobs of window and command line: `AutoTask`, `MemberPool`, `ControlCall`,
   `OutboundEncoding`, `ShareLinks` (checked; proved in `Jobs_proofs`, the last as far
   as section 5 says), `SubscriptionUpdate`, `SubscriptionImport`, `ProfileStore`,
   `TestHistory` (checked, proved in `Background_proofs`); composed in `MCBackground`.
6. Open: the other half of `LinksAreReadBack`.

## 3. The modules

### BatchTester (`ProxyBatchTester.cpp`, `BatchWorkerPolicy.h`, parts of `XrayApi`, `XrayManager`)

One run of `runInternal()` after the instances are up: `N` loaded profiles in the
queue, a finite set `Worker` of threads. `pc[w]` is the place of a worker in its
loop: loop head (`StopOnCancel`, `InstanceDead`, `LoopNetworkDown`, `LoopReady`),
`Pop`/`QueueEmpty` under `queueMutex_`, preparation (`PregenFail`, `ConfigError`,
`Checked`), injection (`InitialRemove`, the settle delay, `InjectOk`,
`InjectFails`, `ClearTag`, the back-off delay, `Judge`, one retry after a relaunch),
`TestDone`, `InjectionGivenUp`, `Exception`, and the bounded network wait
(`AwaitNetwork`, `NetworkPoll`, `NetworkBack`, `NetworkGivenUp`). Each return to
the loop head is one `Settle`: counters, result, and the next iteration's fresh
locals. Each call to XrayApi is atomic and includes the hooks that fire inside it
(`ConnectFails`), because the worker does nothing else meanwhile; what other
threads can see of it - the instance - is not shared between workers.

`inst[w]` is the instance on the worker's api port: up, hung, dead or gone, what it
holds under the tag `proxy` (own profile, another profile, the placeholder of a
fresh configuration, nothing), and whether the port's health cooldown is armed.
`Evaluate` is `evaluateInstanceHealthThrottledEx` from that angle.

Data left out: JSON configurations, latency and speed values, wording of errors
(`Error` keeps the classes the code distinguishes), which URL is tested.

`BatchLedger` is the promise without threads: profiles leave in order, each
settles at most once, one is lost only after the batch was told to stop.

### SharedConnection, ResultQueue (`TestResultQueue.h`, `ProfileExItemDAO.cpp`, `ProxyRuntimeHistory.cpp`)

`SharedConnection` is the SQLite connection: who opened the transaction, how many
writes of each row it sees (`live`) and how many are committed (`saved`), and the
calls of the history DAO as sessions of five steps. `ResultQueue` adds the buffer,
the flush thread, `stop()` and the callback with its sub-batches, each
SQL statement failing or succeeding at will. Since `stop()` joins the flush thread
before its own drain, at most one flush is in progress; the model keeps one flush
context, and the invariant `Threads` of the proof shows that the two callers
indeed never overlap. History variables (`acked`, `dropped`, `refusals`, `split`,
`shared`) record what properties speak about and are read by no guard.

`ResultDelivery` is the promise: each result handed over is delivered or written
off, once, and the queue closes only when nothing is pending.

### XrayPool (`XrayManager.cpp`, `PortManager.cpp`, parts of `XrayInstance`, `StandaloneProxyPool`, `AppController`, `main_cli`)

Four kinds of threads share the list `instances_` (`pool`) and the process-wide set
`usedPorts_` (`used`), each under its own mutex, while processes are started,
awaited and stopped under neither:

* the main thread starts a batch, a search or a subscription update (`StartCall`),
  goes through `start()` slot by slot - reuse an instance, or find two ports, spawn,
  wait, give up on the first failure - commits what it started, and ends the
  operation with as many calls of `stopAll()` as the code makes (`StopCalls`);
* batch workers have an unreachable instance replaced (`Report` to
  `RespawnNotReady`): taken out of the pool under the lock, stopped and restarted
  outside it on the same ports, put back;
* in the window, the standalone pool takes two ports of its own, relaunches its
  process on them, and frees them when it stops;
* in the command line program, Ctrl+C calls `stopAll()` at any time.

An Xray process (`proc`) is started, up (both its ports bound) or dead; it may die at
any time, and it dies at once when another process is bound to one of its ports.
`Owned(k)` says whose ports are whose: those a thread is launching on, and those
of an instance in the pool or just started.

Two variables record what the code loses track of, and are read by no guard. `torn`:
`stopAll()` ends with `clearPorts()`, which drops every reservation of the
process; the ports somebody else still owned are torn from then on until that
owner gives them up. `leaked`: when `start()` finds one of the two ports and not
the other (`XrayManager.cpp:136-142`) it leaves the one it found reserved.

Left open or out: the order of `instances_` (a set, and `seen` for the loop of
`start()`); which worker gets which instance; when the cooldown of a port is over;
the attempt limit of `findAvailable` and ports bound by other programs; the
two `freePort` calls of one clean-up are one step. The command line's own proxy
search is not modelled.
A call on the manager that `release()` has deleted has no effect beyond the one it
would have on the living one; the property `ManagerOutlivesTester` says it happens.

What the module brings out about the code, beside the two findings:

* `stopAll()` is not local. `ProxyBatchTester.cpp:53` calls the last one
  "without side-effects", and `AppController.h:324` has the standalone pool's ports
  "reserved via PortManager; freed on stop": in fact every end of a batch drops
  them, and `findAvailable` relies on the running process alone from then on. When
  the process of the standalone pool is down at that moment its ports can be
  handed out, and `relaunchIfNeeded` (`StandaloneProxyPool.cpp:289`) starts it on
  them again without asking; later `stopProxyPool` frees them by number, whoever
  reserved them since. `PortsExclusive` and `ReservationsAccounted` hold with the
  ports in `torn` excepted and not without.
* A relaunch that is overtaken by Ctrl+C puts its new instance into a pool that
  was already emptied. It is still stopped, by the calls of `stopAll()` that
  follow the join of the workers (`ShutdownIsClean`): a `stopAll()` after the join
  is needed although one has already run.

### AutoTask (`AutoTaskManager.cpp`, `main_cli.cpp`)

Processes `Proc` run or resume a task of `Steps` steps over one state file
`taskFile`; `tpc[p]` is the place in `runSteps()` (loop head, execute). Each save
writes the file in place: it may fail, and a kill may leave a torn file
(`KillTask`). `MarkRead`/`MarkWrite` are `-cancel-task`, which reads the file, marks
it and writes it back. `did`, `kept` and `contested` are history: what was really
done, what was saved as done, and the tasks on which two writers met. No guard reads
them. `RecordedWasDone` says that no state claims more than was done, and
`KeptIsNotRepeated` that a saved step is not executed again, except for contested
tasks and for the step whose completed mark the network check takes back.

What it brings out: the network check (`AutoTaskManager.cpp:135-144`) comes before the
look at the step's own status, so a task resumed at a completed step while the network
is down has the step marked cancelled and repeats it; "Cancel a running auto-task"
(`main_cli.cpp:118`) only edits the file, and the running process overwrites the mark;
a torn file loses the task; nothing locks the file between two processes.

### Standalone (`AppController.cpp`, `ProcessExitListener.cpp`, `ProxyRuntimeHistory.cpp`)

One proxy, processes `Pid` (states none, alive, dead), the entry of the window, the
watchers `watch[k]` (a thread each), sweeps as threads, and `rows[db]`, the open and
closed history rows. `StartProxy` to `Track` is `startStandaloneProxy()` with its
failure exits; `WatcherWaits` to `FinalizeSession` the thread of
`ProcessExitListener::watch()` with the takeover callback under `standaloneMutex_`;
`SweepBegins` to `SweepEnds` is `adoptDanglingStandaloneProxies()`, which checks
under the lock, releases it and writes afterwards; `StopProxy` to `JoinWatcher` is
`stopStandaloneProxy()`. Other programs may launch a process with the same file.

`AdoptedOnce` and `LiveSessionStaysOpen` are safety; `SessionsEnd` says that a session
whose process died is closed and that a stop comes to its end. Each has exceptions
named in the formula, for things the code really does: a session is not closed when
its watcher has taken over another process (the old row stays open,
`ProcessExitListener.cpp:162`, against the contract in `ProcessExitListener.h:31-34`), and not when
the stop closed the handle (`AppController.cpp:2708`) before the watcher was back
in its wait: the wait on a closed handle fails and the thread ends ("lost").

Further observations: after a takeover the entry is marked as not running and
keeps the old key, so a stop refuses it; a process launched and left unmanaged is
recorded by the next bypass sweep without a watcher; entries stay after exit and
stop, so that an external process of the same proxy is skipped; watchers that survive
`switchDatabase` write old row numbers to the new database; a stop counts a crash for
exit code 259 only; the heartbeat interval is passed the baseline
(`watch()` takes it as its twelfth argument); `shutdownStandaloneProxies` has no caller.

### PortAdoption (`StandaloneAdoptionPolicy.h`, `ProcessInspector.cpp`, `AppController.cpp`)

How a sweep (full or bypass) and a takeover find the port of one process. `process`
says what it really is: its instance (`born`; ids are reused), its address family,
its listening ports, the one that speaks SOCKS5, whether they are open yet, and how its
command line names the file. `look` is what the detection has seen: the instance
enumerated, the tables read, the candidates and the verdict. The policy functions are
operators under the code's names.

`HealthyIsAdopted`, `ServingPortIsFound` and `SilentProcess` relate the two.
`HealthyIsAdopted` supposes that both address families were read: the code takes
"readable" as one of them, and when the other holds the proxy's port, all candidates
are disproven and a healthy proxy is discarded. An unverified recorded port on which
the process listens (its http inbound) beats the verified one. A takeover takes any
xray whose command line cannot be read (`AppController.cpp:1319-1326`). After the
identity gate nothing is checked again, so an id reused in between is adopted. Left
out: the comparison with the record that only writes log lines (it compares a
numeric type with a name, so it always reports a difference) and the fingerprints that limit repeated log lines.

### Operations (`AppController.cpp`, `AsyncOperationGuard.h`, `DatabaseSwitchPolicy.h`, `MainFrame.cpp`)

The operation on the worker thread, the silent probe, deduplications that nobody
counts, the window's thread. `conns` are the connections ever opened, `handle` the
current one, `retired` those still held by somebody. `window` is the place of the
window's thread in saving the configuration, quiescing, switching and closing.

`HandlesInUse`: nobody works on a closed connection. The one exception, `late`, is
real: the decision to switch is made (`MainFrame.cpp:1188`) before the save; the message box
of a failed save pumps the timer, a silent probe starts, and the switch closes the
handle under it. `RequestsAreMet`: a cancelled operation ends and every wait of the window ends.
Also seen: a detached deduplication is not counted by `isRunning`; after a failed switch the
window keeps the new path; the "bounded" join of the destructor (106-129) waits in
the destructor of the `std::async` future; some menu commands set the operation's
state without asking whether one runs.

### TemplateChain (`TemplateDecomposer.cpp`, `BundleChainResolver.cpp`, `ComponentBundleDAO.cpp`, `FullConfigTemplateDAO.cpp`, `ConfigDialog.cpp`)

`templates` (configuration, chain, recorded versions), `bundles` (components and
version). A command of the window or the command line is a set of writes in
`command.work`, executed one per step, kind after kind (`Rank`); any write may fail and the
program may end between two. `BuildsSurvive` says that what a template builds is the same before,
during and after a command; `SyncMarkIsTrue` that a template shown as in sync is.

`BuildsSurvive` leaves out what `-SM` does to a template whose chain has a bundle of
`-DC`: in the window such a bundle can be put into a chain, the next `-DC` overwrites it
with the template as it is by then, version 1 as before, and `-SM` takes that over. It takes
two edits and three commands, more than the run's bound, and came out of the attempt to
prove the property without the exception.

The exceptions of `SyncMarkIsTrue` (`disturbed`, bundles that `-DC` overwrites) are
what the code gives no more for: `isTemplateInSync` compares versions only, and
`updateVersion` (`ComponentBundleDAO.cpp:399`) is never called. Also: saving a bundle under
a new id leaves the old row; a bundle created again under an old id empties the
templates that name it, against the comment at `ConfigDialog.cpp:1571`; `-RB` keeps
the first component of each kind and role only; with `-SM` a failing load is dereferenced.
Left out: a second core; the staleness of the dialog's copies; scalar sections.

### NetworkJobs (`ProxyFinder.cpp`, `RegionBatchResolver.cpp`, `NetworkMonitor.cpp`)

The monitor's vote, a search (first working, or fastest) that takes the instances in
turn (`carries[i]` is the proxy in instance `i`), and a lookup by threads `Resolver`
over a queue, with the shared `buffer` and what each thread has taken out of it
(`batches`). `FoundWorks`: the ports a search returns lead to the proxy it names.
`RegionsAccounted`: a region found is in one place until it is written or lost to a
failed write. Also seen: the best search can remember a success and return no ports
when the second injection fails; a region whose transaction failed is counted and logged as
written; a `cancel()` before `run()` is lost; a round of votes broken off by a stop
counts with fewer ballots, and a tie is down.

### SubscriptionUpdate (`SubitemUpdaterV2.cpp`)

`update[u]` is one run: the phase (an index into the methods), what is to do, what is
being fetched, what failed, the verdict and the methods tried per subscription.
`subItem` is the table, which the user edits meanwhile (`MaxEdits`).
`TriedUntilVerdict` and `OnlyTheUserEnables` are the properties. Also seen: without
enabled subscriptions the first phase is skipped and a marked one is probed more
than once, against the comment at 151-154; after a break what was not reached is not among
the failures; a run cancelled before its first fetch reports that it was skipped, and
success; a remark read before the fetch overwrites a renaming made during it.

### SubscriptionImport (`Importer.cpp`)

A URL or a file of lines, imported by the window and the command line at once, with
reads and inserts that fail, while the user deletes. `SuccessMeansPresent`,
`AddedOnceInOrder`, `ImportsAccounted`. The second excepts rows added by
overlapping imports (`after`) or behind a failed read (`blind`): the table has no
unique index and the check, the sort value and the insert are three statements.

### ProfileStore (`Deduplicator.cpp`, `SubitemUpdaterV2.cpp`)

Tables of proxies that share address, port, type, id and network, and the phases of
`deduplicate()` and `syncDatabases()` statement by statement; `before` is the state
when the job began. `WorkingSurvives`, `ReportedIsDone`. Also seen: "keep best" sorts
by delay in descending order and keeps the slowest; if the first of `dedup_subids` is
not in SubItem, the working proxies moved to it are deleted by the next phase; a failing phase rolls
back and those after it run outside of the transaction; a copy commits what it has
although statements failed.

A copy counts only what `migrateProxy()` reports as failed. It logs, and takes for success, a
SELECT of the working proxies that fails or ends early (`job.unread`), a subscription for which
a statement failed (`job.orphan`) and results that cannot be read (`job.untested`): these three
are what `ReportedIsDone` excepts, proxy by proxy, and nothing else. At its extreme a source
database that does not exist is created empty (`SQLITE_OPEN_CREATE`) and copied with success,
where the design document (`docs/superpowers/specs/2026-04-24-proxy-sync-design.md:360`) says that
it ends the copy with an error.

### TestHistory (`ProfileExItemDAO.cpp`, `ProxyRuntimeHistory.cpp`, `TestResultQueue.h`)

The row of one proxy: last delay, streak of failures, aggregates of its sessions, the
two stamps of its message; `table.rows` and `table.open` are its history rows. A report
(probe, pool, start in the window) is a read and a write; a batch reads and writes
each item inside a transaction (`begun` is what ROLLBACK restores, the writes of
others included) and is repeated as a whole; a session starts and is finalized by
every watcher it has, since a second window adopts the process with the first one's row. The
constants size the sub-batch and the retries. `NeverMoreThanRecorded` relates the
aggregates to the history rows, `StreakIsExact` the streak to the failures that
happened, `RowAgrees` the columns to each other; `HistoryIsTrue` is the three. What
the code does not promise is marked by ghosts: `raced` tells "stale" (a write based on a
row that had changed: a count may be lost) from "dirty" (one based on a row that was
rolled back: only then may a count exceed what is recorded), and `recounts` counts
failures stored again after the sub-batch they were in had been committed - up to
three times each in the code, towards `blacklist_threshold`. Also seen: a SELECT that
cannot be prepared makes `updateTestResult` write a blank row back.

### MemberPool (`StandaloneProxyPool.cpp`, `ProxyProbePool.cpp`)

`members` (record, under its mutex) and `outbounds` (what the process has) change in
separate steps of the window's thread and the evaluator; both may probe, through
resident workers. `NothingLeaks`, `RemovalCompletes`, and `DeadWasProbed`, a promise of
the header that is refuted.

A call that is not answered is given up (`AddUnanswered`, `ReinjectUnanswered`,
`Unanswered`) and becomes a member of `late`, from where the process may carry it out at any time
until it ends (`CarriedOut`); this includes the first of the two calls of `injectMember()`, after which
the second is refused because of the tag. `strays` are the outbounds that came this way.
`NothingLeaks` excepts them and says that they, and what is still under way, end with the
process: the code keeps no record of them, and the same proxy is refused by xray from then on.
Also seen: the relaunch injects again without waiting for
the api port; a worker stays busy when the factory throws.

### ControlCall (`XrayApi.cpp` and its callers)

One caller's sequence for an outbound (clear the tag, add, fall back to the command
line, retry, undo), one call at a time, and a call frame by frame: `wire` is what
the instance has sent. Instances die and start again, replies are cut or late,
children hang or crash. What the caller gives up - a deadline of the reply, a killed child, a
cut connection - stays in `abandoned.pending` while the instance lives, and may be carried out
after any later step (`CarriedLate`). `InjectionIsTrue`: "done" means the tag names the outbound,
unless the instance died since or a removal that had been given up was carried out after the
addition (`abandoned.undone`): the caller clears the tag before it adds, does not look at the
answer, and cannot tell that the removal is still to come. A late addition does no harm, since
the tag is taken. And nothing fails unless something broke.
Also seen: the guard against incomplete splithttp settings in `addOutboundDirect` is
bypassed by the fall-back; a killed or crashed child returns the code that is
documented for one that could not be created, so the health hook fires; the
message of a 60 s deadline says 30 s; trailers without a status count as success.

### OutboundEncoding (`ConfigBuilder.cpp`, outbound builders, `XrayApi.cpp`)

A profile (types, networks, securities, missing columns from small sets) becomes a
JSON outbound, and the JSON a protobuf message. A document is a function from the paths of its
settings, put together with `++` as a builder does it; a message is what `Encode` takes from it
by a table of fields. A kind without a builder throws; hysteria, tuic and wireguard have a
builder and no encoder, and go the other way. `BothWaysAgree` compares the message
with what xray reads from the JSON (`Identity`). `Tolerated` and `Comparable` name
what the hand-written encoder really leaves out: the sizes of kcp, time limits of grpc, what a
profile says of ECH, of its own certificate and of a pinned one, headers, VLESS's user security.
So a profile with ECH is tested without it when it goes over gRPC, and with it when a
child process adds it. `CipherAgrees` compares the cipher of VMess and Shadowsocks through the
code it is sent as (`SecurityName`, `CipherName`); one without a code, as `zero` for VMess or
`chacha20-poly1305` for Shadowsocks, goes out as UNKNOWN. Transports h2, httpupgrade and quic go
without their protocol name, and SOCKS or HTTP with "reality" get mismatched settings.

### ShareLinks (`share/*`, `SubscriptionParser.cpp`)

Texts are sequences of tokens, so that the two sides meet on the characters that
matter (`%`, `+`, `#`, `&`, `@`, `;`, `=`). The builders write, the parser cuts and
decodes. `LinkKeepsProxy` is an equivalence: a proxy comes back the same exactly when
`Carries` and `Intact` say so, and these two operators are the list of what links lose.
A `%` in front of one hexadecimal digit is decoded too (`HexWord`: "100%free" loses two
characters), since the two characters behind it are read with `>> std::hex`; `Broken` lists it.
`LinesAreCounted` is the equation of `ParseStats`; a line that was salvaged counts as
ok, against the comment in `SubscriptionParser.h`. It has one exception: the port of
`vmess://id@address:port` is given to `std::stol()` (`SubscriptionParser.cpp:167`), and one that no
`long` holds throws out of `parse()` (`Throw`). The line is counted and in no bucket, and the
proxies read before it are lost, where the comment at `ParseStats` has each line in exactly one
bucket (`EachLineInOneBucket`). `SubitemUpdaterV2::parseSubscription()` does not catch the exception either, so it ends the
update; in `SubscriptionUpdate` a text that cannot be parsed is one without proxies, and this
exit is not modelled there. alpn, fingerprint, allowInsecure
and ech are left out.

### MCDesktop, MCBackground

Each extends several components and adds `focus`, chosen at the start: in each
behaviour one component moves and the others rest. The state space is the sum, not
the product, of the components' - they share no state in the models - and one run
answers all their questions. `Start`/`DesktopInit` narrow what a component leaves open.

## 4. The runs

| Run | Instance | Shows |
|---|---|---|
| `batch_safety` | 2 workers, 3 profiles (one without configuration), 1 outage, 1 instance fault | typing, no worker disappears without a reason, a finished batch is accounted for, no test through a foreign outbound |
| `batch_live` | 2 fair workers, 3 profiles of each special kind | every profile in exactly one place, counters, refinement of the ledger, termination |
| `delay_timeout` (violated) | 1 worker, 1 profile | the comment in `waitInterruptible` that a timed-out network wait implies a cancelled batch does not hold in a delay |
| `failed_relaunch` (violated) | 1 worker, 2 profiles | a relaunch that fails inside `shouldReportEndpointUnreachable` or the CLI injection path does not stop the worker, against the comment on `StopWorkerAndLog` |
| `result_queue` | 3 results, sub-batches of 2, 1 retry, 1 history writer | nothing lost, drained by stop, no leaked transaction, give-up only after every retry, durability, `stop()` returns, refinement of the delivery promise |
| `shared_connection` (violated) | 1 result, 1 history writer | the detail row and the aggregate of a session can be committed apart, when the writer joins the flush thread's transaction and that one ends in between |
| `xray_pool` | both programs; 2 workers, 2 instances of a batch, 3 instance identities, 4 ports, 2 attempts of the standalone pool | every port and process has one owner who knows of it, the dropped reservations apart; every operation ends clean |
| `cooldown_map` (violated) | same, 1 attempt | two workers change the map of cooldowns at the same time, against the comment in `XrayManager.h:95` |
| `desktop` | one proxy with 2 processes, 2 sweeps, 1 switch of the database; operations on 2 files; 3 templates' roles with 2 edits, 1 fault, 2 commands; a search over 3 proxies in 2 instances and a lookup of 3 by 2 threads; a port among 3 | sessions true and closed in the end, ports found, no closed handle in use, requests met, builds unchanged, marks and reports true |
| `background` | 2 processes on 2 tasks of 2 steps; 2 updaters, 2 subscriptions, 1 edit; 2 rows, 1 failing statement; 2 members, 1 worker, 1 crash, 1 request given up; 2 outbounds, 2 attempts, 2 breaks; all kinds of outbound and link; 2 importers of 2 lines; a batch of 2 or 3 results in sub-batches of 2 with 1 retry, 1 reporter, 1 session with 2 watchers | the properties of the nine jobs; `TablesAreTrue` is those of `ProfileStore` and `TestHistory` |
| `pool_verdict` (violated) | the pool alone | a member removed before its first probe is reported as dead, against `StandaloneProxyPool.h:107-110` |
| `safety_net` (violated) | same, 1 attempt | the command line program calls `stopAll()` on a deleted manager, against the comment in `ProxyBatchTester.cpp:53` |

Bounds. `MaxPolls` = 1 stands for the 120 polls of the network wait: every decision
is at a poll, at the last poll or after it, and 1 gives all three. `MaxFlaps` and
`MaxFaults` bound how often the environment strikes; one outage and one fault
already meet every program point of two workers, and the proofs need no bound.
`SubBatch` = 2 (50 in the code) with three results gives a full and a partial
sub-batch; `MaxRetries` = 1 (3 in the code) gives a first, a last and no further
attempt. Two workers suffice for every race on the queue and the flags, since no
worker looks at another's locals. `MaxAttempts` is the code's 3. For `XrayPool`,
two instances are what two relaunches and a relaunch against a start need, and a
third identity serves the standalone pool; with four ports a batch and the
standalone pool together run short, so that every search also fails or wraps
around. `Attempts` = 2 (5 in the code) gives a first and a last attempt. Starts,
crashes and relaunches are not bounded. Symmetry over instances and workers is
sound, as the run has invariants only.

In `desktop`, `MaxRows` = 3 rows let a session end, be reused and be followed by
another; the second process is the one a takeover needs. `tasks`, `edits`, `crashes`,
`faults`, `mishaps`, `effort`, `MaxBreaks`, `MaxReuses`, `MaxImports`, `MaxDeletes` bound how often the
environment strikes; one strike meets every program point, and two are given where
the second one matters (a break and then one in the fall-back; two crossing commands).
`MaxLosses` = 1 request of the pool is given up, which may be either call of an injection, one
of a relaunch, or the removals of one evaluation. `MaxMissing` = 2 and `Wanting` leave one column of
a profile empty, or the two that together switch unverified certificates off; with a cipher,
which goes into the account, only the password. In the focus `store` a copy starts from one kind of the
second proxy, since it does not look at kinds (`FewCopies`).
`PruneStreak` = 1 stands for the failed probes in a row after which a member is dead;
`FlushSize` = 2 with three targets gives a full and a partial flush; `Urls` = 1 makes
the vote a single ballot, since users only see its outcome. In the focus `ports` the
process listens over IPv4 and a scan that reads only that table is left out: it gives
the same candidates as a scan that reads both. Each focus narrows further what its
comment in the MC module names. In the focuses `streak` and `session`
`SubBatchSize` = 2 (50 in the code) gives a batch of one and of two sub-batches and
`FlushRetries` = 1 (3) a first and a last attempt; one report and one failing
statement meet every place of the flush. Other proxies in the batch are only results whose
writes may fail.

Fairness. `Termination` assumes weak fairness of each worker thread and of the
joining thread: the operating system schedules threads, every wait of a worker is
timed, and the join is of a finite set of threads. Nothing is assumed of the
network, which may stay down for ever, of the instances or of the user.
`StopReturns` assumes the flush thread, the callback it runs and the thread inside
`stop()` keep running, and nothing of the history writers: SQLite's busy handling
bounds each statement.
`SessionsEnd`: the window's thread goes on when no dialog is open (weak), and each
watcher thread is scheduled and gets `standaloneMutex_` in the end; the mutex is not fair, so this is
strong fairness, justified because between two clicks of the user it is free for
long. `RequestsAreMet`: an operation and a probe poll the cancel flag between two
items, so a cancelled one ends; nothing is assumed about one that is not cancelled.
`RemovalCompletes`: the window's thread and the evaluator run; strong fairness where
the evaluator competes for `workersMutex_` or where the environment may answer
badly for ever: an instance relaunched over and over starts once (`Relaunch`), and xray,
asked over and over, once lets the outbound go (`EvaluateAll`). The
last two are assumptions about Xray and not about the code's scheduling.

## 5. The proofs

`BatchTester_proofs` proves for every number of workers and profiles, every set of
special profiles and every bound:

* `TypeCorrect`, `NoWorkerVanishes`, `NothingLeftBehind`, `VerdictsAreOwn`,
  `EveryProfileInOnePlace`, `SummaryIsRight` (the safety properties of the two
  runs) and `Refinement` (of the ledger).
* The invariant is `Batch == Typing /\ Accounting /\ NoSilentRetirement /\
  DoneAfterJoin`. The safety properties are not inductive alone: that a finished
  batch settled everything needs that a worker which left by `done` holds no
  profile, that one which left by `quit` saw a cancellation, and that cancellation
  flags never fall back.

`ResultQueue_proofs` proves `QueueTypeCorrect`, `ResultsInOnePlace`, `StopDrains`,
`TransactionsAreClosed`, `LossIsJustified`, `VerdictsAreDurable` and
`QueueRefinement` for all results, sessions, sub-batch sizes and retry
limits, from `Queue == TypeOK /\ InOnePlace /\ Threads /\ Calls /\
TransactionHasOwner /\ Refusals /\ Durable`. `Threads` couples the place of the
stopping thread, `running` and the flush thread; `Durable` says how `live` and
`saved` stand for each result while its batch is in flight.

`XrayPool_proofs` proves `PoolTypeCorrect`, `PortsHaveOneOwner`,
`ReservationsMatch`, `NoProcessIsLost` and `OperationsEndClean` for all numbers of
ports, instances, workers and attempts. The invariant is `Pool == TypeOK /\ Launch
/\ Keepers /\ Phases /\ NoOrphan /\ PortsAccounted`: which ports and process a
thread has on its hands at which place (`Launch`), that each instance has one
keeper, whose ports are the instance's (`Keepers`), and what may go on in which phase
of the main thread (`Phases`). `PortsAccounted` is a statement about four values - who
holds what, what is reserved, leaked and torn - and the lemmas `AccountsReserve`,
`AccountsLeak`, `AccountsFree`, `AccountsMove` and `AccountsTear` say what each way of
handling ports does to it; the actions only have to name the lemma.

`Jobs_proofs`, on `AutoTask` for any number of processes, steps and tasks: `TaskTypeCorrect`,
`RecordedWasDoneAlways`, `KeptIsNotRepeatedAlways`. A claim is stored in three places that
overwrite each other - the memory of each process, the file, and what `-cancel-task`
has read and not written back - so the invariant `TaskInv` demands of each of them that it
is backed by what was done (`AllBacked`), knows every task it names (`AllKnown`) and, if not
contested, holds all that was saved (`AllComplete`). `OneHolder` says why two processes on
one task make it contested.

On `MemberPool` for any proxies, workers, prune streak and number of crashes:
`PoolTypeCorrect`, `NothingLeaksAlways`, the latter also for any number of requests that are
given up. An outbound is accounted for while the window is
between the injection and the record (`OutboundsListed`), the evaluator injects again only
what is still a member (`StillMembers`), a busy worker is held by a round (`BusyIsHeld`), and
`ThreadsTogether` couples the places of the two threads with the life of the pool.

`Jobs_proofs` on `ControlCall`, for any outbounds, attempts, injections and faults:
`CallTypeCorrect`, `InjectionIsTrueAlways`, for requests that are carried out at any later time
included. The reply is decoded from what the model puts on
the wire, header blocks of an encoder that may use its table or not; `CallInv` says of each
step of the call what the instance holds and which replies can be under way, and the
lemmas on decoding say what is read from each of them, whatever the encoder chose. On
`OutboundEncoding`, for profiles of any kind, network, security and cipher and with any columns
empty: `EncodingTypeCorrect`, `BothWaysAgreeAlways`. `Origin` is the invariant, the document is
that of the profile, normalized or not, and the message that of the document. The rest is about
the operators: `JsonShape` says which settings a document of each kind can have, the lemmas
`...Sent` which fields each table and each part of a message hold, and the lemmas `...Agrees`
join the two path by path. The settings that are forgotten are those of `Tolerated`, and no
others (`NothingForgotten`). On `ShareLinks`, for texts of any number of lines,
`LinkTypeCorrect` and `LinesAlwaysCounted`: what a link of whatever kind is read as is a
profile of some columns or nothing (`LinkInv`), and each line of a text adds one to one of the
counters, but the one that throws.

`FoldTheory` is what these rest on where the code runs over a list: the fold of the community
modules goes through a sequence step by step (`FoldsInTurn`), and what each step keeps holds of
the result (`FoldKeeps`). It is stated for constants `op` and `Good` with parameters; each
loop of the code takes an instance of its own. A data structure of any size is so
reasoned about without an induction theorem of the library, whose parameters are operators.

`Desktop_proofs`, on `Operations` for any files and connections: `OpTypeCorrect`,
`FlagsAreTrueAlways`, `HandlesInUseAlways`. What keeps handles open is decided before the
switch and used after it; `SwitchIsSafe` carries the decision through message box and
quiescing: no operation runs, and a probe at work that nobody decided to stop is late.
On `NetworkJobs` for any candidates, instances, targets and resolver threads:
`JobsTypeCorrect`, `JobsReportTruthAlways`. `SearchIsOpen` relates what the search has
tested to what the instances carry; `HeldOnce`, `TakenByOne` and `MainWaits` say where each
region is until it is written, and that the last flush has nothing left to come.
`DesktopRunsEachPart`: every behaviour of `DesktopSpec` is one of each component's
specification, its fairness included, so that what is proved of a component holds of the run;
`DesktopTypeCorrect` is the type correctness of all five from there.

`TemplateChain_proofs`, for any number of edits, commands and faults: `TemplateTypeCorrect`,
`SyncMarkIsTrueAlways`, `BuildsSurviveAlways`. The mark compares versions, what it claims is
about contents, and between them lies a command of which a part is done. `MarksAreTrue` says of a
template in sync that either its synchronization is still to come, or no write that is
left touches its chain or a bundle of it and the row holds what the chain resolves to
(`IsApplied`); `RebuildGoesOn` that the chains a rebuild has yet to write can be resolved
when it gets there. That a chain resolves to a configuration at all is four folds deep and
comes from `FoldTheory`.

That builds survive rests on one relation between configurations: the new one `Narrows` the
old one if it has the first item of each section, and no new section but the pool's log as the
parent has it. What is built from a narrowed configuration is the same (`BuiltNarrowed`),
and a chain with one bundle for each section (`IsShaped`), each with the item that the
template has or inherits (`Suits`), narrows it (`ChainNarrows`, by way of
`GatheredSingles` and `ResolvedSingles`: components of distinct types are neither merged nor
replaced). The plan of a rebuild is such a chain (`PlannedChainIsShaped`,
`PlannedBundleSuits`). The invariant then says when chains are of that kind: always, as long as
the user has edited nothing, even the half written ones (`Pristine`); those that an undisturbed
rebuild has yet to sync (`RebuildKeeps`); and `-SM` finds nothing new unless a bundle was
overwritten (`SyncKeeps`).

`Desktop_proofs` on `Standalone`, for any processes, sweeps and databases:
`SaTypeCorrect`, `SessionsAreTrueAlways`. The row a watcher closes belongs to its own
process and so does the one a takeover noted for it, in the database it names, even after
a switch; a watcher that saw an exit has a dead process (`WatchersAreRight`). `OneAdoption`
says between which steps an adopted process is registered by a key and by the sweep that
is about to register it. On `PortAdoption` for any finite set of ports: `PortTypeCorrect`,
`PortsAreTrueAlways`; facts that age are the difficulty, and `SeenIsTrue` says which of them
stay true while the id still means the same process. `ProxiesAreTrackedAlways` joins both.

`Background_proofs`:

* `TestHistory`, any reporters, sessions, watchers, sizes of sub-batches and retries:
  `HistoryTypeCorrect`, `HistoryIsTrueAlways`. `CountsBounded` bounds not the row alone but
  every copy of it that may still be written (in a batch, in a reporter, behind
  ROLLBACK) by the history rows of the table it will land in; `StreakKept` says what the
  streak is inside of a transaction and `RecountsBounded` how a repeated batch counts again.
* `SubscriptionUpdate`, any updaters, subscriptions and methods: `SubTypeCorrect`,
  `TriedUntilVerdictAlways` and the action property `OnlyTheUserEnablesAlways`. `OnePlace` and
  `NoneForgotten`: what has no verdict is in one of the lists of the phase, and has been
  tried with exactly the methods of the phases before.
* `ProfileStore`, any finite set of rows, any number of failing statements:
  `StoreTypeCorrect`, `StoreKeepsPromisesAlways`. `UsableIsKept` says for each phase where
  the usable rows are, `RemovedIsGone` and `CopiedIsThere` what the finished phases guarantee,
  the latter up to what the copy has logged and not counted.
* `SubscriptionImport`, any importers, imports and lines: `ImportTypeCorrect`,
  `ImportsAreTrueAlways`. An import knows something only of the rows that were there before
  it and of its own (`ComesBehind`), because the others may appear between its check and
  its insert; `DoneIsThere` says what is behind it. That sort values are bounded needs the set
  of all inserts ever made, since rows are deleted: `SortsBounded` claims that such a
  set exists.
* `TablesAreTrueAlways` and `SubscriptionsAreTrueAlways` join them to the properties of the
  run, and `BackgroundRunsEachJob` shows that each behaviour of `BackgroundSpec` is one of each
  job's specification.
* `BackgroundTypeCorrect` follows from the type theorems of the nine jobs, those in
  `Jobs_proofs` included.

Assumptions are the named `ASSUME`s on the constants only. Those that the proofs asked
for, each true of the code: the place holder for "nobody" is no proxy and no worker, the
buffer and the calling thread are no resolver thread, there is a resolver thread, the ports are
finitely many positive numbers with the api port among them, a file and a subscription text
may have a line.
Lemmas state what the models' operators on sequences and sets do (`MinOfNats`,
`MaxOfBounded`, `RemoveIs`, `SortValueIsBehind`, the dividing of a batch into sub-batches).

Checked by TLC and not proved:

* liveness (`Termination`, `StopReturns`, `SessionsEnd`, `RequestsAreMet`,
  `RemovalCompletes`), which rests on fairness and ENABLED;
* `LinkKeepsProxy`, the half of `LinksAreReadBack` that is not `LinesAreCounted`: that decoding
  undoes encoding, escape by escape and for each of the formats.

## 6. What is not modelled

SQL loading of profiles, process spawning, HTTP measurements and wording. Widgets,
list models and panels (layout, sorting for display, clipboard), the logger, SQL
history, string helpers and the crash handler keep no state a property could relate
to anything. The step pipeline (`setPipeline` has no caller), `allocateRange`,
`SubscriptionUpdater` and `Ipv6Formatter` are not reached by the program. Operations of
the window that only forward to a component are modelled as that component's.
Timing is left open everywhere: a time limit is an exit that may be taken. The models
of the two MC modules do not share state, so an interaction across them (a
deduplication joining the transaction of an update on the same connection) is described by
`SharedConnection` alone.

`VerdictIsDurable` excludes, by name, two situations the code really has: a result
whose batch wrote into a transaction of another writer (`shared`), and a batch of
several sub-batches that is retried after a part was committed (`split`), where a
result may be written twice. Of the hazards in `PROJECT.json` those without a property
say why in their note.
