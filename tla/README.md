# Verification of anne-de-breuil

`anne` lists the listening ports of a host, or of a fleet over SSH, and keeps each
scan as a snapshot in a store. This directory holds TLA+ models of the parts of it
that run concurrently or must survive failures, the TLC configurations that check
them on small instances, and TLAPS proofs of their invariants for every instance.

In the paths below `LIB` is `src/crates/anne-de-breuil/src` and `CLI` is
`src/crates/anne-de-breuil-cli/src`.

## The system

| Component | Source | State | Operations | What is hard about it |
| --- | --- | --- | --- | --- |
| Snapshot store port | `LIB/application/snapshot_store.rs` | the recorded scans | put, get, list | idempotency over retries and restarts |
| Filesystem store | `LIB/adapters/snapshot_store/fs.rs` | `index.json`, content files, two temporary files, a lock file, a registry of mutexes per process | put, get, list | two locks, several processes, readers without a lock, crashes between file operations |
| SQLite store | `LIB/adapters/snapshot_store/sqlite.rs` | one table, one connection per process | put, get, list | check-then-insert across processes, SQLite's lock upgrade, busy errors |
| Fleet fan-out | `LIB/application/fanout.rs`, `CLI/application/scan.rs`, `CLI/main.rs` | host tasks, semaphore, results, exit code | run_fanout, with_retry, the CLI's summary, runtime shutdown | budgets that end mid-put, panics, permits, blocking calls that outlive their task |
| Remote execution | `LIB/adapters/ssh_transport`, `LIB/adapters/remote_scanner` | the pushed artifact and its guard | connect, push, self-hash, collect, remove, Drop | cancellation at every await, a removal that must happen once, an executable replaced meanwhile |
| Host keys | `LIB/adapters/ssh_transport/known_hosts.rs`, `handler.rs` | file entries, keys accepted in this process | lookup, record, authenticate | lookup and record under separate locks; negated patterns; retries |
| Probe tier | `LIB/adapters/prober.rs`, `tls_probe.rs`, `remote_scanner/probe.rs` | budget per host, permits, rate gate | probe | budget reserved before the permit, the gate held across a sleep, cancellation |
| Collection | `LIB/application/collect.rs`, `CLI/application/scan.rs` | the sections of one scan | collect_endpoints, scan_local | processes that vanish, ids that are reused |
| PowerShell collector | `LIB/adapters/powershell_collector` | a cached payload, a child process | payload, run_script, parse | concurrent callers, a full pipe, a child to kill |
| Linux, Windows collectors | `LIB/adapters/linux_collector`, `windows_collector` | none | decode, join | dumps that are cut off, tables that must be joined |
| Identification | `LIB/application/identify.rs`, `LIB/domain/fingerprint.rs`, `service_identity.rs` | none | fingerprint, reconcile | what counts as evidence |
| Drift | `LIB/domain/drift.rs`, `snapshot.rs` | none | new, diff | endpoints that share a key |
| Reachability | `LIB/domain/reachability.rs`, `port_spec.rs`, `firewall_rule.rs` | none | evaluate | overlapping rules, dynamic ports inside lists |
| Reconciliation, annotations, redaction | `LIB/domain/` | none | merge, mask | overlapping matches |
| Portal | `LIB/application/portal.rs`, `LIB/adapters/portal/` | tokens, rate buckets; reads the store | routes | authorization before and after the fetch, windows of the limiter, views over a store that changes |
| Progress | `LIB/adapters/progress.rs` | spinners, a finished flag | started, finished, finish, Drop | finish twice or never |
| Reports | `LIB/domain/report_*.rs`, `LIB/adapters/html_report/` | none | build, render | many views of one model must agree |
| Report writer | `LIB/adapters/report_writer.rs` | a file and a temporary one | write_atomically | replacing a report |
| Self update | `CLI/application/update.rs`, `CLI/adapters/github_release.rs` | the executable, its temporary file or backup | run_with_source | digest, replacement of the running binary |
| CLI, configuration, inventory | `CLI/cli.rs`, `LIB/adapters/config/`, `inventory.rs` | none | layers, commands, exit codes | what an error may still print |
| Build tasks | `src/xtask/src` | files of a release | checksum, vendor_fonts, verify_static | one of several steps failing |

They interact as follows. `anne scan --inventory` builds a store adapter and an
`SshHostScanner` and calls `run_fanout`. Each host task calls the scanner
(`resolve_strategy`, then `scan` with retries), which connects, verifies the host key,
pushes this executable, runs it and removes it, or probes from outside. The task then
calls `put`, which both adapters run on a blocking thread. The portal and the `diff` and
`report` commands read the same store, often from another process. `anne update`
replaces the executable that a running fan-out is pushing.

For each component, what makes it correct:

- **Store**: one record per idempotency key for ever; a scan id once returned stays
  recorded; nothing is lost when puts race or processes die; readers see only whole
  records; locks are given back.
- **Fan-out**: at most `concurrency` hosts at once and no permit lost; one result per
  host; a success is in the store; the strategy in the result is that of the stored
  snapshot; exit code 0 means that every host is stored; `run_fanout` returns whatever hangs.
- **Remote execution**: what runs on a target is what was hashed; its removal is asked
  for once; an attempt that returns leaves nothing on the target.
- **Host keys**: a changed key is never accepted; at most the first key of an unknown
  host is. **Probe tier**: budget, parallelism and rate hold under concurrency and
  cancellation. **PowerShell payload**: all callers get one payload, no child is left.
- **Drift**: each change is reported once and nothing is silently suppressed.
  **Reachability**: a block always wins, order does not matter.
- **Portal**: no snapshot of a host outside the token's scope; no more than the budget
  per window. **Progress**: every spinner ends once. **Reports, update**: the previous file
  or the new one, never a part; every view of a report agrees with the model.
- **Collection**: no socket that was listed is lost, and none is attributed to a program
  that never ran under its pid. **Decoders**: a source that was cut off is an error.
- **Identification, redaction**: no name without evidence, no text under a match is shown.

`PROJECT.json` lists under "hazards" where each of these can go wrong.

## Modules

| Module | Models | Extends or instantiates |
| --- | --- | --- |
| `SnapshotStore` | the port: what put, get and list promise | – |
| `FsSnapshotStore` | the filesystem adapter | `Port == INSTANCE SnapshotStore` |
| `SqliteSnapshotStore` | the SQLite adapter | `Port == INSTANCE SnapshotStore` |
| `Fanout` | a fleet scan over the port | `Store == INSTANCE SnapshotStore` |
| `RemoteArtifact` | the pushed collector and its guard | – |
| `HostKeys` | connections, host keys and credentials of a fleet scan | – |
| `Prober` | the budgets, permits and rate gate of the two probers | – |
| `PowerShellCollector` | the calls that share one script run and its cache | – |
| `LocalScan` | a scan of the own host, stage by stage | – |
| `Portal` | the HTTP server over the port | `Store == INSTANCE SnapshotStore` |
| `Progress`, `ReportWriter`, `SelfUpdate` | spinners; the writer of a report; `anne update` | – |
| `Selection` | the filter and the stable sort of the pure modules | – |
| `Reachability` | ports, filters, exposure, the verdict, profiles | `Selection` |
| `FirewallRules` | WMI rows and raw rules to rules of the domain | `Reachability` |
| `Decoders` | netlink, `/proc/net` and the script's payload | `FirewallRules` |
| `Drift` | snapshots and their difference | `Reachability` |
| `Findings` | TLS and HTTP answers to findings, redaction | `Selection` |
| `ReportModel` | the view model and its annotation | `Drift`, `Findings` |
| `Rendering` | CSV, SARIF, HTML and diagrams | `ReportModel` |
| `CommandLine` | configuration, inventory, the reading commands | `Rendering` |
| `Identification` | evidence to identities, mismatches, reconciliation | `Selection` |
| `BuildTasks` | the release tasks of xtask | `Selection` |
| `Rules` | the pure modules as one machine, and their properties | all of the pure ones |
| `RuleQuestions` | the inputs that are tried | – |
| `Waiting` | store, fan-out, probers and PowerShell calls under fairness, one per behaviour | those four machines |
| `Answering` | the portal and the rules, which answer from what they are given | `Reachability`; instances of those two machines |
| `Components` | portal, host keys, probers, local scan, progress, report writer, update and rules, one per behaviour | `Answering`; instances of the other six |
| `MC...` | values of the constants for TLC | the module named |
| `...Proofs` | theorems about the module named | the module named, `TLAPS`; those of the two composites also the proof modules of their parts |

Several definitions are preceded by a variant whose comment begins with `Mutant`. It is
the operator below it with a plausible bug; no specification uses it. Each property of
a run is known to fail when one of these takes its operator's place, so each property
really depends on the code it is about (`PROJECT.json`, "mutants").

### SnapshotStore

The port of `snapshot_store.rs`: the set of records `[key, snap]` and what callers have
been told (`answered`, `fetched`, `listed`). `Commit` is where a put takes effect, and
only for a key without a record; `Answer` returns the scan id of the key's one record.
Both adapters are shown to implement it, and `Fanout` uses its `Commit` and `Answer` for
its puts, so what is shown of the fan-out holds for either adapter.

### FsSnapshotStore

The state is the files (`index`, `indexTmp`, `content`, `contentTmp`), the locks
(`registry` of weak references, `arc`, `mutex`, `flock`), and for each blocking thread
the local variables of its call. One action per file or lock operation of
`put_blocking` and `write_atomic`, since another process or a crash may come between any
two. `Fail` is the early return of any of them, or an unwinding panic. `Crash` kills a
process: the files stay, the kernel frees its locks. `get_blocking` is two steps (index,
content) without a lock; `list_blocking` is one.

A file holds a value, `NoFile`, or `Torn` (created or truncated but not written). A
content file is named by the hash of the snapshot, so its name is the snapshot itself:
two snapshots with one BLAKE3 hash are left out. A missing index and an empty one read
the same and are both `<<>>`. Failed gets change nothing and are left out of the
beginning of `get`. The registry's own mutex is held for one lookup that does nothing
else, so `StoreLockFor` is one step.

### SqliteSnapshotStore

One thread per put under the connection's mutex; then `Check`, `Insert`, `BeginCommit`,
`Commit` of one deferred transaction, `Reread` after a conflict. SQLite is external and
modelled from how the code uses it (rusqlite's `transaction()` is deferred, the journal
is the default one): a first read takes SHARED, a first write RESERVED, COMMIT takes
PENDING and then waits for the readers. A connection with a SHARED lock is not allowed
to wait for RESERVED (`InsertBusy`); one without a lock waits until the busy timeout,
which may end at any moment (`BusyTimeout`).

### Fanout

A task per inventory host: `pc` follows `run_fanout`'s spawned future and
`scan_one_host` inside it. `Budgeted` are the places inside `tokio::time::timeout`;
`BudgetElapses` may happen at any of them, the clock being left out. The blocking call
behind `put` is a state machine of its own (`job`): `JobCommits` may come long after its
task was reported as timed out. `JoinFinished` and `JoinPanicked` are the two arms of
`join_next_with_id`, `Return` is the CLI's count of failures, `Shutdown` and `Exit` the
end of the runtime. `HostOutcome::Failed(HostError::Panicked)` is the outcome
`"Panicked"`. A task stands for its idempotency key, which it generates once. Store
errors are terminal for `with_retry` (`HostError::Store` is not `Retryable`).

### RemoteArtifact

`pc` of a host is the await its attempt is at; what lies between two awaits runs in one
poll, so the check of the hash, disarming the guard and asking for the removal are one
step. `Interrupt` is a budget that ends, or a panic, at an await. `DropGuard` is
`RemoteArtifactGuard::drop`, `RemoveDetached` the task it spawns, which `Shutdown`
drops. A path is a pair of host and attempt number: random paths do not collide. The
target is honest but may refuse any request, having carried it out or not. `Update` is
another process running `anne update`.

### HostKeys

A host of the inventory connects up to `1 + MAX_ATTEMPTS` times: the trial that resolves
its strategy, then the attempts of its scan. Each connection looks its key up (`Lookup`)
and records an unknown one in a second critical section; other hosts may come in between,
hosts of the same label among them.
Entries match by patterns with wildcards and negation, over labels that are sequences of
characters, or by the hash of one name. `before` remembers what was trusted when a
connection began, which is what separates two overlapping first contacts (both may be
accepted) from a later change (which must not be). After the key comes the one method of
authentication the inventory names; what is offered is recorded in `used`.

### Prober

A scan goes through the candidate ports; an open one is handed to the HTTP and then to the
TLS prober. `Reserve` counts before the permit is asked for, the permit is a queue, the
gate is held across its sleep and stamped after it. `Cancel` may drop a scan at every
await. Time is relative: a stamp is the number of ticks still to go.

### PowerShellCollector

A call that finds no payload spawns the script, drains its stderr while it waits
(`DrainStderr` is the reader that keeps the child from blocking on a full pipe), reads the output
file, asks for its removal and offers what it parsed to the cache (`Store`, get-or-insert).
The answer of the removal is ignored, so a file may stay (`unremoved`), and a script that
failed or was killed may leave one that nobody reads; what is claimed is that no such file
ever becomes a payload. Two calls may run two scripts, of which one payload wins. What the
script sees of the host is a number that grows.

### LocalScan

`stage` follows `scan_local`: sockets, processes, services, resolution of each socket,
rules, profiles, and what the request does with the snapshot. Processes end and start in
between and a pid may be reused; `ran` remembers what ever ran under it. The four
collectors differ in what they read when, and in what fails softly. A socket of port 0
ends the whole scan (`RefusePort`), and what is printed may be cut off, with the exit code of
an error or, as standard output is flushed last where nobody looks, with that of a
success (`EmitJson`).

### Portal

Each worker is a request on its way through the layers of the router. The time of a
request is taken before the limiter's lock (`Arrive`, then `Enforce`). A page is a list and
one get per scan, while `Put` records new ones. `GetForHost` checks the host of the
snapshot it fetched. A secret that no token has stands for every header that
`bearer_token` refuses.

### Progress, ReportWriter, SelfUpdate

`Progress` has the tasks, the join loop, `finish` and `Drop` of a run that returns or
unwinds. `ReportWriter` has several writers of one path, one file operation per action,
each of which may fail or be killed. `SelfUpdate` keeps names and files apart, so that a
process that wrote to a file which was renamed away still writes to that file; on Unix it
writes a temporary file and renames it, on Windows it renames the running executable away.

### The pure modules and Rules

`Reachability`, `FirewallRules`, `Decoders`, `Identification`, `Findings`, `Drift`,
`ReportModel`, `Rendering`, `CommandLine` and `BuildTasks` translate functions into
operators: no state, no RECURSIVE operator, but folds, recursive functions over numbers, and
the filter and the stable sort of `Selection`, which say where an element ends up by how many
come before it. Texts are
abstract: a port text is the sequence of its parts, a text of evidence a set of words, a
buffer the sequence of the messages its lengths delimit, a match of a redaction pattern a
span. Parsing (regular expressions, JSON, X.509, TOML) is external and stands as the parsed
value, with the value `Failed` where it can fail.

`Rules` puts a question to one of them (`Judge`, `MapRules`, `ReadNetfilter`, `Compare` and
so on, named for the work) and keeps the answer; its properties compare the answer with a
reference definition that is written from what the answer means and not from how the code
finds it: a verdict from the set of rules that concern an endpoint, a difference from the
sets of keys, nested quantifiers from the matching of parentheses, redaction from the set
of hidden positions, a ruleset from the set of messages that were heard before the end of
their dump. `Draw` puts hosts of many endpoints to the diagrams alone, up to and over the
densities at which these change. `RuleQuestions` has the inputs.

## Runs

| Run | Shows | Instance | States |
| --- | --- | --- | --- |
| `fs_store` | the index stays whole, unique per key and append-only; answers stand; the mutex does its job; readers without a lock; the store implements the port | 2 processes (2 + 1 threads, a reader beside a writer), 2 keys, 2 snapshots | 873 k |
| `sqlite_store` | a transaction's check holds to its commit; the store implements the port; locks are released | 2 processes (2 + 1 threads), 2 keys, 3 snapshots, two with one scan id | 59 k |
| `sqlite_race` | *violation*: a loser is refused, see below | the same | – |
| `fanout_safety` | permits, results, strategies, exit code | 3 hosts, 2 permits, 2 attempts | 404 k |
| `artifact_cleanup` | the right collector runs and is removed once | 2 hosts, 2 attempts, 2 versions | 235 k |
| `artifact_push_failure` | *violation*: a failed push leaves its file | 1 host | – |
| `artifact_interrupted` | *violation*: cancelled in its removal, an artifact is left | 1 host | – |
| `waiting` | liveness: locks are given back, `run_fanout` returns, the process exits, probes and script calls end; one payload for all callers; requests are spaced under cancellation | store: 3 puts of one key; fan-out: 2 hosts, `--concurrency 0`; probers: 2 addresses behind one gate; PowerShell: 2 calls, a pipe of one message | 48 k |
| `components` | one component at a time of portal, host keys, probers, local scan, progress, report writer, self update and the pure rules | see `MCComponents` and `Components.cfg` | 1.2 M |
| `report_leak` | *violation*: a failed rename leaves its temporary file | 2 writers | – |
| `same_snapshot` | *violation*: the order of collection shows in a snapshot | 4 endpoints, two of one key | – |
| `dynamic_list` | *violation*: a port list with a dynamic keyword allows | up to 3 of 9 rules | – |

`components` and `waiting` check several machines that share no state in one run, composed
in `Components` and `Waiting`: a behaviour picks one, the others stay at their start, and a
property guarded by `Of` or by `component` is that machine's own. Nothing is lost by that,
as the machines do not interact; those that do are composed: the fan-out and the portal
with the port. `MCSpec` differs from `Spec` in one thing: where a machine is not picked and
has several starts, it takes one of them, so that TLC does not count the picked machine's
states once for each start of an idle one.

**Bounds.** The stores, the fan-out and the artifacts have no bound but their constants: calls
repeat without limit, and what grows (the index, the rows, the histories) is bounded by the
keys, since a key is recorded once. Two processes of which one has two threads give the kinds
of conflict: same process or another, same key or another, same body or another; `waiting`
adds three puts of one key. In the fan-out three hosts and two permits make one host wait; two
attempts give a retry and a last attempt. The other machines have named bounds: `MAX_TIME` and
`MAX_ARRIVALS` (portal: a window of two ticks with a budget of one, three requests, so that a
budget is used up, a window is renewed and two meet), `MAX_EVENTS` (local scan: a process ends
and another takes its pid), `MAX_CHANGES` (PowerShell: two scripts see two states). The
probers have three scans of one address with a budget of two and one permit, so that one scan
waits for the permit and one finds the budget gone. Host keys have two inventory entries of
one label (one server, on a port that is not the default), which look it up and record it at
once, four files to start from, and two keys. The rules are asked some fifteen thousand
questions: up to three of nine overlapping rules in every order, port texts of two parts,
tables of two rows, buffers of three messages, chains of two certificates, patterns of five
symbols, three overlapping matches, pairs of snapshots of two endpoints, among them two that
share a key, and diagrams of hosts of up to 205 endpoints. The bounds of a numeric kind
(65535, 49152, 2048 bits, the cap of a body, the 60 endpoints an exposure map draws one by
one, the 144 markers that a cell of the trust map holds) are asked on both sides.

**Symmetry** is used only over values that no expression tells apart (mutexes, host tasks,
hosts, versions, the workers), and in no run with liveness properties.

**Deadlock** is checked in all passing runs but `waiting`: there a fan-out stops for good
where its scanner and its store hang, which is what the run is about. Elsewhere the ends
of a machine are actions of their own (`Terminated`, `Over`, `Done`).

**Fairness.** The stores assume that a thread the operating system schedules takes its
next step unless it waits for the mutex (weak fairness of `Step`), and that SQLite's
waits end (the busy timeout is 5 s in rusqlite). No process is obliged to put, and none to
crash. The fan-out assumes what tokio gives: a task that can go on is polled, a waiter of
a semaphore with a free permit is woken, a timer fires. Nothing is assumed of scanners,
which may hang, nor of blocking threads, except for the exit of the process (`FairStore`):
shutting a runtime down waits for blocking calls that run. The probers assume that a scan
nobody cancels takes its next step, which every one of its awaits bounds with a timeout or
a queue in order, and that time goes on. The PowerShell calls assume that callers and
scripts go on and that the timeout fires for a script that hangs. There is no fairness of
`Panic`, `Fail`, `Crash` or `Cancel`, of `Put` or of the changes of a host.

### Where documentation and code differ

Shown by runs:

1. `sqlite_race`. The module doc of `sqlite.rs` (lines 16-20) says that of two processes
   that put one key, the loser's INSERT meets the UNIQUE constraint and the winner's scan id
   is read back. While the winner has not committed, the loser's INSERT meets the RESERVED
   lock instead: it holds a SHARED lock already, SQLite refuses to let it wait, and
   `put` returns an error. The constraint can only speak if the winner commits between the
   loser's INSERT and its check, which the SHARED lock excludes for a conflict on the key
   (`CheckStillHolds`). Nothing is recorded twice: `ImplementsPort` holds.
2. `artifact_push_failure`. `push_exec_collect_remove` promises cleanup "on every code path
   this function can structurally reach" (`ssh_transport/mod.rs`, lines 132-133); a push
   that fails after creating the file returns at line 160, before the guard exists.
3. `artifact_interrupted`. `RemoteArtifactGuard` guarantees removal on exit paths the code
   cannot reach, cancellation among them (lines 231-232); `remove_now` disarms the
   guard before it awaits the removal, so a cancellation at that await is not covered.
4. `report_leak`. `write_atomically_with` says it cleans up its temporary file when that
   "can't be created, written, or renamed" (`report_writer.rs`, lines 61-63); the rename is
   the last expression (line 76), after the branch that cleans up.
5. `same_snapshot`. Snapshots of the same data "serialize to byte-identical JSON"
   (`snapshot.rs`, lines 10-13); two sockets of one protocol, address and port (which
   `SO_REUSEPORT` gives) keep the order in which they were found.
6. `dynamic_list`. A rule whose port is a dynamic keyword is "never collapsed into
   `Allowed`" (`reachability.rs`, lines 22-25); a list that holds a keyword beside its numbers
   matches every port (line 86) and is judged `Allowed`. Only a text that is a keyword as a
   whole is `Indeterminate`.

Met while modelling and not worth a run of their own; the models do what the code does:

- "disabled rules don't shape connectivity" (`collect.rs` 126-128); `rule_applies` never
  asks whether a rule is enabled, and the native Windows collector does not leave disabled
  rules out.
- The native Windows join keeps the filter value "Any" of a program or a service as if it
  named one (`firewall_join.rs` 207-212, against its doc at 136-137 and `collect.rs` 155-158).
- A netfilter message that its buffer does not hold whole is passed over with the rest of that
  buffer; if the dump's end is in the next one, the answer is a ruleset without them, possibly
  without any rule (`nft_wire.rs` 141-171), which the doc of `FirewallSource` (97-110) reserves
  for a ruleset that is "genuinely empty".
- The trust map has no cap on its density: the 145th marker of a cell lies outside the
  cell and the 205th outside the canvas (`trust_quadrant.rs`).
- `--emit-json` exits 0 also when the last flush of standard output fails, which happens
  after the exit code is chosen (`CLI/application/scan.rs` 123).
- The check for nested quantifiers sees one level: `((a*))*` passes (`fingerprint.rs` 136-172).
- `Diff(s, s)` has entries when endpoints of `s` share a key, as the join keeps the last
  (`drift.rs` 117-126; the test at 581 has no such endpoints).
- `suppressed_ephemeral` of a drift is not carried into the report model.
- Two sections of one host get one file name in a split report.
- An inventory port of 0 is accepted, though `Port` refuses it (`port.rs` 5-8).
- The lines of a checksum manifest are sorted as lines, digest first, though the comment
  says by file name (`checksum.rs` 48).
- Of a match that overlaps a claimed one in part, what lies outside the claim is shown.
- Two `anne update` at once share one temporary file beside the executable (`update.rs` 239).
- `--probe-exclude` and `--probe-rate` are parsed; only tests build `ProbeExclusions::new`.

## Proofs

TLC checks the instances above; the theorems hold for any number of processes, threads,
keys, snapshots, hosts, workers, callers, scans and attempts, and for any inputs. They rest
on the assumptions named in the modules (`StoreAssumption`, `SqliteAssumption`,
`FanoutAssumption`, `ArtifactAssumption`; `ComponentsAssumption` and `WaitingAssumption`
gather those of the composed machines: `PortalAssumption`, `HostKeysAssumption`,
`ProberAssumption` and so on) and on nothing else. They say that special values differ from
the ordinary ones (`NoFile`, `NoPayload`, `Failed`), that constants have the types one
expects, that what is counted is finite (hosts, scans, update runs, the scans on file at the
start) and, for the portal, that a scan id names one snapshot. For the rules
(`RulesAssumption`, and `TextsAssumption` for the texts) they are the types of the inputs,
and that an environment sets a variable once. TLC evaluates every one of
them on its instance.

Every invariant of a passing run is stated by a theorem but `DifferencesAreTold` (below); so
are the action properties `IndexOnlyGrows`, `OutcomeIsFinal`, `OnlyOwnRequestsDeny` and
`RequestsAreSpaced` and the two refinements of the port.

### One machine at a time

- `FsSnapshotStoreProofs`. The mutex and the advisory lock are each shown to exclude: the
  thread that holds a lock is at a step where it should (`Exclusive`, `Guarded`), and two live
  Arcs of one process are of one mutex. From exclusion follows what a single writer would
  give: the index a thread has read is still the index when it writes (no update is lost), the
  temporary files are its own, and the content file is in place before the entry that names
  it. These together are inductive, and `IndexIntact`, `OneEntryPerKey`, `AnswersStand`,
  `LockedOnlyByOthers`, `ReadersFindContent` and `ListedCanBeFetched` follow. None of those is
  inductive alone: that an index has one entry per key, for example, needs to know that a
  thread at `index_rename` searched an index that nobody has replaced since.
  `StoreImplementsPort` maps `RenameIndex` to `Commit`, `PutReturn` to `Answer`, `GetContent`
  to `Fetch`, `ListScans` to `List`, and every other step to a stutter; a step of the port
  takes effect at the rename.
- `SqliteSnapshotStoreProofs`. A transaction past its check holds a SHARED lock, and only
  the holder of RESERVED commits, once no other SHARED lock is left; so no row appears
  under a key somebody has checked. `StoreImplementsPort` maps `Commit` to `Commit` and
  `PutReturn` to `Answer`.
- `FanoutProofs`. The permits in use are counted (`Cardinality`), one lemma for a task that
  joins the set of holders and one for a task that leaves it. The invariant relates each
  task to its job, snapshot and record, which gives `SucceededIsPersisted`,
  `StrategyIsTruthful` and, through the results, `CleanMeansAllPersisted`.
- `RemoteArtifactProofs`. `HostState` says where a host's guard is armed, `PathState` what a
  path's attempt has done so far: to come, under way, or behind its host. A step of a host
  changes one path (`OtherPath`), so each action needs an argument about its own path alone.
- `ProberProofs`. The permits of an address are held by exactly the scans past its
  semaphore (`PermitInv`), and each of those was counted (`BudgetInv`), whatever `Cancel`
  drops: with `TargetInv` (a candidate that is probed is not excluded) this gives
  `HostsSpared`. The pace is the work of two invariants: whoever sleeps owns the gate and
  sleeps at least as long as the stamp says (`GateInv`), and what is left of the stamp and
  what has passed since the last request make up an interval (`PaceInv`). `RequestsSpaced`
  follows, a cancelled sleeper included: it leaves the stamp as it was.
- `AnsweringProofs`, the portal. A handler under way has got, or has the id of, everything
  that was on file of its host when it listed, and nothing else (`ReadingInv`), while `Put`
  adds records beside it; that is what makes `ReadsScoped` and `ViewsComplete` of an answer
  true when it is given (`AnswersInv`), the order of the pair that the drift view picks
  included. The limiter is one argument about a bucket (`BucketsInv`): since its window began
  no more than `count` prompt requests were admitted and before it, within the last window's
  time, no more than a budget. `TwoBudgetsAtMost` is the sum of the two. For
  `DeniedForOwnRequests` the same bucket is read from the other side: while its window lasts,
  `count` is at most the number of requests its own caller made.

### The composites

`Waiting` and `Components` have one step for all their machines, which is a step of one and
leaves the others as they are; so the conjunction of the machines' invariants is inductive
when each is. The proof modules of the machines are instantiated or, for `Answering`,
extended, and a few lemmas say that what two instances of one module define is the same.

- `WaitingProofs`. For the PowerShell collector, `CallInv` relates the place of a call to
  its child and its output file, and `CacheInv` says that the first payload stored is what
  every later call answers with: `PayloadIsOne`. `RequestsKeepTheirDistance` is the
  prober's pace for the composite, from its `IInv`; the fairness in `Spec` is not used.
- `ComponentsProofs`. `PortalAnswersInScope`, `DeniedForOwnRequests` and
  `ProbedHostsAreSpared` come from the invariants above. Found here:
  - *Host keys.* `HostKeysArePinned`: a host past its check holds a key that is on file or
    was accepted in this process, and if anything was trusted when its connection began,
    then that (`TrustInv`); a key goes on record only for a label without any in the file
    (`AcceptedInv`); a refused key leaves the host probed or failed for good (`OutcomeInv`);
    what is offered comes from the one method of the inventory (`OffersInv`).
  - *Local scan.* `LocalScansAreTruthful`: the sockets handled and those to come are the
    list that was read, in order (`SocketsInv`), what the maps hold was read of a process
    that ran (`MapsInv`), and a socket may be attributed to a process that is gone only if
    something happened meanwhile or its collector failed (`GoneInv`, `EndpointsInv`).
  - *Progress, report writer, update.* `WhatIsLeftIsWhole`: a spinner ticks only while its
    host has a bar, and a bar goes when its host is told or the run ends; what is about to be
    renamed is whole; at every place where an update can be killed there is a whole
    executable of a version that was agreed to and verified or, on Windows, a whole backup
    (`ExecutableInv`, from `AloneInv`, `OpenInv` and `DecisionInv`).
  - *Rules.* An answer is what the code makes of its question, which is inductive at once
    (`RulesInv`, `TextsInv`); the work is in what the code makes of a question, for inputs of
    any length. `VerdictsFollowFromTables`: the five verdicts, each with exactly the condition
    under which it is given and the rules it names, the same in the reverse order; port texts;
    rules from WMI's rows. `NamesFollowFromEvidence`: identities, mismatches, the check of a
    pattern for nested quantifiers, findings about certificates. `TextsStayContained`: bodies,
    redaction, the reading of netlink, `/proc/net`, the payload, the configuration, the
    inventory and the releases. A filter is known by `PickedIs` (what passes, each once, in its
    order); loops by induction over the set of the numbers for which a claim holds (`Inducts`),
    with one lemma each for how a recursive function or a concatenation unfolds (`Recurses`,
    `FlattenUnfolds`); the check of a pattern by an invariant of its scan (`Scanned`), the
    findings by the paths under which they are found (`TaggedIs`).

### Only model-checked

- Liveness (`LocksAreReleased`, `RunsEnd`, `WaitsEnd`): TLAPS has no rules for fairness and
  ENABLED here.
- `DifferencesAreTold`: drift, the report and its renderings. What it compares goes through
  several folds over sorted sequences and through maps that keep the last of equal keys, one
  after the other; each would need its own induction, and the reference itself is built from
  the same sorts.
- The violations, which are counterexamples.

## Not modelled

- A loss of power. The filesystem adapter syncs files and not the directory (`fs.rs` 250); the
  port promises durability over process restarts only.
- The SSH, SFTP, HTTP and TLS protocols and their libraries, JSON, TOML, X.509 and regular
  expressions: external, and present in the models as what they may return.
- Page templates, style sheets, colour contrast, embedded fonts, logging and the grammar of
  the command line: wording and layout, with no state.
- Win32 and netlink system calls; `Decoders` and `FirewallRules` begin where their results
  are read.
- Runs of `anne update` that overlap: see above. `SelfUpdate` has them one after the other,
  each killed anywhere.
- `EventLog` (`domain/events.rs`), which nothing uses, and the fuzz targets, which only call
  what `Decoders` models.

## Plan

Every component of the inventory has its model; the safety of every machine with state is
proved, and of the pure modules all but drift and the reports. What is left:

1. A composition of `Fanout` with `RemoteArtifact`, showing that the latter implements the
   scanner that `Fanout` assumes.
2. Of `DifferencesAreTold`, the difference of two snapshots: that an added, removed or changed
   key is told once follows from `PickedIs` and from what a map keeps of equal keys.
3. `ViewsAreComplete` over the two adapters instead of over the port: that a page which was
   listed from the index can be got from the content files is `ListedCanBeFetched`.
