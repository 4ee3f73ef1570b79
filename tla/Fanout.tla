-------------------------------- MODULE Fanout --------------------------------
(***************************************************************************)
(* A fleet scan: run_fanout (application/fanout.rs) under the CLI's        *)
(* run_remote_fanout (anne-de-breuil-cli application/scan.rs).             *)
(*                                                                         *)
(* One task per inventory host waits for a permit, resolves a collection   *)
(* tier, scans with retries and puts the snapshot, all of it inside one    *)
(* time budget. The put runs on a blocking thread that outlives the task   *)
(* when the budget ends. The main task joins every host task, reports, and *)
(* shuts the runtime down, which waits for the blocking calls that have    *)
(* started and drops those that have not.                                  *)
(*                                                                         *)
(* The scanner is the port HostScanner: it may answer anything, hang or    *)
(* panic. The store is the port specified in SnapshotStore. The clock is   *)
(* not modelled: a budget may end at any moment.                           *)
(***************************************************************************)
EXTENDS Naturals, FiniteSets

CONSTANTS
    Task,           \* the host tasks, one per inventory entry
    Concurrency,    \* the --concurrency argument
    MAX_ATTEMPTS    \* attempts per host, the first included

ASSUME FanoutAssumption ==
    /\ IsFiniteSet(Task)
    /\ Concurrency \in Nat
    /\ MAX_ATTEMPTS \in Nat \ {0}

VARIABLES
    pc,         \* where each host task is
    permits,    \* free permits of the semaphore
    strategy,   \* resolved_strategy, the cell outside the time budget
    attempt,    \* attempts each task has behind it
    outcome,    \* each host's HostOutcome, once final
    snapshot,   \* the snapshot each task has handed to its put
    job,        \* the blocking put of each task
    recorded, answered,     \* the snapshot store (see SnapshotStore)
    started, finished,      \* calls of host_started and host_finished
    results,    \* the HostResults run_fanout has collected
    phase,      \* the main task: joining, returned, shutdown, exited
    exitCode

tasks    == <<pc, permits, strategy, attempt, outcome>>
put      == <<snapshot, job>>
store    == <<recorded, answered>>
progress == <<started, finished>>
main     == <<results, phase, exitCode>>
vars     == <<tasks, put, store, progress, main>>

Strategy == {"Probe", "Execute"}
Outcome == {"Succeeded", "Failed", "TimedOut", "Panicked"}
Budgeted == {"resolving", "scanning", "backoff", "putting"}
Holding == Budgeted \union {"finished"}
Locations == Holding \union {"waiting", "done", "panicked", "joined"}
JobState == {"none", "queued", "running", "written", "failed", "dropped"}

\* A task generates one idempotency key before its first attempt, so a task
\* stands for its key, and for the one scan it may record under it.
Scan == Task \X Strategy
NoScan == <<>>
ScanTask == [s \in Scan |-> s[1]]
Store == INSTANCE SnapshotStore WITH
    Key <- Task, Snapshot <- Scan, ScanId <- Task, HostId <- Task,
    ScanOf <- ScanTask, HostOf <- ScanTask, fetched <- {}, listed <- {}

\* Mutant: no floor under --concurrency.
PermitsAsAsked == Concurrency

\* A semaphore of size 0 would block every host for good.
InitialPermits == IF Concurrency = 0 THEN 1 ELSE Concurrency

Goto(t, there) == pc' = [pc EXCEPT ![t] = there]

\* Every task is spawned before the first is joined.
Init ==
    /\ pc = [t \in Task |-> "waiting"]
    /\ permits = InitialPermits
    /\ strategy = [t \in Task |-> "Probe"]
    /\ attempt = [t \in Task |-> 0]
    /\ outcome = [t \in Task |-> "none"]
    /\ snapshot = [t \in Task |-> NoScan]
    /\ job = [t \in Task |-> "none"]
    /\ recorded = {}
    /\ answered = {}
    /\ started = [t \in Task |-> 0]
    /\ finished = [t \in Task |-> 0]
    /\ results = {}
    /\ phase = "joining"
    /\ exitCode = "none"

-----------------------------------------------------------------------------
(* One host *)

AcquirePermit(t) ==
    /\ pc[t] = "waiting"
    /\ permits > 0
    /\ permits' = permits - 1
    /\ started' = [started EXCEPT ![t] = @ + 1]
    /\ Goto(t, "resolving")
    /\ UNCHANGED <<strategy, attempt, outcome, put, store, finished, main>>

ResolveStrategy(t) ==
    /\ pc[t] = "resolving"
    /\ \E s \in Strategy : strategy' = [strategy EXCEPT ![t] = s]
    /\ Goto(t, "scanning")
    /\ UNCHANGED <<permits, attempt, outcome, put, store, progress, main>>

\* The outcome is final: it is reported, and the task still has its permit.
Conclude(t, o) ==
    /\ outcome' = [outcome EXCEPT ![t] = o]
    /\ finished' = [finished EXCEPT ![t] = @ + 1]
    /\ Goto(t, "finished")

\* The scan of this attempt succeeded: put hands the snapshot to a blocking
\* thread and waits for it.
ScanSucceeds(t) ==
    /\ pc[t] = "scanning"
    /\ snapshot' = [snapshot EXCEPT ![t] = <<t, strategy[t]>>]
    /\ job' = [job EXCEPT ![t] = "queued"]
    /\ Goto(t, "putting")
    /\ UNCHANGED <<permits, strategy, attempt, outcome, store, progress, main>>

\* Mutant: off by one in the attempt count.
RetryOnceMore(t) ==
    /\ pc[t] = "scanning"
    /\ attempt' = [attempt EXCEPT ![t] = @ + 1]
    /\ IF attempt[t] + 1 <= MAX_ATTEMPTS
         THEN Goto(t, "backoff") /\ UNCHANGED <<outcome, finished>>
         ELSE Conclude(t, "Failed")
    /\ UNCHANGED <<permits, strategy, put, store, started, main>>

\* A retryable error: sleep and try again, unless this was the last attempt.
ScanRetryable(t) ==
    /\ pc[t] = "scanning"
    /\ attempt' = [attempt EXCEPT ![t] = @ + 1]
    /\ IF attempt[t] + 1 < MAX_ATTEMPTS
         THEN Goto(t, "backoff") /\ UNCHANGED <<outcome, finished>>
         ELSE Conclude(t, "Failed")
    /\ UNCHANGED <<permits, strategy, put, store, started, main>>

RetryAfterBackoff(t) ==
    /\ pc[t] = "backoff"
    /\ Goto(t, "scanning")
    /\ UNCHANGED <<permits, strategy, attempt, outcome, put, store, progress, main>>

\* Any other error ends the host; the scanner's own Timeout is reported as
\* TimedOut, like the budget's.
ScanTerminal(t) ==
    /\ pc[t] = "scanning"
    /\ \E o \in {"Failed", "TimedOut"} : Conclude(t, o)
    /\ UNCHANGED <<permits, strategy, attempt, put, store, started, main>>

\* Mutant: the blocking put is not awaited.
PutNotAwaited(t) ==
    /\ pc[t] = "putting"
    /\ Conclude(t, "Succeeded")
    /\ UNCHANGED <<permits, strategy, attempt, put, store, started, main>>

PutSucceeded(t) ==
    /\ pc[t] = "putting"
    /\ job[t] = "written"
    /\ Store!Answer(t)
    /\ Conclude(t, "Succeeded")
    /\ UNCHANGED <<permits, strategy, attempt, put, started, main>>

\* A store error, "locked" included, is terminal.
PutFailed(t) ==
    /\ pc[t] = "putting"
    /\ job[t] = "failed"
    /\ Conclude(t, "Failed")
    /\ UNCHANGED <<permits, strategy, attempt, put, store, started, main>>

\* Mutant: the budget also covers the report of the outcome.
BudgetCoversReport(t) ==
    /\ pc[t] \in Holding
    /\ outcome' = [outcome EXCEPT ![t] = "TimedOut"]
    /\ Goto(t, "finished")
    /\ UNCHANGED <<permits, strategy, attempt, put, store, progress, main>>

\* per_host_timeout elapses: whatever the task awaits is dropped. A put that
\* has been handed to the blocking pool goes on by itself.
BudgetElapses(t) ==
    /\ pc[t] \in Budgeted
    /\ Conclude(t, "TimedOut")
    /\ UNCHANGED <<permits, strategy, attempt, put, store, started, main>>

ReleasePermit(t) ==
    /\ pc[t] = "finished"
    /\ permits' = permits + 1
    /\ Goto(t, "done")
    /\ UNCHANGED <<strategy, attempt, outcome, put, store, progress, main>>

\* Mutant: only the normal path gives the permit back.
PanicKeepsPermit(t) ==
    /\ pc[t] \in {"resolving", "scanning"}
    /\ Goto(t, "panicked")
    /\ UNCHANGED <<permits, strategy, attempt, outcome, put, store, progress, main>>

\* The scanner panics: unwinding the task drops its permit.
Panic(t) ==
    /\ pc[t] \in {"resolving", "scanning"}
    /\ permits' = permits + 1
    /\ Goto(t, "panicked")
    /\ UNCHANGED <<strategy, attempt, outcome, put, store, progress, main>>

-----------------------------------------------------------------------------
(* The blocking pool, which knows nothing of budgets *)

JobStarts(t) ==
    /\ job[t] = "queued"
    /\ phase \in {"joining", "returned"}
    /\ job' = [job EXCEPT ![t] = "running"]
    /\ UNCHANGED <<tasks, snapshot, store, progress, main>>

JobCommits(t) ==
    /\ job[t] = "running"
    /\ Store!Commit(t, snapshot[t])
    /\ job' = [job EXCEPT ![t] = "written"]
    /\ UNCHANGED <<tasks, snapshot, progress, main>>

JobFails(t) ==
    /\ job[t] = "running"
    /\ job' = [job EXCEPT ![t] = "failed"]
    /\ UNCHANGED <<tasks, snapshot, store, progress, main>>

-----------------------------------------------------------------------------
(* The main task *)

\* Mutant: the strategy is lost with the future that the timeout drops.
TimeoutLosesStrategy(t) ==
    /\ phase = "joining"
    /\ pc[t] = "done"
    /\ results' = results \union
         {[task |-> t, outcome |-> outcome[t],
           strategy |-> IF outcome[t] = "TimedOut" THEN "Probe" ELSE strategy[t]]}
    /\ Goto(t, "joined")
    /\ UNCHANGED <<permits, strategy, attempt, outcome, put, store, progress, phase, exitCode>>

\* Mutant: a JoinError is not traced back to its host.
PanicHasNoHost(t) ==
    /\ phase = "joining"
    /\ pc[t] = "panicked"
    /\ Goto(t, "joined")
    /\ UNCHANGED <<permits, strategy, attempt, outcome, put, store, progress, main>>

JoinFinished(t) ==
    /\ phase = "joining"
    /\ pc[t] = "done"
    /\ results' = results \union
         {[task |-> t, strategy |-> strategy[t], outcome |-> outcome[t]]}
    /\ Goto(t, "joined")
    /\ UNCHANGED <<permits, strategy, attempt, outcome, put, store, progress, phase, exitCode>>

\* The task's JoinError leads back to its host through the map of task ids.
JoinPanicked(t) ==
    /\ phase = "joining"
    /\ pc[t] = "panicked"
    /\ outcome' = [outcome EXCEPT ![t] = "Panicked"]
    /\ finished' = [finished EXCEPT ![t] = @ + 1]
    /\ results' = results \union
         {[task |-> t, strategy |-> "Probe", outcome |-> "Panicked"]}
    /\ Goto(t, "joined")
    /\ UNCHANGED <<permits, strategy, attempt, put, store, started, phase, exitCode>>

\* Mutant: a timeout is not counted as a failure.
ReturnIgnoresTimeouts ==
    /\ phase = "joining"
    /\ \A t \in Task : pc[t] = "joined"
    /\ phase' = "returned"
    /\ exitCode' = IF \A r \in results : r.outcome \in {"Succeeded", "TimedOut"}
                     THEN "Clean" ELSE "OperationalError"
    /\ UNCHANGED <<tasks, put, store, progress, results>>

\* The JoinSet is empty; the CLI counts what did not succeed.
Return ==
    /\ phase = "joining"
    /\ \A t \in Task : pc[t] = "joined"
    /\ phase' = "returned"
    /\ exitCode' = IF \A r \in results : r.outcome = "Succeeded"
                     THEN "Clean" ELSE "OperationalError"
    /\ UNCHANGED <<tasks, put, store, progress, results>>

\* Dropping the runtime discards the blocking calls that have not started...
Shutdown ==
    /\ phase = "returned"
    /\ phase' = "shutdown"
    /\ job' = [t \in Task |-> IF job[t] = "queued" THEN "dropped" ELSE job[t]]
    /\ UNCHANGED <<tasks, snapshot, store, progress, results, exitCode>>

\* ...and waits for those that have.
Exit ==
    /\ phase = "shutdown"
    /\ \A t \in Task : job[t] # "running"
    /\ phase' = "exited"
    /\ UNCHANGED <<tasks, put, store, progress, results, exitCode>>

\* Nothing is left to do.
Terminated ==
    /\ phase = "exited"
    /\ UNCHANGED vars

Next ==
    \/ \E t \in Task :
        \/ AcquirePermit(t)
        \/ ResolveStrategy(t)
        \/ ScanSucceeds(t)
        \/ ScanRetryable(t)
        \/ RetryAfterBackoff(t)
        \/ ScanTerminal(t)
        \/ PutSucceeded(t)
        \/ PutFailed(t)
        \/ BudgetElapses(t)
        \/ ReleasePermit(t)
        \/ Panic(t)
        \/ JobStarts(t)
        \/ JobCommits(t)
        \/ JobFails(t)
        \/ JoinFinished(t)
        \/ JoinPanicked(t)
    \/ Return
    \/ Shutdown
    \/ Exit
    \/ Terminated

Spec == Init /\ [][Next]_vars

\* The runtime polls a task that can go on, the semaphore wakes a waiter when
\* a permit is free, and time passes, so that a budget that is being spent
\* ends. Nothing is assumed of the scanner or of the blocking threads.
Fairness ==
    /\ \A t \in Task :
        /\ WF_vars(AcquirePermit(t))
        /\ WF_vars(BudgetElapses(t))
        /\ WF_vars(ReleasePermit(t))
        /\ WF_vars(JoinFinished(t) \/ JoinPanicked(t))
    /\ WF_vars(Return)

\* The filesystem answers every call in the end, too.
FairStore ==
    /\ \A t \in Task : WF_vars(JobCommits(t) \/ JobFails(t))
    /\ WF_vars(Shutdown)
    /\ WF_vars(Exit)

-----------------------------------------------------------------------------
(* What makes a fleet scan correct *)

TypeOK ==
    /\ pc \in [Task -> Locations]
    /\ permits \in Nat
    /\ strategy \in [Task -> Strategy]
    /\ attempt \in [Task -> 0..MAX_ATTEMPTS]
    /\ outcome \in [Task -> Outcome \union {"none"}]
    /\ snapshot \in [Task -> Scan \union {NoScan}]
    /\ job \in [Task -> JobState]
    /\ recorded \in SUBSET [key : Task, snap : Scan]
    /\ answered \in SUBSET (Task \X Task)
    /\ started \in [Task -> 0..1]
    /\ finished \in [Task -> 0..1]
    /\ results \in SUBSET [task : Task, strategy : Strategy, outcome : Outcome]
    /\ phase \in {"joining", "returned", "shutdown", "exited"}
    /\ exitCode \in {"none", "Clean", "OperationalError"}

\* "Bounded to at most concurrency scans running at once": tasks between
\* their permit and their report never outnumber the permits, panics and
\* timeouts included, and no permit is lost on the way.
Scanning == {t \in Task : pc[t] \in Holding}
ConcurrencyBounded == Cardinality(Scanning) + permits = InitialPermits

\* "The host was scanned and its snapshot persisted": a host reported as
\* succeeded has its record in the store, in every state of the run, so an
\* interruption keeps it.
SucceededIsPersisted ==
    \A t \in Task :
        outcome[t] = "Succeeded" =>
            \E r \in recorded : r.key = t /\ <<t, ScanTask[r.snap]>> \in answered

\* The strategy of a result is the tier its snapshot was collected at, even
\* when the budget ended first and the snapshot landed later.
StrategyIsTruthful ==
    \A r \in results, s \in recorded : r.task = s.key => s.snap = <<r.task, r.strategy>>

\* Whoever returns has exactly one result for every host, and a host's start
\* and finish were reported once each.
EveryHostOnce ==
    /\ \A r, q \in results : r.task = q.task => r = q
    /\ phase # "joining" =>
        /\ {r.task : r \in results} = Task
        /\ \A t \in Task : started[t] = 1 /\ finished[t] = 1

\* Exit code 0 says that every host of the inventory is in the store.
CleanMeansAllPersisted ==
    exitCode = "Clean" => {r.key : r \in recorded} = Task

\* A host that was reported has had its last word: no later step changes an
\* outcome.
OutcomeIsFinal ==
    [][\A t \in Task : outcome[t] # "none" => outcome'[t] = outcome[t]]_outcome

\* "One host's timeout, ordinary failure, or task panic never aborts the
\* run": run_fanout returns whatever hangs, the scanner or the store.
RunReturns == <>(phase # "joining")

\* The process ends once the filesystem answers, whatever the scanner does.
ProcessExits == FairStore => <>(phase = "exited")

=============================================================================
