----------------------------- MODULE FanoutProofs -----------------------------
(***************************************************************************)
(* Proofs about Fanout, for any finite inventory, any --concurrency and    *)
(* any number of attempts.                                                 *)
(*                                                                         *)
(* The inductive invariant IInv ties what a host has reported to where its *)
(* task is (TaskInv), what the store holds to how far the host's blocking  *)
(* put has come (PutInv), and what the main task has collected to both     *)
(* (ResultInv).                                                            *)
(***************************************************************************)
EXTENDS Fanout, FiniteSetTheorems, TLAPS

\* Where a task has its last word, and where it has not asked for a put.
Reported == {"finished", "done", "joined"}
BeforePut == {"waiting", "resolving", "scanning", "backoff", "panicked"}

\* Start, finish and outcome of a host follow from where its task is, and an
\* attempt that is under way is one of MAX_ATTEMPTS.
TaskInv ==
    \A t \in Task :
        /\ started[t] = IF pc[t] = "waiting" THEN 0 ELSE 1
        /\ finished[t] = IF pc[t] \in Reported THEN 1 ELSE 0
        /\ outcome[t] # "none" <=> pc[t] \in Reported
        /\ pc[t] \in {"waiting", "resolving", "scanning", "backoff"} =>
             attempt[t] < MAX_ATTEMPTS

\* A record is the work of its own task's put, which was handed the snapshot
\* of the tier that was resolved.
PutInv ==
    /\ \A t \in Task :
        /\ pc[t] \in BeforePut => job[t] = "none"
        /\ job[t] # "none" => snapshot[t] = <<t, strategy[t]>>
        /\ job[t] = "written" => \E r \in recorded : r.key = t
        /\ outcome[t] = "Succeeded" => job[t] = "written" /\ <<t, t>> \in answered
        /\ outcome[t] = "Panicked" => job[t] = "none"
    /\ \A r \in recorded : job[r.key] = "written" /\ r.snap = snapshot[r.key]

\* Each joined task, and no other, has one result, which says what the task
\* said.
ResultInv ==
    /\ \A r, q \in results : r.task = q.task => r = q
    /\ \A r \in results :
        /\ pc[r.task] = "joined"
        /\ r.outcome = outcome[r.task]
        /\ job[r.task] # "none" => r.strategy = strategy[r.task]
    /\ \A t \in Task : pc[t] = "joined" => \E r \in results : r.task = t
    /\ phase # "joining" => \A t \in Task : pc[t] = "joined"
    /\ exitCode = "Clean" => phase # "joining" /\ \A r \in results : r.outcome = "Succeeded"

IInv ==
    /\ TypeOK
    /\ ConcurrencyBounded
    /\ TaskInv
    /\ PutInv
    /\ ResultInv

-----------------------------------------------------------------------------
(* The permits *)

\* The tasks that hold a permit are finitely many.
LEMMA ScanningFinite == IsFiniteSet(Scanning) /\ Cardinality(Scanning) \in Nat
<1>1. Scanning \subseteq Task
  BY DEF Scanning
<1> QED
  BY <1>1, FanoutAssumption, FS_Subset, FS_CardinalityType

\* A task that moves on without gaining or giving back its permit.
LEMMA KeepsPermit ==
    ASSUME TypeOK, ConcurrencyBounded, NEW t \in Task, NEW there, Goto(t, there),
           pc[t] \in Holding <=> there \in Holding, UNCHANGED permits
    PROVE  ConcurrencyBounded'
<1>1. Scanning' = Scanning
  BY DEF Scanning, Goto, TypeOK
<1> QED
  BY <1>1 DEF ConcurrencyBounded

\* A task that takes one.
LEMMA TakesPermit ==
    ASSUME TypeOK, ConcurrencyBounded, NEW t \in Task, NEW there, Goto(t, there),
           pc[t] \notin Holding, there \in Holding, permits > 0, permits' = permits - 1
    PROVE  ConcurrencyBounded'
<1>1. Scanning' = Scanning \union {t} /\ t \notin Scanning
  BY DEF Scanning, Goto, TypeOK
<1>2. Cardinality(Scanning') = Cardinality(Scanning) + 1
  BY <1>1, ScanningFinite, FS_AddElement
<1> QED
  BY <1>2, ScanningFinite DEF ConcurrencyBounded, TypeOK

\* A task that gives its permit back.
LEMMA GivesPermit ==
    ASSUME TypeOK, ConcurrencyBounded, NEW t \in Task, NEW there, Goto(t, there),
           pc[t] \in Holding, there \notin Holding, permits' = permits + 1
    PROVE  ConcurrencyBounded'
<1>1. Scanning' = Scanning \ {t} /\ t \in Scanning
  BY DEF Scanning, Goto, TypeOK
<1>2. Cardinality(Scanning') = Cardinality(Scanning) - 1
  BY <1>1, ScanningFinite, FS_RemoveElement
<1> QED
  BY <1>2, ScanningFinite DEF ConcurrencyBounded, TypeOK

-----------------------------------------------------------------------------
(* The invariant *)

\* A run begins with every permit free and nothing reported.
LEMMA InitIInv == Init => IInv
<1> SUFFICES ASSUME Init PROVE IInv
  OBVIOUS
<1> USE FanoutAssumption DEF Init
<1>1. TypeOK
  BY DEF TypeOK, Locations, Outcome, JobState, InitialPermits, Strategy
<1>2. ConcurrencyBounded
  <2>1. Scanning = {}
    BY DEF Scanning, Holding, Budgeted
  <2> QED
    BY <2>1, FS_EmptySet DEF ConcurrencyBounded, InitialPermits
<1>3. TaskInv
  BY DEF TaskInv, Reported
<1>4. PutInv
  BY DEF PutInv, BeforePut
<1>5. ResultInv
  BY DEF ResultInv
<1> QED
  BY <1>1, <1>2, <1>3, <1>4, <1>5 DEF IInv

\* Every step keeps it.
LEMMA NextIInv == IInv /\ [Next]_vars => IInv'
<1> SUFFICES ASSUME IInv, [Next]_vars PROVE IInv'
  OBVIOUS
<1> USE FanoutAssumption DEF IInv
<1>1. ASSUME NEW t \in Task, AcquirePermit(t)
      PROVE  IInv'
  <2> USE <1>1 DEF AcquirePermit, Goto, put, store, progress, main
  <2>a. started[t] = 0
    BY DEF TaskInv
  <2>1. TypeOK'
    BY <2>a DEF TypeOK, Locations, Holding, Budgeted, Outcome, JobState, Strategy, Scan
  <2>2. ConcurrencyBounded'
    BY TakesPermit DEF Holding, Budgeted
  <2>3. TaskInv'
    BY DEF TaskInv, TypeOK, Reported, Budgeted, Outcome
  <2>4. PutInv'
    BY DEF PutInv, TaskInv, TypeOK, BeforePut, Reported, Budgeted
  <2>5. ResultInv'
    BY DEF ResultInv, PutInv, TypeOK, BeforePut, Budgeted
  <2> QED
    BY <2>1, <2>2, <2>3, <2>4, <2>5
<1>2. ASSUME NEW t \in Task, ResolveStrategy(t)
      PROVE  IInv'
  <2> USE <1>2 DEF ResolveStrategy, Goto, put, store, progress, main
  <2>1. TypeOK'
    BY DEF TypeOK, Locations, Holding, Budgeted, Outcome, JobState, Strategy, Scan
  <2>2. ConcurrencyBounded'
    BY KeepsPermit DEF Holding, Budgeted
  <2>3. TaskInv'
    BY DEF TaskInv, TypeOK, Reported, Budgeted, Outcome
  <2>4. PutInv'
    BY DEF PutInv, TaskInv, TypeOK, BeforePut, Reported, Budgeted
  <2>5. ResultInv'
    BY DEF ResultInv, PutInv, TypeOK, BeforePut, Budgeted
  <2> QED
    BY <2>1, <2>2, <2>3, <2>4, <2>5
<1>3. ASSUME NEW t \in Task, ScanSucceeds(t)
      PROVE  IInv'
  <2> USE <1>3 DEF ScanSucceeds, Goto, put, store, progress, main
  <2>1. TypeOK'
    BY DEF TypeOK, Locations, Holding, Budgeted, Outcome, JobState, Strategy, Scan
  <2>2. ConcurrencyBounded'
    BY KeepsPermit DEF Holding, Budgeted
  <2>3. TaskInv'
    BY DEF TaskInv, TypeOK, Reported, Budgeted, Outcome
  <2>4. PutInv'
    BY ZenonT(60) DEF PutInv, TaskInv, TypeOK, BeforePut, Reported, Budgeted
  <2>5. ResultInv'
    BY DEF ResultInv, PutInv, TypeOK, BeforePut, Budgeted
  <2> QED
    BY <2>1, <2>2, <2>3, <2>4, <2>5
<1>4. ASSUME NEW t \in Task, ScanRetryable(t)
      PROVE  IInv'
  <2> USE <1>4 DEF ScanRetryable, Goto, Conclude, put, store, progress, main
  <2>a. finished[t] = 0
    BY DEF TaskInv, Reported, Budgeted
  <2>b. attempt[t] + 1 \in 0..MAX_ATTEMPTS
    BY DEF TaskInv, TypeOK
  <2>1. TypeOK'
    BY <2>a, <2>b DEF TypeOK, Locations, Holding, Budgeted, Outcome, JobState, Strategy, Scan
  <2>2. ConcurrencyBounded'
    BY KeepsPermit DEF Holding, Budgeted
  <2>3. TaskInv'
    BY DEF TaskInv, TypeOK, Reported, Budgeted, Outcome
  <2>4. PutInv'
    BY DEF PutInv, TaskInv, TypeOK, BeforePut, Reported, Budgeted
  <2>5. ResultInv'
    BY DEF ResultInv, PutInv, TypeOK, BeforePut, Budgeted
  <2> QED
    BY <2>1, <2>2, <2>3, <2>4, <2>5
<1>5. ASSUME NEW t \in Task, RetryAfterBackoff(t)
      PROVE  IInv'
  <2> USE <1>5 DEF RetryAfterBackoff, Goto, put, store, progress, main
  <2>1. TypeOK'
    BY DEF TypeOK, Locations, Holding, Budgeted, Outcome, JobState, Strategy, Scan
  <2>2. ConcurrencyBounded'
    BY KeepsPermit DEF Holding, Budgeted
  <2>3. TaskInv'
    BY DEF TaskInv, TypeOK, Reported, Budgeted, Outcome
  <2>4. PutInv'
    BY DEF PutInv, TaskInv, TypeOK, BeforePut, Reported, Budgeted
  <2>5. ResultInv'
    BY DEF ResultInv, PutInv, TypeOK, BeforePut, Budgeted
  <2> QED
    BY <2>1, <2>2, <2>3, <2>4, <2>5
<1>6. ASSUME NEW t \in Task, ScanTerminal(t)
      PROVE  IInv'
  <2> USE <1>6 DEF ScanTerminal, Goto, Conclude, put, store, progress, main
  <2>a. finished[t] = 0
    BY DEF TaskInv, Reported, Budgeted
  <2>1. TypeOK'
    BY <2>a DEF TypeOK, Locations, Holding, Budgeted, Outcome, JobState, Strategy, Scan
  <2>2. ConcurrencyBounded'
    BY KeepsPermit DEF Holding, Budgeted
  <2>3. TaskInv'
    BY DEF TaskInv, TypeOK, Reported, Budgeted, Outcome
  <2>4. PutInv'
    BY DEF PutInv, TaskInv, TypeOK, BeforePut, Reported, Budgeted
  <2>5. ResultInv'
    BY DEF ResultInv, PutInv, TypeOK, BeforePut, Budgeted
  <2> QED
    BY <2>1, <2>2, <2>3, <2>4, <2>5
<1>7. ASSUME NEW t \in Task, PutSucceeded(t)
      PROVE  IInv'
  <2> USE <1>7 DEF PutSucceeded, Goto, Conclude, Store!Answer, ScanTask, put, store, progress, main
  <2>a. finished[t] = 0
    BY DEF TaskInv, Reported, Budgeted
  <2>1. TypeOK'
    BY <2>a DEF TypeOK, Locations, Holding, Budgeted, Outcome, JobState, Strategy, Scan
  <2>2. ConcurrencyBounded'
    BY KeepsPermit DEF Holding, Budgeted
  <2>3. TaskInv'
    BY DEF TaskInv, TypeOK, Reported, Budgeted, Outcome
  <2>4. PutInv'
    BY DEF PutInv, TaskInv, TypeOK, BeforePut, Reported, Budgeted
  <2>5. ResultInv'
    BY DEF ResultInv, PutInv, TypeOK, BeforePut, Budgeted
  <2> QED
    BY <2>1, <2>2, <2>3, <2>4, <2>5
<1>8. ASSUME NEW t \in Task, PutFailed(t)
      PROVE  IInv'
  <2> USE <1>8 DEF PutFailed, Goto, Conclude, put, store, progress, main
  <2>a. finished[t] = 0
    BY DEF TaskInv, Reported, Budgeted
  <2>1. TypeOK'
    BY <2>a DEF TypeOK, Locations, Holding, Budgeted, Outcome, JobState, Strategy, Scan
  <2>2. ConcurrencyBounded'
    BY KeepsPermit DEF Holding, Budgeted
  <2>3. TaskInv'
    BY DEF TaskInv, TypeOK, Reported, Budgeted, Outcome
  <2>4. PutInv'
    BY DEF PutInv, TaskInv, TypeOK, BeforePut, Reported, Budgeted
  <2>5. ResultInv'
    BY DEF ResultInv, PutInv, TypeOK, BeforePut, Budgeted
  <2> QED
    BY <2>1, <2>2, <2>3, <2>4, <2>5
<1>9. ASSUME NEW t \in Task, BudgetElapses(t)
      PROVE  IInv'
  <2> USE <1>9 DEF BudgetElapses, Goto, Conclude, put, store, progress, main
  <2>a. finished[t] = 0
    BY DEF TaskInv, Reported, Budgeted
  <2>1. TypeOK'
    BY <2>a DEF TypeOK, Locations, Holding, Budgeted, Outcome, JobState, Strategy, Scan
  <2>2. ConcurrencyBounded'
    BY KeepsPermit DEF Holding, Budgeted
  <2>3. TaskInv'
    BY DEF TaskInv, TypeOK, Reported, Budgeted, Outcome
  <2>4. PutInv'
    BY DEF PutInv, TaskInv, TypeOK, BeforePut, Reported, Budgeted
  <2>5. ResultInv'
    BY DEF ResultInv, PutInv, TypeOK, BeforePut, Budgeted
  <2> QED
    BY <2>1, <2>2, <2>3, <2>4, <2>5
<1>10. ASSUME NEW t \in Task, ReleasePermit(t)
      PROVE  IInv'
  <2> USE <1>10 DEF ReleasePermit, Goto, put, store, progress, main
  <2>1. TypeOK'
    BY DEF TypeOK, Locations, Holding, Budgeted, Outcome, JobState, Strategy, Scan
  <2>2. ConcurrencyBounded'
    BY GivesPermit DEF Holding, Budgeted
  <2>3. TaskInv'
    BY DEF TaskInv, TypeOK, Reported, Budgeted, Outcome
  <2>4. PutInv'
    BY DEF PutInv, TaskInv, TypeOK, BeforePut, Reported, Budgeted
  <2>5. ResultInv'
    BY DEF ResultInv, PutInv, TypeOK, BeforePut, Budgeted
  <2> QED
    BY <2>1, <2>2, <2>3, <2>4, <2>5
<1>11. ASSUME NEW t \in Task, Panic(t)
      PROVE  IInv'
  <2> USE <1>11 DEF Panic, Goto, put, store, progress, main
  <2>1. TypeOK'
    BY DEF TypeOK, Locations, Holding, Budgeted, Outcome, JobState, Strategy, Scan
  <2>2. ConcurrencyBounded'
    BY GivesPermit DEF Holding, Budgeted
  <2>3. TaskInv'
    BY DEF TaskInv, TypeOK, Reported, Budgeted, Outcome
  <2>4. PutInv'
    BY DEF PutInv, TaskInv, TypeOK, BeforePut, Reported, Budgeted
  <2>5. ResultInv'
    BY DEF ResultInv, PutInv, TypeOK, BeforePut, Budgeted
  <2> QED
    BY <2>1, <2>2, <2>3, <2>4, <2>5
<1>12. ASSUME NEW t \in Task, JobStarts(t)
      PROVE  IInv'
  <2> USE <1>12 DEF JobStarts, tasks, put, store, progress, main
  <2>1. TypeOK'
    BY DEF TypeOK, Locations, Holding, Budgeted, Outcome, JobState, Strategy, Scan
  <2>2. ConcurrencyBounded'
    BY DEF ConcurrencyBounded, Scanning, TypeOK
  <2>3. TaskInv'
    BY DEF TaskInv, TypeOK, Reported, Budgeted, Outcome
  <2>4. PutInv'
    BY DEF PutInv, TaskInv, TypeOK, BeforePut, Reported, Budgeted
  <2>5. ResultInv'
    BY DEF ResultInv, PutInv, TypeOK, BeforePut, Budgeted
  <2> QED
    BY <2>1, <2>2, <2>3, <2>4, <2>5
<1>13. ASSUME NEW t \in Task, JobCommits(t)
      PROVE  IInv'
  <2> USE <1>13 DEF JobCommits, tasks, Store!Commit, put, store, progress, main
  <2>a. snapshot[t] = <<t, strategy[t]>> /\ snapshot[t] \in Scan
    <3>1. job[t] # "none" /\ strategy[t] \in Strategy
      BY DEF TypeOK
    <3>2. snapshot[t] = <<t, strategy[t]>>
      BY <3>1 DEF PutInv
    <3> QED
      BY <3>1, <3>2 DEF Scan
  <2>b. recorded' = recorded \union {[key |-> t, snap |-> snapshot[t]]}
    OBVIOUS
  <2>1. TypeOK'
    BY <2>a DEF TypeOK, Locations, Holding, Budgeted, Outcome, JobState, Strategy, Scan
  <2>2. ConcurrencyBounded'
    BY DEF ConcurrencyBounded, Scanning, TypeOK
  <2>3. TaskInv'
    BY DEF TaskInv, TypeOK, Reported, Budgeted, Outcome
  <2>4. PutInv'
    <3>1. \A r \in recorded : r.key # t /\ r.key \in Task
      BY DEF TypeOK
    <3>2. \A r \in recorded' : job'[r.key] = "written" /\ r.snap = snapshot'[r.key]
      BY <2>b, <3>1 DEF PutInv, TypeOK
    <3>3. \E r \in recorded' : r.key = t
      <4>1. [key |-> t, snap |-> snapshot[t]] \in recorded'
        BY <2>b
      <4> QED
        BY <4>1
    <3>4. \A u \in Task : job'[u] = "written" => \E r \in recorded' : r.key = u
      BY <2>b, <3>3 DEF PutInv, TypeOK
    <3> QED
      BY <2>a, <3>2, <3>4 DEF PutInv, TypeOK, BeforePut
  <2>5. ResultInv'
    BY DEF ResultInv, PutInv, TypeOK, BeforePut, Budgeted
  <2> QED
    BY <2>1, <2>2, <2>3, <2>4, <2>5
<1>14. ASSUME NEW t \in Task, JobFails(t)
      PROVE  IInv'
  <2> USE <1>14 DEF JobFails, tasks, put, store, progress, main
  <2>1. TypeOK'
    BY DEF TypeOK, Locations, Holding, Budgeted, Outcome, JobState, Strategy, Scan
  <2>2. ConcurrencyBounded'
    BY DEF ConcurrencyBounded, Scanning, TypeOK
  <2>3. TaskInv'
    BY DEF TaskInv, TypeOK, Reported, Budgeted, Outcome
  <2>4. PutInv'
    BY DEF PutInv, TaskInv, TypeOK, BeforePut, Reported, Budgeted
  <2>5. ResultInv'
    BY DEF ResultInv, PutInv, TypeOK, BeforePut, Budgeted
  <2> QED
    BY <2>1, <2>2, <2>3, <2>4, <2>5
<1>15. ASSUME NEW t \in Task, JoinFinished(t)
      PROVE  IInv'
  <2> USE <1>15 DEF JoinFinished, Goto, put, store, progress, main
  <2>a. outcome[t] \in Outcome
    BY DEF TaskInv, TypeOK, Reported
  <2>b. PICK new : /\ new = [task |-> t, strategy |-> strategy[t], outcome |-> outcome[t]]
                  /\ results' = results \union {new}
    OBVIOUS
  <2>c. \A r \in results : r.task \in Task /\ r.task # t
    BY DEF ResultInv, TypeOK
  <2>1. TypeOK'
    BY <2>a DEF TypeOK, Locations, Holding, Budgeted, Outcome, JobState, Strategy, Scan
  <2>2. ConcurrencyBounded'
    BY KeepsPermit DEF Holding, Budgeted
  <2>3. TaskInv'
    BY DEF TaskInv, TypeOK, Reported, Budgeted, Outcome
  <2>4. PutInv'
    BY DEF PutInv, TaskInv, TypeOK, BeforePut, Reported, Budgeted
  <2>5. ResultInv'
    <3>1. \A r, q \in results' : r.task = q.task => r = q
      BY <2>b, <2>c DEF ResultInv
    <3>2. \A r \in results' :
            /\ pc'[r.task] = "joined"
            /\ r.outcome = outcome'[r.task]
            /\ job'[r.task] # "none" => r.strategy = strategy'[r.task]
      BY <2>a, <2>b, <2>c DEF ResultInv, TypeOK
    <3>3. \A u \in Task : pc'[u] = "joined" => \E r \in results' : r.task = u
      BY <2>b DEF ResultInv, TypeOK
    <3> QED
      BY <3>1, <3>2, <3>3 DEF ResultInv, TypeOK
  <2> QED
    BY <2>1, <2>2, <2>3, <2>4, <2>5
<1>16. ASSUME NEW t \in Task, JoinPanicked(t)
      PROVE  IInv'
  <2> USE <1>16 DEF JoinPanicked, Goto, put, store, progress, main
  <2>a. finished[t] = 0 /\ job[t] = "none"
    BY DEF TaskInv, PutInv, Reported, BeforePut
  <2>b. PICK new : /\ new = [task |-> t, strategy |-> "Probe", outcome |-> "Panicked"]
                  /\ results' = results \union {new}
    OBVIOUS
  <2>c. \A r \in results : r.task \in Task /\ r.task # t
    BY DEF ResultInv, TypeOK
  <2>1. TypeOK'
    BY <2>a DEF TypeOK, Locations, Holding, Budgeted, Outcome, JobState, Strategy, Scan
  <2>2. ConcurrencyBounded'
    BY KeepsPermit DEF Holding, Budgeted
  <2>3. TaskInv'
    BY DEF TaskInv, TypeOK, Reported, Budgeted, Outcome
  <2>4. PutInv'
    BY DEF PutInv, TaskInv, TypeOK, BeforePut, Reported, Budgeted
  <2>5. ResultInv'
    <3>1. \A r, q \in results' : r.task = q.task => r = q
      BY <2>b, <2>c DEF ResultInv
    <3>2. \A r \in results' :
            /\ pc'[r.task] = "joined"
            /\ r.outcome = outcome'[r.task]
            /\ job'[r.task] # "none" => r.strategy = strategy'[r.task]
      BY <2>a, <2>b, <2>c DEF ResultInv, TypeOK
    <3>3. \A u \in Task : pc'[u] = "joined" => \E r \in results' : r.task = u
      BY <2>b DEF ResultInv, TypeOK
    <3> QED
      BY <3>1, <3>2, <3>3 DEF ResultInv, TypeOK
  <2> QED
    BY <2>1, <2>2, <2>3, <2>4, <2>5
<1>17. ASSUME Return
      PROVE  IInv'
  <2> USE <1>17 DEF Return, tasks, put, store, progress, main
  <2>1. TypeOK'
    BY DEF TypeOK, Locations, Holding, Budgeted, Outcome, JobState, Strategy, Scan
  <2>2. ConcurrencyBounded'
    BY DEF ConcurrencyBounded, Scanning, TypeOK
  <2>3. TaskInv'
    BY DEF TaskInv, TypeOK, Reported, Budgeted, Outcome
  <2>4. PutInv'
    BY DEF PutInv, TaskInv, TypeOK, BeforePut, Reported, Budgeted
  <2>5. ResultInv'
    BY DEF ResultInv, PutInv, TypeOK, BeforePut, Budgeted
  <2> QED
    BY <2>1, <2>2, <2>3, <2>4, <2>5
<1>18. ASSUME Shutdown
      PROVE  IInv'
  <2> USE <1>18 DEF Shutdown, tasks, put, store, progress, main
  <2>1. TypeOK'
    BY DEF TypeOK, Locations, Holding, Budgeted, Outcome, JobState, Strategy, Scan
  <2>2. ConcurrencyBounded'
    BY DEF ConcurrencyBounded, Scanning, TypeOK
  <2>3. TaskInv'
    BY DEF TaskInv, TypeOK, Reported, Budgeted, Outcome
  <2>4. PutInv'
    BY DEF PutInv, TaskInv, TypeOK, BeforePut, Reported, Budgeted
  <2>5. ResultInv'
    BY DEF ResultInv, PutInv, TypeOK, BeforePut, Budgeted
  <2> QED
    BY <2>1, <2>2, <2>3, <2>4, <2>5
<1>19. ASSUME Exit
      PROVE  IInv'
  <2> USE <1>19 DEF Exit, tasks, put, store, progress, main
  <2>1. TypeOK'
    BY DEF TypeOK, Locations, Holding, Budgeted, Outcome, JobState, Strategy, Scan
  <2>2. ConcurrencyBounded'
    BY DEF ConcurrencyBounded, Scanning, TypeOK
  <2>3. TaskInv'
    BY DEF TaskInv, TypeOK, Reported, Budgeted, Outcome
  <2>4. PutInv'
    BY DEF PutInv, TaskInv, TypeOK, BeforePut, Reported, Budgeted
  <2>5. ResultInv'
    BY DEF ResultInv, PutInv, TypeOK, BeforePut, Budgeted
  <2> QED
    BY <2>1, <2>2, <2>3, <2>4, <2>5
<1>20. ASSUME UNCHANGED vars
      PROVE  IInv'
  BY <1>20 DEF vars, tasks, put, store, progress, main, TypeOK, ConcurrencyBounded, Scanning,
     TaskInv, PutInv, ResultInv
<1> QED
  BY <1>1, <1>2, <1>3, <1>4, <1>5, <1>6, <1>7, <1>8, <1>9, <1>10, <1>11, <1>12, <1>13, <1>14, <1>15, <1>16, <1>17, <1>18, <1>19, <1>20 DEF Next, Terminated

\* IInv is an invariant.
LEMMA Invariance == Spec => []IInv
<1> QED
  BY InitIInv, NextIInv, PTL DEF Spec

-----------------------------------------------------------------------------
(* The theorems *)

\* Every variable keeps its type: no host runs a MAX_ATTEMPTS + 1st attempt,
\* and none is reported as started or finished twice.
THEOREM TypeCorrect == Spec => []TypeOK
<1>1. IInv => TypeOK
  BY DEF IInv
<1> QED
  BY <1>1, Invariance, PTL

\* Tasks with a permit and free permits always add up to the semaphore's size:
\* timeouts and panics neither exceed --concurrency nor use it up.
THEOREM PermitsAreConserved == Spec => []ConcurrencyBounded
<1>1. IInv => ConcurrencyBounded
  BY DEF IInv
<1> QED
  BY <1>1, Invariance, PTL

\* A host reported as succeeded has its record in the store.
THEOREM SuccessIsDurable == Spec => []SucceededIsPersisted
<1>1. IInv => SucceededIsPersisted
  <2> SUFFICES ASSUME IInv, NEW t \in Task, outcome[t] = "Succeeded"
               PROVE  \E r \in recorded : r.key = t /\ <<t, ScanTask[r.snap]>> \in answered
    BY DEF SucceededIsPersisted
  <2>1. job[t] = "written" /\ <<t, t>> \in answered
    BY DEF IInv, PutInv
  <2>2. PICK r \in recorded : r.key = t
    BY <2>1 DEF IInv, PutInv
  <2>3. r.snap = <<t, strategy[t]>> /\ r.snap \in Scan
    BY <2>1, <2>2 DEF IInv, PutInv, TypeOK
  <2>4. ScanTask[r.snap] = t
    BY <2>3 DEF ScanTask
  <2> QED
    BY <2>1, <2>2, <2>4
<1> QED
  BY <1>1, Invariance, PTL

\* The tier a result names is the tier of the snapshot in the store, also when
\* the snapshot landed after the host was reported as timed out.
THEOREM ReportedTierIsStored == Spec => []StrategyIsTruthful
<1>1. IInv => StrategyIsTruthful
  <2> SUFFICES ASSUME IInv, NEW r \in results, NEW s \in recorded, r.task = s.key
               PROVE  s.snap = <<r.task, r.strategy>>
    BY DEF StrategyIsTruthful
  <2>1. r.task \in Task
    BY DEF IInv, TypeOK
  <2>2. job[r.task] = "written" /\ s.snap = snapshot[r.task]
    BY DEF IInv, PutInv
  <2>3. snapshot[r.task] = <<r.task, strategy[r.task]>>
    BY <2>1, <2>2 DEF IInv, PutInv
  <2>4. r.strategy = strategy[r.task]
    BY <2>2 DEF IInv, ResultInv
  <2> QED
    BY <2>2, <2>3, <2>4
<1> QED
  BY <1>1, Invariance, PTL

\* run_fanout returns one result for each host, whatever hung or panicked.
THEOREM EveryHostIsReported == Spec => []EveryHostOnce
<1>1. IInv => EveryHostOnce
  BY DEF IInv, EveryHostOnce, ResultInv, TaskInv, Reported, TypeOK
<1> QED
  BY <1>1, Invariance, PTL

\* Exit code 0 means that the whole inventory is in the store.
THEOREM CleanExitIsComplete == Spec => []CleanMeansAllPersisted
<1>1. IInv => CleanMeansAllPersisted
  <2> SUFFICES ASSUME IInv, exitCode = "Clean"
               PROVE  {r.key : r \in recorded} = Task
    BY DEF CleanMeansAllPersisted
  <2>1. \A t \in Task : \E r \in results : r.task = t /\ r.outcome = "Succeeded"
    BY DEF IInv, ResultInv
  <2>2. \A t \in Task : outcome[t] = "Succeeded"
    BY <2>1 DEF IInv, ResultInv
  <2>3. \A t \in Task : \E r \in recorded : r.key = t
    BY <2>2 DEF IInv, PutInv
  <2>4. \A r \in recorded : r.key \in Task
    BY DEF IInv, TypeOK
  <2> QED
    BY <2>3, <2>4
<1> QED
  BY <1>1, Invariance, PTL

\* No step takes back the outcome of a host that has one.
THEOREM LastWordStands == Spec => OutcomeIsFinal
<1>1. IInv /\ [Next]_vars => [\A t \in Task : outcome[t] # "none" => outcome'[t] = outcome[t]]_outcome
  <2> SUFFICES ASSUME IInv, Next, NEW u \in Task, outcome[u] # "none"
               PROVE  outcome'[u] = outcome[u]
    BY DEF vars, tasks
  <2>1. pc[u] \in Reported
    BY DEF IInv, TaskInv
  <2>2. CASE \E t \in Task : ScanRetryable(t) \/ ScanTerminal(t) \/ PutSucceeded(t)
                             \/ PutFailed(t) \/ BudgetElapses(t) \/ JoinPanicked(t)
    BY <2>1, <2>2 DEF IInv, TypeOK, Reported, Budgeted, Conclude, ScanRetryable, ScanTerminal,
       PutSucceeded, PutFailed, BudgetElapses, JoinPanicked
  <2>3. CASE UNCHANGED outcome
    BY <2>3
  <2> QED
    BY <2>2, <2>3 DEF Next, AcquirePermit, ResolveStrategy, ScanSucceeds, RetryAfterBackoff,
       ReleasePermit, Panic, JobStarts, JobCommits, JobFails, JoinFinished, Return, Shutdown,
       Exit, Terminated, tasks, vars
<1> QED
  BY <1>1, Invariance, PTL DEF Spec, OutcomeIsFinal

=============================================================================
