----------------------------- MODULE WaitingProofs -----------------------------
(***************************************************************************)
(* Proofs about Waiting, for any values of the components' constants.      *)
(*                                                                         *)
(* A step of the whole is a step of one component and leaves the others as *)
(* they are, so the components' inductive invariants together are one of   *)
(* the whole. The collector's is found here; those of the store, the       *)
(* fan-out and the prober are the ones of FsSnapshotStoreProofs,           *)
(* FanoutProofs and ProberProofs, whose definitions are, one by one, those *)
(* of the components in here.                                              *)
(***************************************************************************)
EXTENDS Waiting, TLAPS

-----------------------------------------------------------------------------
(***************************************************************************)
(* PowerShellCollector. A child runs only while its call waits for it, has *)
(* its output in place when it has succeeded, and none once the call is    *)
(* over, unless the removal was refused or nobody came to read it          *)
(* (CallInv); what is parsed was read from a script that ended well, and   *)
(* the cache, once filled, is what every call answers with (CacheInv).     *)
(***************************************************************************)
Payload == 0 .. MAX_CHANGES

PowerShellTyped == PS!TypeOK /\ parsed \in [Caller -> Payload \union {NoPayload}]

CallInv ==
    \A c \in Caller :
        /\ ps_place[c] \in {"idle", "spawn"} => child[c] = "none"
        /\ child[c] = "none" => output[c] = NoPayload
        /\ child[c] = "running" => ps_place[c] = "wait"
        /\ ps_place[c] \in {"read", "remove", "store"} => child[c] = "succeeded"
        /\ ps_place[c] \in {"wait", "read"} /\ child[c] = "succeeded" => output[c] # NoPayload
        /\ ps_place[c] = "store" => output[c] = NoPayload \/ c \in unremoved
        /\ ps_answer[c] # "none" => ps_place[c] = "done"
        /\ ps_place[c] = "done" /\ output[c] # NoPayload =>
             \/ c \in unremoved \/ child[c] = "failed"
             \/ ps_answer[c] \in {"timeout", "unreadable"}

CacheInv ==
    /\ \A c \in Caller :
        /\ ps_place[c] \in {"remove", "store"} => parsed[c] # NoPayload
        /\ ps_answer[c] = "payload" => cached # NoPayload /\ parsed[c] = cached
    /\ cached # NoPayload =>
         \E c \in Caller : ps_answer[c] = "payload" /\ child[c] = "succeeded"

PowerShellInv == PowerShellTyped /\ CallInv /\ CacheInv

\* No child was spawned and nothing is cached.
LEMMA PowerShellInit == PS!PowerShellAssumption /\ PS!Init => PowerShellInv
<1> SUFFICES ASSUME PS!PowerShellAssumption, PS!Init PROVE PowerShellInv
  OBVIOUS
<1>1. PowerShellTyped
  BY DEF PS!PowerShellAssumption, PS!Init, PowerShellTyped, PS!TypeOK, Payload
<1>2. CallInv /\ CacheInv
  BY DEF PS!Init, CallInv, CacheInv
<1> QED
  BY <1>1, <1>2 DEF PowerShellInv

\* Every step of a call and of a script, and every change of the host, keeps the invariant.
LEMMA PowerShellNext ==
    PS!PowerShellAssumption /\ PowerShellInv /\ (PS!Next \/ UNCHANGED PS!ps_vars) => PowerShellInv'
<1> SUFFICES ASSUME PS!PowerShellAssumption, PowerShellInv, PS!Next \/ UNCHANGED PS!ps_vars
             PROVE  PowerShellInv'
  OBVIOUS
<1>a. PowerShellTyped /\ CallInv /\ CacheInv
  BY DEF PowerShellInv
<1>b. PIPE \in Nat /\ MAX_CHANGES \in Nat /\ NoPayload \notin Payload
  BY DEF PS!PowerShellAssumption, Payload
<1> USE DEF PS!Finish
<1>1. ASSUME NEW c \in Caller, PS!LookInCache(c)
      PROVE  PowerShellInv'
  <2>1. PowerShellTyped'
    BY <1>a, <1>b, <1>1 DEF PS!LookInCache, PowerShellTyped, PS!TypeOK, Payload
  <2>2. CallInv'
    BY <1>a, <1>b, <1>1 DEF PS!LookInCache, CallInv, PowerShellTyped, PS!TypeOK, Payload
  <2>3. CacheInv'
    BY <1>a, <1>b, <1>1 DEF PS!LookInCache, CallInv, CacheInv, PowerShellTyped, PS!TypeOK, Payload
  <2> QED
    BY <2>1, <2>2, <2>3 DEF PowerShellInv
<1>2. ASSUME NEW c \in Caller, PS!Spawn(c)
      PROVE  PowerShellInv'
  <2>1. PowerShellTyped'
    BY <1>a, <1>b, <1>2 DEF PS!Spawn, PowerShellTyped, PS!TypeOK, Payload
  <2>2. CallInv'
    BY <1>a, <1>b, <1>2 DEF PS!Spawn, CallInv, PowerShellTyped, PS!TypeOK, Payload
  <2>3. CacheInv'
    BY <1>a, <1>b, <1>2 DEF PS!Spawn, CallInv, CacheInv, PowerShellTyped, PS!TypeOK, Payload
  <2> QED
    BY <2>1, <2>2, <2>3 DEF PowerShellInv
<1>3. ASSUME NEW c \in Caller, PS!ScriptComplains(c)
      PROVE  PowerShellInv'
  <2>1. PowerShellTyped'
    BY <1>a, <1>b, <1>3 DEF PS!ScriptComplains, PowerShellTyped, PS!TypeOK, Payload
  <2>2. CallInv'
    BY <1>a, <1>b, <1>3 DEF PS!ScriptComplains, CallInv, PowerShellTyped, PS!TypeOK, Payload
  <2>3. CacheInv'
    BY <1>a, <1>b, <1>3 DEF PS!ScriptComplains, CallInv, CacheInv, PowerShellTyped, PS!TypeOK,
       Payload
  <2> QED
    BY <2>1, <2>2, <2>3 DEF PowerShellInv
<1>4. ASSUME NEW c \in Caller, PS!ScriptPublishes(c)
      PROVE  PowerShellInv'
  <2>1. PowerShellTyped'
    BY <1>a, <1>b, <1>4 DEF PS!ScriptPublishes, PowerShellTyped, PS!TypeOK, Payload
  <2>2. CallInv'
    BY <1>a, <1>b, <1>4 DEF PS!ScriptPublishes, CallInv, PowerShellTyped, PS!TypeOK, Payload
  <2>3. CacheInv'
    BY <1>a, <1>b, <1>4 DEF PS!ScriptPublishes, CallInv, CacheInv, PowerShellTyped, PS!TypeOK,
       Payload
  <2> QED
    BY <2>1, <2>2, <2>3 DEF PowerShellInv
<1>5. ASSUME NEW c \in Caller, PS!ScriptEnds(c)
      PROVE  PowerShellInv'
  <2>1. PowerShellTyped'
    BY <1>a, <1>b, <1>5 DEF PS!ScriptEnds, PowerShellTyped, PS!TypeOK, Payload
  <2>2. CallInv'
    BY <1>a, <1>b, <1>5 DEF PS!ScriptEnds, CallInv, PowerShellTyped, PS!TypeOK, Payload
  <2>3. CacheInv'
    BY <1>a, <1>b, <1>5 DEF PS!ScriptEnds, CallInv, CacheInv, PowerShellTyped, PS!TypeOK, Payload
  <2> QED
    BY <2>1, <2>2, <2>3 DEF PowerShellInv
<1>6. ASSUME NEW c \in Caller, PS!DrainStderr(c)
      PROVE  PowerShellInv'
  <2>1. PowerShellTyped'
    BY <1>a, <1>b, <1>6 DEF PS!DrainStderr, PowerShellTyped, PS!TypeOK, Payload
  <2>2. CallInv'
    BY <1>a, <1>b, <1>6 DEF PS!DrainStderr, CallInv, PowerShellTyped, PS!TypeOK, Payload
  <2>3. CacheInv'
    BY <1>a, <1>b, <1>6 DEF PS!DrainStderr, CallInv, CacheInv, PowerShellTyped, PS!TypeOK, Payload
  <2> QED
    BY <2>1, <2>2, <2>3 DEF PowerShellInv
<1>7. ASSUME NEW c \in Caller, PS!ChildExited(c)
      PROVE  PowerShellInv'
  <2>1. PowerShellTyped'
    BY <1>a, <1>b, <1>7 DEF PS!ChildExited, PowerShellTyped, PS!TypeOK, Payload
  <2>2. CallInv'
    BY <1>a, <1>b, <1>7 DEF PS!ChildExited, CallInv, PowerShellTyped, PS!TypeOK, Payload
  <2>3. CacheInv'
    BY <1>a, <1>b, <1>7 DEF PS!ChildExited, CallInv, CacheInv, PowerShellTyped, PS!TypeOK, Payload
  <2> QED
    BY <2>1, <2>2, <2>3 DEF PowerShellInv
<1>8. ASSUME NEW c \in Caller, PS!Timeout(c)
      PROVE  PowerShellInv'
  <2>1. PowerShellTyped'
    BY <1>a, <1>b, <1>8 DEF PS!Timeout, PowerShellTyped, PS!TypeOK, Payload
  <2>2. CallInv'
    BY <1>a, <1>b, <1>8 DEF PS!Timeout, CallInv, PowerShellTyped, PS!TypeOK, Payload
  <2>3. CacheInv'
    BY <1>a, <1>b, <1>8 DEF PS!Timeout, CallInv, CacheInv, PowerShellTyped, PS!TypeOK, Payload
  <2> QED
    BY <2>1, <2>2, <2>3 DEF PowerShellInv
<1>9. ASSUME NEW c \in Caller, PS!ReadOutput(c)
      PROVE  PowerShellInv'
  <2>1. PowerShellTyped'
    BY <1>a, <1>b, <1>9 DEF PS!ReadOutput, PowerShellTyped, PS!TypeOK, Payload
  <2>2. CallInv'
    BY <1>a, <1>b, <1>9 DEF PS!ReadOutput, CallInv, PowerShellTyped, PS!TypeOK, Payload
  <2>3. CacheInv'
    BY <1>a, <1>b, <1>9 DEF PS!ReadOutput, CallInv, CacheInv, PowerShellTyped, PS!TypeOK, Payload
  <2> QED
    BY <2>1, <2>2, <2>3 DEF PowerShellInv
<1>10. ASSUME NEW c \in Caller, PS!Store(c)
      PROVE  PowerShellInv'
  <2>1. PowerShellTyped'
    BY <1>a, <1>b, <1>10 DEF PS!Store, PowerShellTyped, PS!TypeOK, Payload
  <2>2. CallInv'
    BY <1>a, <1>b, <1>10 DEF PS!Store, CallInv, PowerShellTyped, PS!TypeOK, Payload
  <2>3. CacheInv'
    BY <1>a, <1>b, <1>10 DEF PS!Store, CallInv, CacheInv, PowerShellTyped, PS!TypeOK, Payload
  <2> QED
    BY <2>1, <2>2, <2>3 DEF PowerShellInv
<1>11. ASSUME NEW c \in Caller, PS!Cancel(c)
      PROVE  PowerShellInv'
  <2>1. PowerShellTyped'
    BY <1>a, <1>b, <1>11 DEF PS!Cancel, PowerShellTyped, PS!TypeOK, Payload
  <2>2. CallInv'
    BY <1>a, <1>b, <1>11 DEF PS!Cancel, CallInv, PowerShellTyped, PS!TypeOK, Payload
  <2>3. CacheInv'
    BY <1>a, <1>b, <1>11 DEF PS!Cancel, CallInv, CacheInv, PowerShellTyped, PS!TypeOK, Payload
  <2> QED
    BY <2>1, <2>2, <2>3 DEF PowerShellInv
<1>14. ASSUME NEW c \in Caller, PS!RemoveOutput(c)
      PROVE  PowerShellInv'
  <2>1. PowerShellTyped'
    BY <1>a, <1>b, <1>14 DEF PS!RemoveOutput, PowerShellTyped, PS!TypeOK, Payload
  <2>2. CallInv'
    BY <1>a, <1>b, <1>14 DEF PS!RemoveOutput, CallInv, PowerShellTyped, PS!TypeOK, Payload
  <2>3. CacheInv'
    BY <1>a, <1>b, <1>14 DEF PS!RemoveOutput, CallInv, CacheInv, PowerShellTyped, PS!TypeOK, Payload
  <2> QED
    BY <2>1, <2>2, <2>3 DEF PowerShellInv
<1>12. CASE PS!HostChanges
  BY <1>a, <1>b, <1>12 DEF PS!HostChanges, PowerShellInv, PowerShellTyped, PS!TypeOK, CallInv,
     CacheInv
<1>13. CASE PS!Terminated \/ UNCHANGED PS!ps_vars
  BY <1>a, <1>13 DEF PS!Terminated, PS!ps_vars, PowerShellInv, PowerShellTyped, PS!TypeOK,
     CallInv, CacheInv
<1> QED
  BY <1>1, <1>2, <1>3, <1>4, <1>5, <1>6, <1>7, <1>8, <1>9, <1>10, <1>11, <1>12, <1>13,
     <1>14      DEF PS!Next, PS!Script, PS!Call

\* The invariant gives the type and that all are answered with one payload.
LEMMA PowerShellInvIsEnough ==
    PowerShellInv => PS!TypeOK /\ PS!PayloadsAgree /\ PS!NothingIsLeft
BY DEF PowerShellInv, PowerShellTyped, CallInv, CacheInv, PS!PayloadsAgree, PS!NothingIsLeft,
   PS!Over

-----------------------------------------------------------------------------
(***************************************************************************)
(* The store, the fan-out and the prober.                                  *)
(***************************************************************************)
FP == INSTANCE FsSnapshotStoreProofs WITH pc <- fs_pc, req <- fs_req, answered <- fs_answered
FN == INSTANCE FanoutProofs WITH pc <- fan_pc
PP == INSTANCE ProberProofs WITH Scan <- ProbeScan

\* The constants of the store are fit for it, in the model and in its proofs.
LEMMA StoreAssumed == FS!StoreAssumption /\ FP!StoreAssumption
BY WaitingAssumption DEF FP!StoreAssumption, FS!StoreAssumption, FP!Entry, FS!Entry

\* The store's proofs and its model start in the same states.
LEMMA StoreStarts == FP!Init <=> FS!Init
BY DEF FP!Init, FS!Init, FP!NoRequest, FS!NoRequest, FP!Request, FS!Request

\* The store's proofs and its model take the same steps.
LEMMA StoreSteps == FP!Next <=> FS!Next
BY DEF FP!Next, FS!Next, FP!PutBegin, FS!PutBegin, FP!StoreLockFor, FS!StoreLockFor, FP!Alive,
       FS!Alive, FP!Goto, FS!Goto, FP!files, FS!files, FP!told, FS!told, FP!Step, FS!Step,
       FP!LockStoreInProcess, FS!LockStoreInProcess, FP!locals, FS!locals, FP!AcquireStoreLock,
       FS!AcquireStoreLock, FP!ReadIndex, FS!ReadIndex, FP!WithKey, FS!WithKey, FP!First,
       FS!First, FP!locks, FS!locks, FP!SkipContent, FS!SkipContent, FP!OpenContentTmp,
       FS!OpenContentTmp, FP!WriteContentTmp, FS!WriteContentTmp, FP!RenameContent,
       FS!RenameContent, FP!OpenIndexTmp, FS!OpenIndexTmp, FP!WriteIndexTmp, FS!WriteIndexTmp,
       FP!NewEntry, FS!NewEntry, FP!RenameIndex, FS!RenameIndex, FP!Fail, FS!Fail, FP!Exclusive,
       FS!Exclusive, FP!DropFlock, FS!DropFlock, FP!DropMutexGuard, FS!DropMutexGuard,
       FP!PutReturn, FS!PutReturn, FP!EndCalls, FS!EndCalls, FP!NoRequest, FS!NoRequest,
       FP!Request, FS!Request, FP!GetContent, FS!GetContent, FP!GetBegin, FS!GetBegin,
       FP!WithScan, FS!WithScan, FP!ListScans, FS!ListScans, FP!Crash, FS!Crash

\* The store's proofs and its model type the state alike.
LEMMA StoreTyped == FP!TypeOK <=> FS!TypeOK
BY DEF FP!TypeOK, FS!TypeOK, FP!Locations, FS!Locations, FP!PutSteps, FS!PutSteps, FP!Request,
       FS!Request, FP!Entry, FS!Entry

\* The constants of the fan-out are fit for it, in the model and in its proofs.
LEMMA FanoutAssumed == FO!FanoutAssumption /\ FN!FanoutAssumption
BY WaitingAssumption DEF FN!FanoutAssumption, FO!FanoutAssumption, FN!IsFiniteSet, FO!IsFiniteSet

\* The fan-out's proofs and its model start in the same states.
LEMMA FanoutStarts == FN!Init <=> FO!Init
BY DEF FN!Init, FO!Init, FN!InitialPermits, FO!InitialPermits, FN!NoScan, FO!NoScan

\* The fan-out's proofs and its model take the same steps.
LEMMA FanoutSteps == FN!Next <=> FO!Next
BY DEF FN!Next, FO!Next, FN!AcquirePermit, FO!AcquirePermit, FN!Goto, FO!Goto, FN!put, FO!put,
       FN!store, FO!store, FN!main, FO!main, FN!ResolveStrategy, FO!ResolveStrategy,
       FN!Strategy, FO!Strategy, FN!progress, FO!progress, FN!ScanSucceeds, FO!ScanSucceeds,
       FN!ScanRetryable, FO!ScanRetryable, FN!Conclude, FO!Conclude, FN!RetryAfterBackoff,
       FO!RetryAfterBackoff, FN!ScanTerminal, FO!ScanTerminal, FN!PutSucceeded, FO!PutSucceeded,
       FN!Scan, FO!Scan, FN!ScanTask, FO!ScanTask, FN!PutFailed, FO!PutFailed, FN!BudgetElapses,
       FO!BudgetElapses, FN!Budgeted, FO!Budgeted, FN!ReleasePermit, FO!ReleasePermit, FN!Panic,
       FO!Panic, FN!JobStarts, FO!JobStarts, FN!tasks, FO!tasks, FN!JobCommits, FO!JobCommits,
       FN!JobFails, FO!JobFails, FN!JoinFinished, FO!JoinFinished, FN!JoinPanicked,
       FO!JoinPanicked, FN!Return, FO!Return, FN!Shutdown, FO!Shutdown, FN!Exit, FO!Exit,
       FN!Terminated, FO!Terminated, FN!vars, FO!vars, FN!Store!Answer,
       FO!Store!Answer, FN!Store!Commit, FO!Store!Commit

\* The fan-out's proofs and its model type the state alike.
LEMMA FanoutTyped == FN!TypeOK <=> FO!TypeOK
BY DEF FN!TypeOK, FO!TypeOK, FN!Locations, FO!Locations, FN!Holding, FO!Holding, FN!Budgeted,
       FO!Budgeted, FN!Strategy, FO!Strategy, FN!Outcome, FO!Outcome, FN!Scan, FO!Scan,
       FN!NoScan, FO!NoScan, FN!JobState, FO!JobState

\* ProberProofs and Prober make the same assumption on the constants.
LEMMA ProberAssumed == PP!ProberAssumption <=> PR!ProberAssumption
BY DEF PP!ProberAssumption, PR!ProberAssumption, PP!IsFiniteSet, PR!IsFiniteSet, PP!Kinds,
       PR!Kinds

\* ProberProofs and Prober start in the same states.
LEMMA ProberStarts == PP!Init <=> PR!Init
BY DEF PP!Init, PR!Init, PP!Kinds, PR!Kinds

\* ProberProofs and Prober take the same steps.
LEMMA ProberSteps == PP!Next <=> PR!Next
BY DEF PP!Next, PR!Next, PP!Step, PR!Step, PP!NextPort, PR!NextPort, PP!budgets, PR!budgets,
       PP!pacing, PR!pacing, PP!TcpConnect, PR!TcpConnect, PP!Target, PR!Target, PP!Reserve,
       PR!Reserve, PP!EndProbe, PR!EndProbe, PP!OfPair, PR!OfPair, PP!AcquirePermit,
       PR!AcquirePermit, PP!Cardinality, PR!Cardinality, PP!Throttle, PR!Throttle, PP!OwnGate,
       PR!OwnGate, PP!OwnsGate, PR!OwnsGate, PP!Pass, PR!Pass, PP!Answer, PR!Answer, PP!Cancel,
       PR!Cancel, PP!Leave, PR!Leave, PP!RemoveAt, PR!RemoveAt, PP!Tick, PR!Tick, PP!Kinds,
       PR!Kinds, PP!Sooner, PR!Sooner, PP!Terminated, PR!Terminated, PP!Over, PR!Over,
       PP!prober_vars, PR!prober_vars, PP!scans, PR!scans

\* ProberProofs and Prober type the state alike.
LEMMA ProberTyped == PP!TypeOK <=> PR!TypeOK
BY DEF PP!TypeOK, PR!TypeOK, PP!Kinds, PR!Kinds, PP!Places, PR!Places

-----------------------------------------------------------------------------
(* All of them *)

WaitingInv ==
    /\ component \in Names
    /\ FP!IInv /\ FN!IInv /\ PP!IInv /\ PowerShellInv

\* The components' assumptions, one by one.
LEMMA Assumed == PR!ProberAssumption /\ PS!PowerShellAssumption
BY WaitingAssumption

\* Every component starts in its own invariant.
LEMMA WaitingInit == Init => WaitingInv
<1> SUFFICES ASSUME Init PROVE WaitingInv
  OBVIOUS
<1>1. component \in Names /\ FS!Init /\ FO!Init /\ PR!Init /\ PS!Init
  BY DEF Init
<1>2. FP!IInv /\ FN!IInv
  BY <1>1, StoreAssumed, StoreStarts, FP!InitIInv, FanoutAssumed, FanoutStarts, FN!InitIInv
<1>3. PP!IInv
  BY <1>1, Assumed, ProberAssumed, ProberStarts, PP!InitIInv
<1>4. PowerShellInv
  BY <1>1, Assumed, PowerShellInit
<1> QED
  BY <1>1, <1>2, <1>3, <1>4 DEF WaitingInv

\* A step of the whole, as each component sees it.
LEMMA StepOfEach ==
    [Next]_all =>
        /\ UNCHANGED component
        /\ FS!Next \/ UNCHANGED fs_all
        /\ FO!Next \/ UNCHANGED fanout_all
        /\ PR!Next \/ UNCHANGED prober_all
        /\ PS!Next \/ UNCHANGED ps_all
BY DEF Next, all

\* A step of one component keeps its invariant and stutters for the others.
LEMMA WaitingNext == WaitingInv /\ [Next]_all => WaitingInv'
<1> SUFFICES ASSUME WaitingInv, [Next]_all PROVE WaitingInv'
  OBVIOUS
<1>1. /\ UNCHANGED component
      /\ FS!Next \/ UNCHANGED fs_all
      /\ FO!Next \/ UNCHANGED fanout_all
      /\ PR!Next \/ UNCHANGED prober_all
      /\ PS!Next \/ UNCHANGED ps_all
  BY StepOfEach
<1>2. component' \in Names
  BY <1>1 DEF WaitingInv
<1>3. FP!IInv'
  <2>1. UNCHANGED fs_all => UNCHANGED FP!vars
    BY DEF fs_all, FP!vars, FP!locals, FP!locks, FP!files, FP!told
  <2> QED
    BY <1>1, <2>1, StoreAssumed, StoreSteps, FP!NextIInv DEF WaitingInv
<1>4. FN!IInv'
  <2>1. UNCHANGED fanout_all => UNCHANGED FN!vars
    BY DEF fanout_all, FN!vars, FN!tasks, FN!put, FN!store, FN!progress, FN!main
  <2> QED
    BY <1>1, <2>1, FanoutAssumed, FanoutSteps, FN!NextIInv DEF WaitingInv
<1>5. PP!IInv'
  <2>1. UNCHANGED prober_all => UNCHANGED PP!prober_vars
    BY DEF prober_all, PP!prober_vars, PP!budgets, PP!pacing, PP!scans
  <2> QED
    BY <1>1, <2>1, Assumed, ProberAssumed, ProberSteps, PP!NextIInv DEF WaitingInv
<1>6. PowerShellInv'
  <2>1. UNCHANGED ps_all => UNCHANGED PS!ps_vars
    BY DEF ps_all, PS!ps_vars
  <2> QED
    BY <1>1, <2>1, Assumed, PowerShellNext DEF WaitingInv
<1> QED
  BY <1>2, <1>3, <1>4, <1>5, <1>6 DEF WaitingInv

\* All the components' invariants hold in every state of the composition.
LEMMA Invariance == Spec => []WaitingInv
<1>1. Init => WaitingInv
  BY WaitingInit
<1>2. WaitingInv /\ [Next]_all => WaitingInv'
  BY WaitingNext
<1> QED
  BY <1>1, <1>2, PTL DEF Spec

-----------------------------------------------------------------------------
(* Theorems *)

\* The state of every component that waits has its type.
THEOREM TypeCorrect == Spec => []TypeOK
<1>1. WaitingInv => TypeOK
  <2> SUFFICES ASSUME WaitingInv PROVE TypeOK
    OBVIOUS
  <2>1. FS!TypeOK /\ FO!TypeOK
    BY StoreTyped, FanoutTyped DEF WaitingInv, FP!IInv, FN!IInv
  <2>2. PR!TypeOK /\ PS!TypeOK
    BY Assumed, ProberAssumed, ProberTyped, PP!DataIsTyped, PowerShellInvIsEnough
       DEF WaitingInv, PP!IInv
  <2> QED
    BY <2>1, <2>2 DEF TypeOK
<1> QED
  BY <1>1, Invariance, PTL

\* Calls that raced to fill the cache answer with one payload, which a script that ended well
\* reported; no call that is over leaves its child running, nor its output except where the
\* system refused to remove it or nobody came to read it: the call was dropped, the script
\* failed or was killed, or the file could not be read (powershell_collector/mod.rs).
THEOREM PayloadIsOne == Spec => []OnePayload
<1>1. WaitingInv => OnePayload
  BY PowerShellInvIsEnough DEF WaitingInv, OnePayload
<1> QED
  BY <1>1, Invariance, PTL

\* Whatever scans are dropped on the way, a prober's requests keep their distance (Prober:
\* prober.rs).
THEOREM RequestsKeepTheirDistance == Spec => RequestsAreSpaced
<1> DEFINE Spaced == \A k \in PR!Kinds :
                       (\E s \in ProbeScan : kind[s] = k /\ place[s] = "sleep" /\ place'[s] = "request")
                         => since[k] = INTERVAL
<1>1. WaitingInv /\ [Next]_all => Spaced
  <2> SUFFICES ASSUME WaitingInv, [Next]_all, NEW k \in PR!Kinds, NEW s \in ProbeScan,
                      kind[s] = k, place[s] = "sleep", place'[s] = "request"
               PROVE  since[k] = INTERVAL
    OBVIOUS
  <2>1. PR!Next
    BY StepOfEach DEF prober_all
  <2> QED
    BY <2>1, Assumed, ProberAssumed, ProberSteps, PP!StepSpacesRequests DEF WaitingInv
<1>2. [][Spaced]_PR!prober_vars => RequestsAreSpaced
  BY DEF RequestsAreSpaced, PR!RequestsAreSpaced
<1> HIDE DEF Spaced
<1>3. WaitingInv /\ [Next]_all => [Spaced]_PR!prober_vars
  BY <1>1
<1> QED
  BY <1>2, <1>3, Invariance, PTL DEF Spec

=============================================================================
