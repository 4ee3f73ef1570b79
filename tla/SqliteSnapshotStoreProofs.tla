---------------------- MODULE SqliteSnapshotStoreProofs ----------------------
(***************************************************************************)
(* The SQLite store keeps the port's promises for any number of processes, *)
(* threads, keys and snapshots. The argument is the SHARED lock that the   *)
(* transaction takes with its first read: no other connection commits      *)
(* before it is given back, so a key that was free stays free.             *)
(***************************************************************************)
EXTENDS SqliteSnapshotStore, TLAPS

\* A put holds its connection's mutex while it uses the connection, and a
\* SHARED lock from its check to its commit.
LockInv ==
    \A t \in Thread :
        /\ pc[t] \in Locked => mutex[ConnOf[t]] = t
        /\ pc[t] \in InTransaction => ConnOf[t] \in shared

\* A put that is about to return a scan id has its key in the table.
ReplyInv ==
    \A t \in Thread :
        pc[t] = "unlock" /\ reply[t] \notin {Busy, Failed} =>
            \E r \in rows : r.key = req[t].key /\ ScanOf[r.snap] = reply[t]

IInv ==
    /\ TypeOK
    /\ LockInv
    /\ CheckStillHolds
    /\ ReplyInv

-----------------------------------------------------------------------------

\* An idle thread's row is a row like any other.
LEMMA NoRowType == NoRow \in Row
<1>1. \E r \in Row : TRUE
  <2>1. PICK k \in Key, s \in Snapshot : TRUE
    BY SqliteAssumption
  <2>2. [key |-> k, snap |-> s] \in Row
    BY DEF Row
  <2> QED
    BY <2>2
<1> QED
  BY <1>1 DEF NoRow

\* While one connection is the only one that reads, only the thread that has
\* locked it is in a transaction.
LEMMA AloneInTransaction ==
    ASSUME IInv, NEW t \in Thread, pc[t] = "exclusive", shared = {ConnOf[t]}
    PROVE  \A u \in Thread \ {t} : pc[u] \notin InTransaction
BY DEF IInv, LockInv, InTransaction, Locked

\* A new database, with nothing running on it.
LEMMA InitIInv == Init => IInv
<1> SUFFICES ASSUME Init PROVE IInv
  OBVIOUS
<1>1. TypeOK
  BY NoRowType DEF Init, TypeOK, Locations
<1>2. LockInv /\ ReplyInv
  BY DEF Init, LockInv, ReplyInv, Locked, InTransaction
<1>3. CheckStillHolds
  BY DEF Init, CheckStillHolds, InTransaction
<1> QED
  BY <1>1, <1>2, <1>3 DEF IInv

\* Every step keeps the invariant.
LEMMA NextIInv == IInv /\ [Next]_vars => IInv'
<1> SUFFICES ASSUME IInv, [Next]_vars PROVE IInv'
  OBVIOUS
<1> USE SqliteAssumption DEF IInv
<1>1. ASSUME NEW p \in Puts, PutBegin(p[1], p[2], p[3])
      PROVE  IInv'
  <2> USE <1>1 DEF PutBegin, Goto, locals, database, told
  <2>a. p[1] \in Thread /\ [key |-> p[2], snap |-> p[3]] \in Row
    BY DEF Row
  <2>b. req' \in [Thread -> Row] /\ pc' \in [Thread -> Locations]
    BY <2>a DEF TypeOK, Locations
  <2>1. TypeOK'
    BY <2>b DEF TypeOK
  <2>2. LockInv'
    BY DEF LockInv, TypeOK, Locations, Locked, InTransaction
  <2>3. CheckStillHolds'
    BY DEF CheckStillHolds, WithKey, TypeOK, Locations, Locked, InTransaction
  <2>4. ReplyInv'
    BY DEF ReplyInv, WithKey, TypeOK, Locations, Locked, InTransaction
  <2> QED
    BY <2>1, <2>2, <2>3, <2>4
<1>2. ASSUME NEW t \in Thread, LockConnection(t)
      PROVE  IInv'
  <2> USE <1>2 DEF LockConnection, Goto, Reply, locals, database, told
  <2>1. TypeOK'
    BY DEF TypeOK, Locations, Locked, InTransaction, Row
  <2>2. LockInv'
    BY DEF LockInv, TypeOK, Locations, Locked, InTransaction
  <2>3. CheckStillHolds'
    BY DEF CheckStillHolds, WithKey, TypeOK, Locations, Locked, InTransaction
  <2>4. ReplyInv'
    BY DEF ReplyInv, WithKey, TypeOK, Locations, Locked, InTransaction
  <2> QED
    BY <2>1, <2>2, <2>3, <2>4
<1>3. ASSUME NEW t \in Thread, Check(t)
      PROVE  IInv'
  <2> USE <1>3 DEF Check, Goto, Reply, WithKey, locals, database, told
  <2>a. \A r \in rows : ScanOf[r.snap] \in ScanId
    BY DEF TypeOK, Row
  <2>b. ConnOf[t] \in Conn
    OBVIOUS
  <2>c. reply' \in [Thread -> ScanId \union {Busy, Failed}] /\ shared' \in SUBSET Conn
    BY <2>a, <2>b DEF TypeOK
  <2>1. TypeOK'
    BY <2>c DEF TypeOK, Locations, Locked, InTransaction
  <2>2. LockInv'
    BY DEF LockInv, TypeOK, Locations, Locked, InTransaction
  <2>3. CheckStillHolds'
    BY DEF CheckStillHolds, WithKey, TypeOK, Locations, Locked, InTransaction
  <2>4. ReplyInv'
    BY DEF ReplyInv, WithKey, TypeOK, Locations, Locked, InTransaction
  <2> QED
    BY <2>1, <2>2, <2>3, <2>4
<1>4. ASSUME NEW t \in Thread, Insert(t)
      PROVE  IInv'
  <2> USE <1>4 DEF Insert, Goto, Reply, EndTransaction, locals, database, told
  <2>1. TypeOK'
    BY SMTT(30) DEF TypeOK, Locations, Locked, InTransaction, Row
  <2>2. LockInv'
    BY DEF LockInv, TypeOK, Locations, Locked, InTransaction
  <2>3. CheckStillHolds'
    BY DEF CheckStillHolds, WithKey, TypeOK, Locations, Locked, InTransaction
  <2>4. ReplyInv'
    BY DEF ReplyInv, WithKey, TypeOK, Locations, Locked, InTransaction
  <2> QED
    BY <2>1, <2>2, <2>3, <2>4
<1>5. ASSUME NEW t \in Thread, InsertBusy(t)
      PROVE  IInv'
  <2> USE <1>5 DEF InsertBusy, Goto, Reply, EndTransaction, locals, database, told
  <2>1. TypeOK'
    BY DEF TypeOK, Locations, Locked, InTransaction, Row
  <2>2. LockInv'
    BY DEF LockInv, TypeOK, Locations, Locked, InTransaction
  <2>3. CheckStillHolds'
    BY DEF CheckStillHolds, WithKey, TypeOK, Locations, Locked, InTransaction
  <2>4. ReplyInv'
    BY DEF ReplyInv, WithKey, TypeOK, Locations, Locked, InTransaction
  <2> QED
    BY <2>1, <2>2, <2>3, <2>4
<1>6. ASSUME NEW t \in Thread, BeginCommit(t)
      PROVE  IInv'
  <2> USE <1>6 DEF BeginCommit, Goto, Reply, locals, database, told
  <2>1. TypeOK'
    BY DEF TypeOK, Locations, Locked, InTransaction, Row
  <2>2. LockInv'
    BY DEF LockInv, TypeOK, Locations, Locked, InTransaction
  <2>3. CheckStillHolds'
    BY DEF CheckStillHolds, WithKey, TypeOK, Locations, Locked, InTransaction
  <2>4. ReplyInv'
    BY DEF ReplyInv, WithKey, TypeOK, Locations, Locked, InTransaction
  <2> QED
    BY <2>1, <2>2, <2>3, <2>4
<1>7. ASSUME NEW t \in Thread, Commit(t)
      PROVE  IInv'
  <2> USE <1>7 DEF Commit, Goto, Reply, EndTransaction, locals, database, told
  <2>1. TypeOK'
    BY DEF TypeOK, Locations, Locked, InTransaction, Row
  <2>2. LockInv'
    BY DEF LockInv, TypeOK, Locations, Locked, InTransaction
  <2>3. CheckStillHolds'
    BY AloneInTransaction DEF CheckStillHolds, WithKey, TypeOK, Locations, Locked, InTransaction
  <2>4. ReplyInv'
    BY DEF ReplyInv, WithKey, TypeOK, Locations, Locked, InTransaction
  <2> QED
    BY <2>1, <2>2, <2>3, <2>4
<1>8. ASSUME NEW t \in Thread, BusyTimeout(t)
      PROVE  IInv'
  <2> USE <1>8 DEF BusyTimeout, Goto, Reply, EndTransaction, locals, database, told
  <2>1. TypeOK'
    BY DEF TypeOK, Locations, Locked, InTransaction, Row
  <2>2. LockInv'
    BY DEF LockInv, TypeOK, Locations, Locked, InTransaction
  <2>3. CheckStillHolds'
    BY DEF CheckStillHolds, WithKey, TypeOK, Locations, Locked, InTransaction
  <2>4. ReplyInv'
    BY DEF ReplyInv, WithKey, TypeOK, Locations, Locked, InTransaction
  <2> QED
    BY <2>1, <2>2, <2>3, <2>4
<1>9. ASSUME NEW t \in Thread, Reread(t)
      PROVE  IInv'
  <2> USE <1>9 DEF Reread, Goto, Reply, WithKey, locals, database, told
  <2>1. TypeOK'
    BY DEF TypeOK, Locations, Locked, InTransaction, Row
  <2>2. LockInv'
    BY DEF LockInv, TypeOK, Locations, Locked, InTransaction
  <2>3. CheckStillHolds'
    BY DEF CheckStillHolds, WithKey, TypeOK, Locations, Locked, InTransaction
  <2>4. ReplyInv'
    BY DEF ReplyInv, WithKey, TypeOK, Locations, Locked, InTransaction
  <2> QED
    BY <2>1, <2>2, <2>3, <2>4
<1>10. ASSUME NEW t \in Thread, Fail(t)
      PROVE  IInv'
  <2> USE <1>10 DEF Fail, Goto, Reply, EndTransaction, locals, database, told
  <2>1. TypeOK'
    BY DEF TypeOK, Locations, Locked, InTransaction, Row
  <2>2. LockInv'
    BY DEF LockInv, TypeOK, Locations, Locked, InTransaction
  <2>3. CheckStillHolds'
    BY DEF CheckStillHolds, WithKey, TypeOK, Locations, Locked, InTransaction
  <2>4. ReplyInv'
    BY DEF ReplyInv, WithKey, TypeOK, Locations, Locked, InTransaction
  <2> QED
    BY <2>1, <2>2, <2>3, <2>4
<1>11. ASSUME NEW t \in Thread, PutReturn(t)
      PROVE  IInv'
  <2> USE <1>11 DEF PutReturn, Goto, Reply, EndCalls, locals, database, told
  <2>1. TypeOK'
    BY NoRowType DEF TypeOK, Locations, Locked, InTransaction, Row
  <2>2. LockInv'
    BY DEF LockInv, TypeOK, Locations, Locked, InTransaction
  <2>3. CheckStillHolds'
    BY DEF CheckStillHolds, WithKey, TypeOK, Locations, Locked, InTransaction
  <2>4. ReplyInv'
    BY DEF ReplyInv, WithKey, TypeOK, Locations, Locked, InTransaction
  <2> QED
    BY <2>1, <2>2, <2>3, <2>4
<1>12. ASSUME NEW t \in Reader, NEW id \in ScanId, GetScan(t, id)
      PROVE  IInv'
  <2> USE <1>12 DEF GetScan, MayRead, locals, database, told
  <2>1. TypeOK'
    BY DEF TypeOK, Locations, Locked, InTransaction, Row
  <2>2. LockInv'
    BY DEF LockInv, TypeOK, Locations, Locked, InTransaction
  <2>3. CheckStillHolds'
    BY DEF CheckStillHolds, WithKey, TypeOK, Locations, Locked, InTransaction
  <2>4. ReplyInv'
    BY DEF ReplyInv, WithKey, TypeOK, Locations, Locked, InTransaction
  <2> QED
    BY <2>1, <2>2, <2>3, <2>4
<1>13. ASSUME NEW t \in Reader, NEW h \in HostId, ListScans(t, h)
      PROVE  IInv'
  <2> USE <1>13 DEF ListScans, MayRead, locals, database, told
  <2>1. TypeOK'
    BY DEF TypeOK, Locations, Locked, InTransaction, Row
  <2>2. LockInv'
    BY DEF LockInv, TypeOK, Locations, Locked, InTransaction
  <2>3. CheckStillHolds'
    BY DEF CheckStillHolds, WithKey, TypeOK, Locations, Locked, InTransaction
  <2>4. ReplyInv'
    BY DEF ReplyInv, WithKey, TypeOK, Locations, Locked, InTransaction
  <2> QED
    BY <2>1, <2>2, <2>3, <2>4
<1>14. ASSUME NEW c \in Conn, Crash(c)
      PROVE  IInv'
  <2> USE <1>14 DEF Crash, EndCalls, EndTransaction, locals, database, told
  <2>1. TypeOK'
    BY NoRowType DEF TypeOK, Locations, Locked, InTransaction, Row
  <2>2. LockInv'
    BY DEF LockInv, TypeOK, Locations, Locked, InTransaction
  <2>3. CheckStillHolds'
    BY DEF CheckStillHolds, WithKey, TypeOK, Locations, Locked, InTransaction
  <2>4. ReplyInv'
    BY DEF ReplyInv, WithKey, TypeOK, Locations, Locked, InTransaction
  <2> QED
    BY <2>1, <2>2, <2>3, <2>4
<1>15. ASSUME UNCHANGED vars
      PROVE  IInv'
  <2> USE <1>15 DEF vars, locals, database, told
  <2>1. TypeOK'
    BY DEF TypeOK, Locations, Locked, InTransaction, Row
  <2>2. LockInv'
    BY DEF LockInv, TypeOK, Locations, Locked, InTransaction
  <2>3. CheckStillHolds'
    BY DEF CheckStillHolds, WithKey, TypeOK, Locations, Locked, InTransaction
  <2>4. ReplyInv'
    BY DEF ReplyInv, WithKey, TypeOK, Locations, Locked, InTransaction
  <2> QED
    BY <2>1, <2>2, <2>3, <2>4
<1> QED
  BY <1>1, <1>2, <1>3, <1>4, <1>5, <1>6, <1>7, <1>8, <1>9, <1>10, <1>11, <1>12, <1>13, <1>14, <1>15 DEF Next, Step

\* IInv is an invariant.
LEMMA Invariance == Spec => []IInv
<1> QED
  BY InitIInv, NextIInv, PTL DEF Spec

\* Every variable keeps its type: callers are only told scan ids.
THEOREM TypeCorrect == Spec => []TypeOK
<1>1. IInv => TypeOK
  BY DEF IInv
<1> QED
  BY <1>1, Invariance, PTL

\* Between its check and its commit a put's key stays free.
THEOREM CheckIsStable == Spec => []CheckStillHolds
<1>1. IInv => CheckStillHolds
  BY DEF IInv
<1> QED
  BY <1>1, Invariance, PTL

-----------------------------------------------------------------------------
(* The database implements the port *)

\* Each step is a step of the port, or none.
LEMMA StepRefines == IInv /\ [Next]_vars => [Port!Next]_(Port!vars)
<1> SUFFICES ASSUME IInv, [Next]_vars PROVE [Port!Next]_(Port!vars)
  OBVIOUS
<1> USE SqliteAssumption DEF IInv, told
<1>1. ASSUME NEW t \in Thread, Commit(t)
      PROVE  Port!Next
  <2>1. req[t].key \in Key /\ req[t].snap \in Snapshot /\ req[t] = [key |-> req[t].key, snap |-> req[t].snap]
    BY DEF TypeOK, Row
  <2>2. \A r \in rows : r.key # req[t].key
    BY <1>1 DEF CheckStillHolds, Commit, InTransaction, WithKey
  <2>3. Port!Commit(req[t].key, req[t].snap)
    BY <1>1, <2>1, <2>2 DEF Port!Commit, Commit
  <2> QED
    BY <2>1, <2>3 DEF Port!Next
<1>2. ASSUME NEW t \in Thread, PutReturn(t)
      PROVE  [Port!Next]_(Port!vars)
  <2>1. CASE reply[t] \in {Busy, Failed}
    BY <1>2, <2>1 DEF PutReturn, database, Port!vars
  <2>2. CASE reply[t] \notin {Busy, Failed}
    <3>1. PICK r \in rows : r.key = req[t].key /\ ScanOf[r.snap] = reply[t]
      BY <1>2, <2>2 DEF ReplyInv, PutReturn
    <3>2. req[t].key \in Key
      BY DEF TypeOK, Row
    <3>3. Port!Answer(req[t].key)
      BY <1>2, <2>2, <3>1 DEF Port!Answer, PutReturn, database
    <3> QED
      BY <3>2, <3>3 DEF Port!Next
  <2> QED
    BY <2>1, <2>2
<1>3. ASSUME NEW t \in Reader, NEW id \in ScanId, GetScan(t, id)
      PROVE  Port!Next
  BY <1>3 DEF GetScan, database, Port!Next, Port!Fetch
<1>4. ASSUME NEW t \in Reader, NEW h \in HostId, ListScans(t, h)
      PROVE  Port!Next
  BY <1>4 DEF ListScans, database, Port!Next, Port!List
<1>5. ASSUME NEW p \in Puts, PutBegin(p[1], p[2], p[3])
      PROVE  UNCHANGED Port!vars
  BY <1>5 DEF PutBegin, database, Port!vars
<1>6. ASSUME NEW t \in Thread,
             \/ LockConnection(t) \/ Check(t) \/ Insert(t) \/ InsertBusy(t)
             \/ BeginCommit(t) \/ BusyTimeout(t) \/ Reread(t) \/ Fail(t)
      PROVE  UNCHANGED Port!vars
  BY <1>6 DEF LockConnection, Check, Insert, InsertBusy, BeginCommit, BusyTimeout, Reread,
     Fail, database, Port!vars
<1>7. ASSUME NEW c \in Conn, Crash(c)
      PROVE  UNCHANGED Port!vars
  BY <1>7 DEF Crash, Port!vars
<1>8. ASSUME UNCHANGED vars
      PROVE  UNCHANGED Port!vars
  BY <1>8 DEF vars, database, Port!vars
<1> QED
  BY <1>1, <1>2, <1>3, <1>4, <1>5, <1>6, <1>7, <1>8 DEF Next, Step

\* What callers of the SQLite store see is what the port promises.
THEOREM StoreImplementsPort == Spec => ImplementsPort
<1>1. Init => Port!Init
  BY DEF Init, Port!Init
<1> QED
  BY <1>1, Invariance, StepRefines, PTL DEF Spec, ImplementsPort, Port!Spec

=============================================================================
