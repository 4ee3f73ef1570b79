------------------------ MODULE FsSnapshotStoreProofs ------------------------
(***************************************************************************)
(* The filesystem store keeps its promises for every number of processes,  *)
(* threads, keys and snapshots. The argument is the inductive invariant    *)
(* IInv: whoever is between "read" and "drop_flock" holds the advisory     *)
(* lock, so nobody else changes a file, so what it read is still what is   *)
(* on disk when it renames.                                                *)
(***************************************************************************)
EXTENDS FsSnapshotStore, SequenceTheorems, WellFoundedInduction, TLAPS

\* The advisory lock is held by exactly the thread in the critical section.
FlockInv == \A t \in Thread : (pc[t] \in Exclusive) <=> (flock = t)

\* A put holds an Arc of the mutex its process's registry names, and past
\* the mutex it is the one that locked it.
MutexInv ==
    \A t \in Thread :
        /\ pc[t] \in PutSteps => /\ arc[t] \in Mutex
                                 /\ registry[ProcOf[t]] = arc[t]
        /\ pc[t] \notin PutSteps => arc[t] = NoMutex
        /\ pc[t] \in Guarded => mutex[arc[t]] = t

\* A content file is absent or holds the body it is named for, and an entry
\* describes the body it names.
FileInv ==
    /\ \A s \in Snapshot : content[s] \in {NoFile, s}
    /\ \A i \in 1..Len(index) :
        /\ content[index[i].content_hash] = index[i].content_hash
        /\ index[i].scan_id = ScanOf[index[i].content_hash]
        /\ index[i].host_id = HostOf[index[i].content_hash]

\* How far the put of a thread has got, and what is on disk because of it.
ProgressInv ==
    \A t \in Thread :
        /\ pc[t] \in Exclusive \ {"read", "drop_flock"} =>
            /\ loc[t] = index
            /\ \A i \in 1..Len(index) : index[i].key # req[t].key
        /\ pc[t] = "content_rename" => contentTmp = req[t].snap
        /\ pc[t] \in {"index", "index_write", "index_rename"} =>
            content[req[t].snap] = req[t].snap
        /\ pc[t] = "index_rename" => indexTmp = Append(index, NewEntry(t))

\* A put that is about to return a scan id has its key in the index.
ReplyInv ==
    \A t \in Thread :
        /\ pc[t] \notin {"drop_flock", "drop_mutex", "return", "get"} => reply[t] = Failed
        /\ pc[t] \in {"drop_flock", "drop_mutex", "return"} /\ reply[t] # Failed =>
            \E i \in 1..Len(index) : index[i].key = req[t].key /\ index[i].scan_id = reply[t]

\* A get that has left the index knows a content file some entry names.
GetInv ==
    \A t \in Thread :
        pc[t] = "get" =>
            /\ \E i \in 1..Len(index) : index[i].content_hash = req[t].snap
            /\ ScanOf[req[t].snap] = reply[t]

IInv ==
    /\ TypeOK
    /\ FlockInv
    /\ MutexInv
    /\ FileInv
    /\ ProgressInv
    /\ ReplyInv
    /\ GetInv
    /\ OneEntryPerKey
    /\ AnswersStand
    /\ ListedCanBeFetched

-----------------------------------------------------------------------------
(* Facts about the operators *)

\* What find() returns is one of the positions it looks among.
LEMMA FirstIsIn == \A S \in SUBSET Nat : S # {} => First(S) \in S
<1> TAKE S \in SUBSET Nat
<1> HAVE S # {}
<1>1. \E i \in S : \A j \in S : ~ (<<j, i>> \in OpToRel(<, Nat))
  BY NatLessThanWellFounded, WFMin
<1>2. PICK i \in S : \A j \in S : ~ (<<j, i>> \in OpToRel(<, Nat))
  BY <1>1
<1>3. \A j \in S : ~ (j < i)
  BY <1>2 DEF OpToRel
<1>4. \A j \in S : i <= j
  BY <1>3
<1> QED
  BY <1>4 DEF First

\* The entry put finds for a key that is there.
LEMMA FoundByKey ==
    ASSUME NEW ix \in Seq(Entry), NEW k, WithKey(ix, k) # {}
    PROVE  /\ First(WithKey(ix, k)) \in 1..Len(ix)
           /\ ix[First(WithKey(ix, k))] \in Entry
           /\ ix[First(WithKey(ix, k))].key = k
<1>1. WithKey(ix, k) \in SUBSET Nat
  BY DEF WithKey
<1>2. First(WithKey(ix, k)) \in WithKey(ix, k)
  BY <1>1, FirstIsIn
<1> QED
  BY <1>2, ElementOfSeq DEF WithKey

\* The entry get finds for a scan id that is there.
LEMMA FoundByScan ==
    ASSUME NEW ix \in Seq(Entry), NEW id, WithScan(ix, id) # {}
    PROVE  /\ First(WithScan(ix, id)) \in 1..Len(ix)
           /\ ix[First(WithScan(ix, id))] \in Entry
           /\ ix[First(WithScan(ix, id))].scan_id = id
<1>1. WithScan(ix, id) \in SUBSET Nat
  BY DEF WithScan
<1>2. First(WithScan(ix, id)) \in WithScan(ix, id)
  BY <1>1, FirstIsIn
<1> QED
  BY <1>2, ElementOfSeq DEF WithScan

\* The entry a put adds describes its own request.
LEMMA NewEntryType ==
    ASSUME TypeOK, NEW t \in Thread
    PROVE  NewEntry(t) \in Entry
BY StoreAssumption DEF TypeOK, NewEntry, Entry, Request

\* An idle thread's request is a request like any other.
LEMMA NoRequestType == NoRequest \in Request
<1>1. [key |-> CHOOSE k \in Key : TRUE, snap |-> CHOOSE s \in Snapshot : TRUE] \in Request
  BY StoreAssumption DEF Request
<1> QED
  BY <1>1 DEF NoRequest

-----------------------------------------------------------------------------
(* IInv is inductive *)

\* A step that changes neither the index nor a content file nor what callers
\* were told keeps the part of IInv that is about those.
LEMMA DataUnchanged ==
    ASSUME UNCHANGED <<index, content, answered, listed>>, IInv
    PROVE  FileInv' /\ OneEntryPerKey' /\ AnswersStand' /\ ListedCanBeFetched'
BY DEF IInv, FileInv, OneEntryPerKey, AnswersStand, ListedCanBeFetched

\* A store directory that was just created, with nothing running on it.
LEMMA InitIInv == Init => IInv
<1> SUFFICES ASSUME Init PROVE IInv
  OBVIOUS
<1> USE StoreAssumption DEF Init
<1>1. TypeOK
  BY NoRequestType DEF TypeOK, Locations
<1>2. FlockInv /\ MutexInv
  BY DEF FlockInv, MutexInv, Exclusive, Guarded, PutSteps
<1>3. FileInv /\ OneEntryPerKey /\ AnswersStand /\ ListedCanBeFetched
  BY DEF FileInv, OneEntryPerKey, AnswersStand, ListedCanBeFetched
<1>4. ProgressInv /\ ReplyInv /\ GetInv
  BY DEF ProgressInv, ReplyInv, GetInv, Exclusive, PutSteps
<1> QED
  BY <1>1, <1>2, <1>3, <1>4 DEF IInv

\* Every step keeps the invariant, one step of the proof per action.
LEMMA NextIInv == IInv /\ [Next]_vars => IInv'
<1> SUFFICES ASSUME IInv, [Next]_vars PROVE IInv'
  OBVIOUS
<1> USE StoreAssumption DEF IInv, locals, locks, files, told, Goto, EndCalls
<1>1. ASSUME NEW t \in Thread, NEW k \in Key, NEW s \in Snapshot, PutBegin(t, k, s)
      PROVE  IInv'
  <2> USE <1>1 DEF PutBegin
  <2>1. FileInv' /\ OneEntryPerKey' /\ AnswersStand' /\ ListedCanBeFetched'
    BY DataUnchanged
  <2>2. TypeOK'
    BY DEF TypeOK, Locations, PutSteps, Request
  <2>3. FlockInv'
    BY DEF FlockInv, TypeOK, Exclusive
  <2>4. MutexInv'
    BY DEF MutexInv, TypeOK, Guarded, Exclusive, PutSteps, StoreLockFor, Alive
  <2>5. ProgressInv'
    BY DEF ProgressInv, TypeOK, FlockInv, FileInv, Exclusive, NewEntry
  <2>6. ReplyInv'
    BY DEF ReplyInv, TypeOK, PutSteps
  <2>7. GetInv'
    BY DEF GetInv, TypeOK
  <2> QED
    BY <2>1, <2>2, <2>3, <2>4, <2>5, <2>6, <2>7
<1>2. ASSUME NEW t \in Thread, LockStoreInProcess(t)
      PROVE  IInv'
  <2> USE <1>2 DEF LockStoreInProcess
  <2>1. FileInv' /\ OneEntryPerKey' /\ AnswersStand' /\ ListedCanBeFetched'
    BY DataUnchanged
  <2>2. TypeOK'
    BY DEF TypeOK, Locations, PutSteps
  <2>3. FlockInv'
    BY DEF FlockInv, TypeOK, Exclusive
  <2>4. MutexInv'
    BY DEF MutexInv, TypeOK, Guarded, Exclusive, PutSteps
  <2>5. ProgressInv'
    BY DEF ProgressInv, TypeOK, FlockInv, FileInv, Exclusive, NewEntry
  <2>6. ReplyInv'
    BY DEF ReplyInv, TypeOK, PutSteps
  <2>7. GetInv'
    BY DEF GetInv, TypeOK
  <2> QED
    BY <2>1, <2>2, <2>3, <2>4, <2>5, <2>6, <2>7
<1>3. ASSUME NEW t \in Thread, AcquireStoreLock(t)
      PROVE  IInv'
  <2> USE <1>3 DEF AcquireStoreLock
  <2>1. FileInv' /\ OneEntryPerKey' /\ AnswersStand' /\ ListedCanBeFetched'
    BY DataUnchanged
  <2>2. TypeOK'
    BY DEF TypeOK, Locations, PutSteps
  <2>3. FlockInv'
    BY DEF FlockInv, TypeOK, Exclusive
  <2>4. MutexInv'
    BY DEF MutexInv, TypeOK, Guarded, Exclusive, PutSteps
  <2>5. ProgressInv'
    BY DEF ProgressInv, TypeOK, FlockInv, FileInv, Exclusive, NewEntry
  <2>6. ReplyInv'
    BY DEF ReplyInv, TypeOK, PutSteps
  <2>7. GetInv'
    BY DEF GetInv, TypeOK
  <2> QED
    BY <2>1, <2>2, <2>3, <2>4, <2>5, <2>6, <2>7
<1>4. ASSUME NEW t \in Thread, ReadIndex(t)
      PROVE  IInv'
  <2> DEFINE hits == WithKey(index, req[t].key)
  <2>a. hits # {} => /\ First(hits) \in 1..Len(index)
                    /\ index[First(hits)] \in Entry
                    /\ index[First(hits)].key = req[t].key
    BY FoundByKey DEF TypeOK
  <2>b. hits = {} => \A i \in 1..Len(index) : index[i].key # req[t].key
    BY DEF WithKey
  <2>c. hits # {} => /\ reply' = [reply EXCEPT ![t] = index[First(hits)].scan_id]
                    /\ pc' = [pc EXCEPT ![t] = "drop_flock"]
    BY <1>4 DEF ReadIndex
  <2>d. hits = {} => pc' = [pc EXCEPT ![t] = "content"] /\ reply' = reply
    BY <1>4 DEF ReadIndex
  <2>e. /\ pc[t] = "read"
        /\ loc' = [loc EXCEPT ![t] = index]
        /\ UNCHANGED <<req, locks, files, told>>
    BY <1>4 DEF ReadIndex
  <2> HIDE DEF hits
  <2>f. pc'[t] \in {"drop_flock", "content"} /\ \A u \in Thread \ {t} : pc'[u] = pc[u]
    BY <2>c, <2>d DEF TypeOK
  <2>1. FileInv' /\ OneEntryPerKey' /\ AnswersStand' /\ ListedCanBeFetched'
    BY <2>e, DataUnchanged
  <2>2. TypeOK'
    <3>1. pc' \in [Thread -> Locations] /\ reply' \in [Thread -> ScanId \union {Failed}]
      <4>1. CASE hits = {}
        BY <4>1, <2>d DEF TypeOK, Locations, PutSteps
      <4>2. CASE hits # {}
        BY <4>2, <2>a, <2>c DEF TypeOK, Locations, PutSteps, Entry
      <4> QED
        BY <4>1, <4>2
    <3> QED
      BY <3>1, <2>e DEF TypeOK
  <2>3. FlockInv'
    BY <2>a, <2>b, <2>c, <2>d, <2>e DEF FlockInv, TypeOK, Exclusive
  <2>4. MutexInv'
    BY <2>e, <2>f DEF MutexInv, Guarded, Exclusive, PutSteps
  <2>5. ProgressInv'
    BY <2>a, <2>b, <2>c, <2>d, <2>e DEF ProgressInv, TypeOK, FlockInv, FileInv, Exclusive, NewEntry
  <2>6. ReplyInv'
    <3>1. CASE hits = {}
      BY <3>1, <2>d, <2>e DEF ReplyInv, TypeOK
    <3>2. CASE hits # {}
      <4> SUFFICES ASSUME NEW u \in Thread
                   PROVE  ReplyInv!(u)'
        BY DEF ReplyInv
      <4>1. CASE u = t
        <5>1. reply'[t] = index[First(hits)].scan_id /\ pc'[t] = "drop_flock"
          BY <3>2, <2>c DEF TypeOK
        <5> QED
          BY <4>1, <5>1, <3>2, <2>a, <2>e
      <4>2. CASE u # t
        BY <4>2, <3>2, <2>c, <2>e DEF ReplyInv, TypeOK
      <4> QED
        BY <4>1, <4>2
    <3> QED
      BY <3>1, <3>2
  <2>7. GetInv'
    <3>1. \A u \in Thread \ {t} : reply'[u] = reply[u]
      BY <2>c, <2>d DEF TypeOK
    <3> QED
      BY <2>e, <2>f, <3>1 DEF GetInv
  <2> QED
    BY <2>1, <2>2, <2>3, <2>4, <2>5, <2>6, <2>7
<1>5. ASSUME NEW t \in Thread, SkipContent(t)
      PROVE  IInv'
  <2> USE <1>5 DEF SkipContent
  <2>1. FileInv' /\ OneEntryPerKey' /\ AnswersStand' /\ ListedCanBeFetched'
    BY DataUnchanged
  <2>2. TypeOK'
    BY DEF TypeOK, Locations, PutSteps
  <2>3. FlockInv'
    BY DEF FlockInv, TypeOK, Exclusive
  <2>4. MutexInv'
    BY DEF MutexInv, TypeOK, Guarded, Exclusive, PutSteps
  <2>5. ProgressInv'
    BY DEF ProgressInv, TypeOK, FlockInv, FileInv, Exclusive, NewEntry, Request
  <2>6. ReplyInv'
    BY DEF ReplyInv, TypeOK, PutSteps
  <2>7. GetInv'
    BY DEF GetInv, TypeOK
  <2> QED
    BY <2>1, <2>2, <2>3, <2>4, <2>5, <2>6, <2>7
<1>6. ASSUME NEW t \in Thread, OpenContentTmp(t)
      PROVE  IInv'
  <2> USE <1>6 DEF OpenContentTmp
  <2>1. FileInv' /\ OneEntryPerKey' /\ AnswersStand' /\ ListedCanBeFetched'
    BY DataUnchanged
  <2>2. TypeOK'
    BY DEF TypeOK, Locations, PutSteps
  <2>3. FlockInv'
    BY DEF FlockInv, TypeOK, Exclusive
  <2>4. MutexInv'
    BY DEF MutexInv, TypeOK, Guarded, Exclusive, PutSteps
  <2>5. ProgressInv'
    BY DEF ProgressInv, TypeOK, FlockInv, FileInv, Exclusive, NewEntry
  <2>6. ReplyInv'
    BY DEF ReplyInv, TypeOK, PutSteps
  <2>7. GetInv'
    BY DEF GetInv, TypeOK
  <2> QED
    BY <2>1, <2>2, <2>3, <2>4, <2>5, <2>6, <2>7
<1>7. ASSUME NEW t \in Thread, WriteContentTmp(t)
      PROVE  IInv'
  <2> USE <1>7 DEF WriteContentTmp
  <2>1. FileInv' /\ OneEntryPerKey' /\ AnswersStand' /\ ListedCanBeFetched'
    BY DataUnchanged
  <2>2. TypeOK'
    BY DEF TypeOK, Locations, PutSteps, Request
  <2>3. FlockInv'
    BY DEF FlockInv, TypeOK, Exclusive
  <2>4. MutexInv'
    BY DEF MutexInv, TypeOK, Guarded, Exclusive, PutSteps
  <2>5. ProgressInv'
    BY DEF ProgressInv, TypeOK, FlockInv, FileInv, Exclusive, NewEntry
  <2>6. ReplyInv'
    BY DEF ReplyInv, TypeOK, PutSteps
  <2>7. GetInv'
    BY DEF GetInv, TypeOK
  <2> QED
    BY <2>1, <2>2, <2>3, <2>4, <2>5, <2>6, <2>7
<1>8. ASSUME NEW t \in Thread, RenameContent(t)
      PROVE  IInv'
  <2> USE <1>8 DEF RenameContent
  <2>b. \A i \in 1..Len(index) : index[i] \in Entry
    BY ElementOfSeq DEF TypeOK
  <2>c. contentTmp = req[t].snap
    BY DEF ProgressInv
  <2>d. \A x \in Snapshot : content[x] \in Snapshot => content'[x] = content[x]
    BY <2>c DEF FileInv, TypeOK, Request
  <2>1. TypeOK'
    BY <2>b, <2>c DEF TypeOK, Locations, PutSteps, Entry, Request
  <2>2. FlockInv'
    BY DEF FlockInv, TypeOK, Exclusive
  <2>3. MutexInv'
    BY DEF MutexInv, TypeOK, Guarded, Exclusive, PutSteps
  <2>4. FileInv'
    BY <2>b, <2>c DEF FileInv, TypeOK, ProgressInv, Entry, Request
  <2>5. ProgressInv'
    BY <2>b, <2>c DEF ProgressInv, TypeOK, FlockInv, FileInv, Exclusive, NewEntry, Entry, Request
  <2>6. ReplyInv'
    BY DEF ReplyInv, TypeOK, PutSteps
  <2>7. GetInv'
    BY DEF GetInv, TypeOK
  <2>8. OneEntryPerKey'
    BY DEF OneEntryPerKey, TypeOK, ProgressInv, Exclusive
  <2>9. AnswersStand'
    BY DEF AnswersStand, TypeOK, ProgressInv
  <2>10. ListedCanBeFetched'
    <3> SUFFICES ASSUME NEW l \in listed
                 PROVE  \E i \in 1..Len(index) :
                          /\ index[i].scan_id = l[2]
                          /\ content'[index[i].content_hash] \in Snapshot
                          /\ HostOf[content'[index[i].content_hash]] = l[1]
      BY DEF ListedCanBeFetched
    <3>1. PICK i \in 1..Len(index) :
            /\ index[i].scan_id = l[2]
            /\ content[index[i].content_hash] \in Snapshot
            /\ HostOf[content[index[i].content_hash]] = l[1]
      BY DEF ListedCanBeFetched
    <3>2. content'[index[i].content_hash] = content[index[i].content_hash]
      BY <3>1, <2>b, <2>d DEF Entry
    <3> QED
      BY <3>1, <3>2
  <2> QED
    BY <2>1, <2>2, <2>3, <2>4, <2>5, <2>6, <2>7, <2>8, <2>9, <2>10
<1>9. ASSUME NEW t \in Thread, OpenIndexTmp(t)
      PROVE  IInv'
  <2> USE <1>9 DEF OpenIndexTmp
  <2>1. FileInv' /\ OneEntryPerKey' /\ AnswersStand' /\ ListedCanBeFetched'
    BY DataUnchanged
  <2>2. TypeOK'
    BY DEF TypeOK, Locations, PutSteps
  <2>3. FlockInv'
    BY DEF FlockInv, TypeOK, Exclusive
  <2>4. MutexInv'
    BY DEF MutexInv, TypeOK, Guarded, Exclusive, PutSteps
  <2>5. ProgressInv'
    BY DEF ProgressInv, TypeOK, FlockInv, FileInv, Exclusive, NewEntry
  <2>6. ReplyInv'
    BY DEF ReplyInv, TypeOK, PutSteps
  <2>7. GetInv'
    BY DEF GetInv, TypeOK
  <2> QED
    BY <2>1, <2>2, <2>3, <2>4, <2>5, <2>6, <2>7
<1>10. ASSUME NEW t \in Thread, WriteIndexTmp(t)
      PROVE  IInv'
  <2> USE <1>10 DEF WriteIndexTmp
  <2>a. /\ NewEntry(t) \in Entry
        /\ Append(loc[t], NewEntry(t)) \in Seq(Entry)
    BY NewEntryType, AppendProperties DEF TypeOK
  <2>1. FileInv' /\ OneEntryPerKey' /\ AnswersStand' /\ ListedCanBeFetched'
    BY DataUnchanged
  <2>2. TypeOK'
    BY <2>a DEF TypeOK, Locations, PutSteps
  <2>3. FlockInv'
    BY DEF FlockInv, TypeOK, Exclusive
  <2>4. MutexInv'
    BY DEF MutexInv, TypeOK, Guarded, Exclusive, PutSteps
  <2>5. ProgressInv'
    BY <2>a DEF ProgressInv, TypeOK, FlockInv, FileInv, Exclusive, NewEntry
  <2>6. ReplyInv'
    BY DEF ReplyInv, TypeOK, PutSteps
  <2>7. GetInv'
    BY DEF GetInv, TypeOK
  <2> QED
    BY <2>1, <2>2, <2>3, <2>4, <2>5, <2>6, <2>7
<1>11. ASSUME NEW t \in Thread, RenameIndex(t)
      PROVE  IInv'
  <2> USE <1>11 DEF RenameIndex
  <2>a. NewEntry(t) \in Entry
    BY NewEntryType
  <2>b. index' = Append(index, NewEntry(t))
    BY DEF ProgressInv, TypeOK
  <2>c. /\ index' \in Seq(Entry)
        /\ Len(index') = Len(index) + 1
        /\ \A i \in 1..Len(index) : index'[i] = index[i]
        /\ index'[Len(index) + 1] = NewEntry(t)
    BY <2>a, <2>b, AppendProperties DEF TypeOK
  <2>d. Len(index) \in Nat
    BY DEF TypeOK
  <2>e. /\ content[req[t].snap] = req[t].snap
        /\ \A i \in 1..Len(index) : index[i].key # req[t].key
    BY DEF ProgressInv, Exclusive
  <2>f. /\ \A i \in 1..Len(index) : i \in 1..Len(index') /\ index'[i] = index[i]
        /\ \E i \in 1..Len(index') :
             index'[i].key = req[t].key /\ index'[i].scan_id = ScanOf[req[t].snap]
    BY <2>c, <2>d DEF NewEntry
  <2>1. TypeOK'
    BY <2>c DEF TypeOK, Locations, PutSteps, Request
  <2>2. FlockInv'
    BY DEF FlockInv, TypeOK, Exclusive
  <2>3. MutexInv'
    BY DEF MutexInv, TypeOK, Guarded, Exclusive, PutSteps
  <2>4. FileInv'
    <3>1. content' = content /\ \A s \in Snapshot : content[s] \in {NoFile, s}
      BY DEF FileInv
    <3>2. ASSUME NEW i \in 1..Len(index')
          PROVE  /\ content[index'[i].content_hash] = index'[i].content_hash
                 /\ index'[i].scan_id = ScanOf[index'[i].content_hash]
                 /\ index'[i].host_id = HostOf[index'[i].content_hash]
      <4>1. CASE i = Len(index) + 1
        BY <2>c, <2>e, <4>1 DEF NewEntry
      <4>2. CASE i \in 1..Len(index)
        BY <2>c, <4>2 DEF FileInv
      <4> QED
        BY <2>c, <2>d, <4>1, <4>2
    <3> QED
      BY <3>1, <3>2 DEF FileInv
  <2>5. ProgressInv'
    <3> SUFFICES ASSUME NEW u \in Thread, pc'[u] \in Exclusive \ {"read", "drop_flock"}
                 PROVE  FALSE
      BY DEF ProgressInv, Exclusive
    <3>1. u # t /\ pc[u] = pc'[u]
      BY DEF TypeOK
    <3>2. u = t
      BY <3>1 DEF FlockInv, Exclusive
    <3> QED
      BY <3>1, <3>2
  <2>6. ReplyInv'
    <3>1. /\ pc'[t] = "drop_flock"
          /\ reply'[t] = ScanOf[req[t].snap]
          /\ \A u \in Thread \ {t} : pc'[u] = pc[u] /\ reply'[u] = reply[u]
      BY DEF TypeOK
    <3> SUFFICES ASSUME NEW u \in Thread
                 PROVE  ReplyInv!(u)'
      BY DEF ReplyInv
    <3>2. CASE u = t
      BY <3>1, <3>2, <2>f
    <3>3. CASE u # t
      BY <3>1, <3>3, <2>f DEF ReplyInv
    <3> QED
      BY <3>2, <3>3
  <2>7. GetInv'
    <3> SUFFICES ASSUME NEW u \in Thread, pc[u] = "get"
                 PROVE  /\ \E i \in 1..Len(index') : index'[i].content_hash = req[u].snap
                        /\ ScanOf[req[u].snap] = reply[u]
      BY DEF GetInv, TypeOK
    <3>1. PICK i \in 1..Len(index) : index[i].content_hash = req[u].snap
      BY DEF GetInv
    <3> QED
      BY <3>1, <2>f DEF GetInv
  <2>8. OneEntryPerKey'
    BY <2>a, <2>b, <2>c, <2>d, <2>e DEF OneEntryPerKey, TypeOK, ProgressInv, Exclusive, NewEntry
  <2>9. AnswersStand'
    <3>1. index' # Torn
      BY <2>c, StoreAssumption
    <3>2. \A a \in answered :
            \E i \in 1..Len(index) : index[i].key = a[1] /\ index[i].scan_id = a[2]
      BY DEF AnswersStand
    <3> QED
      BY <2>f, <3>1, <3>2 DEF AnswersStand
  <2>10. ListedCanBeFetched'
    <3> SUFFICES ASSUME NEW l \in listed
                 PROVE  \E i \in 1..Len(index') :
                          /\ index'[i].scan_id = l[2]
                          /\ content[index'[i].content_hash] \in Snapshot
                          /\ HostOf[content[index'[i].content_hash]] = l[1]
      BY DEF ListedCanBeFetched
    <3>1. PICK i \in 1..Len(index) :
            /\ index[i].scan_id = l[2]
            /\ content[index[i].content_hash] \in Snapshot
            /\ HostOf[content[index[i].content_hash]] = l[1]
      BY DEF ListedCanBeFetched
    <3> QED
      BY <3>1, <2>f
  <2> QED
    BY <2>1, <2>2, <2>3, <2>4, <2>5, <2>6, <2>7, <2>8, <2>9, <2>10
<1>12. ASSUME NEW t \in Thread, Fail(t)
      PROVE  IInv'
  <2> USE <1>12 DEF Fail
  <2>1. FileInv' /\ OneEntryPerKey' /\ AnswersStand' /\ ListedCanBeFetched'
    BY DataUnchanged
  <2>2. TypeOK'
    BY DEF TypeOK, Locations, PutSteps
  <2>3. FlockInv'
    BY DEF FlockInv, TypeOK, Exclusive
  <2>4. MutexInv'
    BY DEF MutexInv, TypeOK, Guarded, Exclusive, PutSteps
  <2>5. ProgressInv'
    BY DEF ProgressInv, TypeOK, FlockInv, FileInv, Exclusive, NewEntry
  <2>6. ReplyInv'
    BY DEF ReplyInv, TypeOK, PutSteps, Exclusive
  <2>7. GetInv'
    BY DEF GetInv, TypeOK
  <2> QED
    BY <2>1, <2>2, <2>3, <2>4, <2>5, <2>6, <2>7
<1>13. ASSUME NEW t \in Thread, DropFlock(t)
      PROVE  IInv'
  <2> USE <1>13 DEF DropFlock
  <2>1. FileInv' /\ OneEntryPerKey' /\ AnswersStand' /\ ListedCanBeFetched'
    BY DataUnchanged
  <2>2. TypeOK'
    BY DEF TypeOK, Locations, PutSteps
  <2>3. FlockInv'
    BY DEF FlockInv, TypeOK, Exclusive
  <2>4. MutexInv'
    BY DEF MutexInv, TypeOK, Guarded, Exclusive, PutSteps
  <2>5. ProgressInv'
    BY DEF ProgressInv, TypeOK, FlockInv, FileInv, Exclusive, NewEntry
  <2>6. ReplyInv'
    BY DEF ReplyInv, TypeOK, PutSteps
  <2>7. GetInv'
    BY DEF GetInv, TypeOK
  <2> QED
    BY <2>1, <2>2, <2>3, <2>4, <2>5, <2>6, <2>7
<1>14. ASSUME NEW t \in Thread, DropMutexGuard(t)
      PROVE  IInv'
  <2> USE <1>14 DEF DropMutexGuard
  <2>1. FileInv' /\ OneEntryPerKey' /\ AnswersStand' /\ ListedCanBeFetched'
    BY DataUnchanged
  <2>2. TypeOK'
    BY DEF TypeOK, Locations, PutSteps
  <2>3. FlockInv'
    BY DEF FlockInv, TypeOK, Exclusive
  <2>4. MutexInv'
    BY DEF MutexInv, TypeOK, Guarded, Exclusive, PutSteps
  <2>5. ProgressInv'
    BY DEF ProgressInv, TypeOK, FlockInv, FileInv, Exclusive, NewEntry
  <2>6. ReplyInv'
    BY DEF ReplyInv, TypeOK, PutSteps
  <2>7. GetInv'
    BY DEF GetInv, TypeOK
  <2> QED
    BY <2>1, <2>2, <2>3, <2>4, <2>5, <2>6, <2>7
<1>15. ASSUME NEW t \in Thread, PutReturn(t)
      PROVE  IInv'
  <2> USE <1>15 DEF PutReturn
  <2>a. reply[t] # Failed =>
          \E i \in 1..Len(index) : index[i].key = req[t].key /\ index[i].scan_id = reply[t]
    BY DEF ReplyInv
  <2>1. TypeOK'
    BY NoRequestType DEF TypeOK, Locations, PutSteps, Request
  <2>2. FlockInv'
    BY DEF FlockInv, TypeOK, Exclusive
  <2>3. MutexInv'
    BY DEF MutexInv, TypeOK, Guarded, Exclusive, PutSteps
  <2>4. FileInv'
    BY DEF FileInv, TypeOK, ProgressInv
  <2>5. ProgressInv'
    BY DEF ProgressInv, TypeOK, FlockInv, FileInv, Exclusive, NewEntry
  <2>6. ReplyInv'
    BY DEF ReplyInv, TypeOK, PutSteps, Request
  <2>7. GetInv'
    BY DEF GetInv, TypeOK
  <2>8. OneEntryPerKey'
    BY DEF OneEntryPerKey, TypeOK, ProgressInv, Exclusive
  <2>9. AnswersStand'
    <3>1. \A a \in answered' : \/ a \in answered
                               \/ reply[t] # Failed /\ a = <<req[t].key, reply[t]>>
      OBVIOUS
    <3>4. index # Torn /\ index' = index
      BY StoreAssumption DEF TypeOK
    <3> SUFFICES ASSUME NEW a \in answered'
                 PROVE  \E i \in 1..Len(index) : index[i].key = a[1] /\ index[i].scan_id = a[2]
      BY <3>4 DEF AnswersStand
    <3>2. CASE a \in answered
      BY <3>2 DEF AnswersStand
    <3>3. CASE reply[t] # Failed /\ a = <<req[t].key, reply[t]>>
      BY <3>3, <2>a
    <3> QED
      BY <3>1, <3>2, <3>3
  <2>10. ListedCanBeFetched'
    BY DEF ListedCanBeFetched, TypeOK, FileInv, ProgressInv
  <2> QED
    BY <2>1, <2>2, <2>3, <2>4, <2>5, <2>6, <2>7, <2>8, <2>9, <2>10
<1>16. ASSUME NEW t \in Thread, GetContent(t)
      PROVE  IInv'
  <2> USE <1>16 DEF GetContent
  <2>a. req[t].snap \in Snapshot
    BY DEF TypeOK, Request
  <2>b. PICK i \in 1..Len(index) : index[i].content_hash = req[t].snap
    BY DEF GetInv
  <2>c. content[req[t].snap] = req[t].snap
    BY <2>b DEF FileInv
  <2>d. reply[t] \in ScanId
    BY <2>a DEF GetInv
  <2>1. FileInv' /\ OneEntryPerKey' /\ AnswersStand' /\ ListedCanBeFetched'
    BY DataUnchanged
  <2>2. TypeOK'
    BY <2>a, <2>c, <2>d, NoRequestType DEF TypeOK, Locations, PutSteps
  <2>3. FlockInv'
    BY DEF FlockInv, TypeOK, Exclusive
  <2>4. MutexInv'
    BY DEF MutexInv, TypeOK, Guarded, Exclusive, PutSteps
  <2>5. ProgressInv'
    BY DEF ProgressInv, TypeOK, FlockInv, FileInv, Exclusive, NewEntry
  <2>6. ReplyInv'
    BY DEF ReplyInv, TypeOK, PutSteps
  <2>7. GetInv'
    BY DEF GetInv, TypeOK
  <2> QED
    BY <2>1, <2>2, <2>3, <2>4, <2>5, <2>6, <2>7
<1>17. ASSUME NEW t \in Thread, NEW id \in ScanId, GetBegin(t, id)
      PROVE  IInv'
  <2> DEFINE hits == WithScan(index, id)
  <2>a. hits # {}
    BY <1>17 DEF GetBegin
  <2>b. /\ First(hits) \in 1..Len(index)
        /\ index[First(hits)] \in Entry
        /\ index[First(hits)].scan_id = id
    BY <2>a, FoundByScan DEF TypeOK
  <2>c. /\ pc[t] = "idle" /\ pc' = [pc EXCEPT ![t] = "get"]
        /\ req' = [req EXCEPT ![t].snap = index[First(hits)].content_hash]
        /\ reply' = [reply EXCEPT ![t] = id]
        /\ UNCHANGED <<loc, locks, files, told>>
    BY <1>17 DEF GetBegin
  <2> HIDE DEF hits
  <2>1. FileInv' /\ OneEntryPerKey' /\ AnswersStand' /\ ListedCanBeFetched'
    BY <2>c, DataUnchanged
  <2>2. TypeOK'
    <3>1. req' \in [Thread -> Request]
      <4>1. index[First(hits)].content_hash \in Snapshot
        BY <2>b DEF Entry
      <4>2. \A r \in Request, c \in Snapshot : [r EXCEPT !.snap = c] \in Request
        BY DEF Request
      <4> QED
        BY <4>1, <4>2, <2>c DEF TypeOK
    <3>2. pc' \in [Thread -> Locations] /\ reply' \in [Thread -> ScanId \union {Failed}]
      BY <2>c DEF TypeOK, Locations
    <3> QED
      BY <3>1, <3>2, <2>c DEF TypeOK
  <2>3. FlockInv'
    BY <2>c DEF FlockInv, TypeOK, Exclusive
  <2>4. MutexInv'
    BY <2>c DEF MutexInv, TypeOK, Guarded, Exclusive, PutSteps
  <2>5. ProgressInv'
    BY <2>c DEF ProgressInv, TypeOK, FlockInv, FileInv, Exclusive, NewEntry
  <2>6. ReplyInv'
    BY <2>c DEF ReplyInv, TypeOK, PutSteps
  <2>7. GetInv'
    BY <2>b, <2>c DEF GetInv, TypeOK, Entry, Request, FileInv
  <2> QED
    BY <2>1, <2>2, <2>3, <2>4, <2>5, <2>6, <2>7
<1>18. ASSUME NEW t \in Thread, NEW h \in HostId, ListScans(t, h)
      PROVE  IInv'
  <2> USE <1>18 DEF ListScans
  <2>a. \A l \in listed' \ listed :
          \E i \in 1..Len(index) : index[i].host_id = h /\ l = <<h, index[i].scan_id>>
    OBVIOUS
  <2>b. \A i \in 1..Len(index) : index[i] \in Entry
    BY ElementOfSeq DEF TypeOK
  <2>1. TypeOK'
    <3>1. \A l \in listed' : l \in HostId \X ScanId
      BY <2>a, <2>b DEF TypeOK, Entry
    <3> QED
      BY <3>1 DEF TypeOK
  <2>2. FlockInv'
    BY DEF FlockInv, TypeOK, Exclusive
  <2>3. MutexInv'
    BY DEF MutexInv, TypeOK, Guarded, Exclusive, PutSteps
  <2>4. FileInv'
    BY DEF FileInv, TypeOK, ProgressInv
  <2>5. ProgressInv'
    BY DEF ProgressInv, TypeOK, FlockInv, FileInv, Exclusive, NewEntry
  <2>6. ReplyInv'
    BY DEF ReplyInv, TypeOK, PutSteps
  <2>7. GetInv'
    BY DEF GetInv, TypeOK
  <2>8. OneEntryPerKey'
    BY DEF OneEntryPerKey, TypeOK, ProgressInv, Exclusive
  <2>9. AnswersStand'
    BY DEF AnswersStand, TypeOK, ProgressInv
  <2>10. ListedCanBeFetched'
    <3> SUFFICES ASSUME NEW l \in listed'
                 PROVE  \E i \in 1..Len(index) :
                          /\ index[i].scan_id = l[2]
                          /\ content[index[i].content_hash] \in Snapshot
                          /\ HostOf[content[index[i].content_hash]] = l[1]
      BY DEF ListedCanBeFetched
    <3>1. CASE l \in listed
      BY <3>1 DEF ListedCanBeFetched
    <3>2. CASE l \notin listed
      <4>1. PICK i \in 1..Len(index) : index[i].host_id = h /\ l = <<h, index[i].scan_id>>
        BY <3>2, <2>a
      <4>2. /\ index[i].content_hash \in Snapshot
            /\ content[index[i].content_hash] = index[i].content_hash
            /\ index[i].host_id = HostOf[index[i].content_hash]
        BY <2>b DEF FileInv, Entry
      <4> QED
        BY <4>1, <4>2
    <3> QED
      BY <3>1, <3>2
  <2> QED
    BY <2>1, <2>2, <2>3, <2>4, <2>5, <2>6, <2>7, <2>8, <2>9, <2>10
<1>19. ASSUME NEW p \in Process, Crash(p)
      PROVE  IInv'
  <2> USE <1>19 DEF Crash
  <2>1. FileInv' /\ OneEntryPerKey' /\ AnswersStand' /\ ListedCanBeFetched'
    BY DataUnchanged
  <2>2. TypeOK'
    BY NoRequestType DEF TypeOK, Locations, PutSteps
  <2>3. FlockInv'
    BY DEF FlockInv, TypeOK, Exclusive
  <2>4. MutexInv'
    BY DEF MutexInv, TypeOK, Guarded, Exclusive, PutSteps
  <2>5. ProgressInv'
    BY DEF ProgressInv, TypeOK, FlockInv, FileInv, Exclusive, NewEntry
  <2>6. ReplyInv'
    BY DEF ReplyInv, TypeOK, PutSteps
  <2>7. GetInv'
    BY DEF GetInv, TypeOK
  <2> QED
    BY <2>1, <2>2, <2>3, <2>4, <2>5, <2>6, <2>7
<1>20. CASE UNCHANGED vars
  <2> USE <1>20 DEF vars
  <2>1. FileInv' /\ OneEntryPerKey' /\ AnswersStand' /\ ListedCanBeFetched'
    BY DataUnchanged
  <2>2. TypeOK' /\ FlockInv' /\ MutexInv' /\ ReplyInv' /\ GetInv'
    BY DEF TypeOK, FlockInv, MutexInv, ReplyInv, GetInv
  <2>3. ProgressInv'
    BY DEF ProgressInv, NewEntry
  <2> QED
    BY <2>1, <2>2, <2>3
<1>21. \A q \in Puts : q[1] \in Thread /\ q[2] \in Key /\ q[3] \in Snapshot
  OBVIOUS
<1>22. Reader \subseteq Thread
  OBVIOUS
<1> QED
  BY <1>1, <1>2, <1>3, <1>4, <1>5, <1>6, <1>7, <1>8, <1>9, <1>10, <1>11, <1>12, <1>13, <1>14, <1>15, <1>16, <1>17, <1>18, <1>19, <1>20, <1>21, <1>22 DEF Next, Step

\* IInv is an invariant.
LEMMA Invariance == Spec => []IInv
<1> QED
  BY InitIInv, NextIInv, PTL DEF Spec

-----------------------------------------------------------------------------
(* The theorems *)

\* Every variable of the store keeps its type; in particular index.json never
\* holds anything but a whole sequence of entries.
THEOREM TypeCorrect == Spec => []TypeOK
<1>1. IInv => TypeOK
  BY DEF IInv
<1> QED
  BY <1>1, Invariance, PTL

\* A crash or an I/O error at any step of any put leaves an index that can be
\* read, whose entries all have their content file.
THEOREM IndexStaysIntact == Spec => []IndexIntact
<1>1. IInv => IndexIntact
  BY StoreAssumption DEF IInv, TypeOK, FileInv, IndexIntact
<1> QED
  BY <1>1, Invariance, PTL

\* No two entries share an idempotency key, however many processes and
\* threads put that key at once.
THEOREM PutIsIdempotent == Spec => []OneEntryPerKey
<1>1. IInv => OneEntryPerKey
  BY DEF IInv
<1> QED
  BY <1>1, Invariance, PTL

\* A scan id that put returned stays recorded under its key.
THEOREM AnswersAreDurable == Spec => []AnswersStand
<1>1. IInv => AnswersStand
  BY DEF IInv
<1> QED
  BY <1>1, Invariance, PTL

\* The advisory lock never turns away a put of the process that holds it.
THEOREM MutexCoversProcess == Spec => []LockedOnlyByOthers
<1>1. ASSUME IInv PROVE LockedOnlyByOthers
  <2> SUFFICES ASSUME NEW t \in Thread, pc[t] = "flock", flock # Nobody,
                      ProcOf[flock] = ProcOf[t]
               PROVE  FALSE
    BY DEF LockedOnlyByOthers
  <2>1. flock \in Thread /\ pc[flock] \in Exclusive
    BY <1>1 DEF IInv, TypeOK, FlockInv
  <2>2. arc[flock] = arc[t] /\ mutex[arc[flock]] = flock /\ mutex[arc[t]] = t
    BY <1>1, <2>1 DEF IInv, MutexInv, Guarded, Exclusive, PutSteps
  <2>3. pc[flock] # "flock"
    BY <2>1 DEF Exclusive
  <2> QED
    BY <2>2, <2>3
<1> QED
  BY <1>1, Invariance, PTL

\* A lock-free get finds its content file, with the scan id it asked for.
THEOREM GetFindsContent == Spec => []ReadersFindContent
<1>1. ASSUME IInv PROVE ReadersFindContent
  <2> SUFFICES ASSUME NEW t \in Thread, pc[t] = "get"
               PROVE  /\ content[req[t].snap] \in Snapshot
                      /\ ScanOf[content[req[t].snap]] = reply[t]
    BY DEF ReadersFindContent
  <2>1. PICK i \in 1..Len(index) : index[i].content_hash = req[t].snap
    BY <1>1 DEF IInv, GetInv
  <2>2. content[req[t].snap] = req[t].snap
    BY <1>1, <2>1 DEF IInv, FileInv
  <2> QED
    BY <1>1, <2>2 DEF IInv, GetInv, TypeOK, Request
<1> QED
  BY <1>1, Invariance, PTL

\* Every scan id that list handed out can be fetched.
THEOREM ListedIsFetchable == Spec => []ListedCanBeFetched
<1>1. IInv => ListedCanBeFetched
  BY DEF IInv
<1> QED
  BY <1>1, Invariance, PTL

\* The step that renames the index appends the put's own entry to what is on
\* disk.
LEMMA RenameAppends ==
    ASSUME IInv, NEW t \in Thread, RenameIndex(t)
    PROVE  NewEntry(t) \in Entry /\ index' = Append(index, NewEntry(t))
BY NewEntryType DEF IInv, ProgressInv, RenameIndex

\* Every other step leaves the index alone.
LEMMA OthersKeepIndex ==
    ASSUME IInv, [Next]_vars, ~ \E t \in Thread : RenameIndex(t)
    PROVE  index' = index
BY DEF Next, Step, vars, files, PutBegin, LockStoreInProcess, AcquireStoreLock,
       ReadIndex, SkipContent, OpenContentTmp, WriteContentTmp, RenameContent,
       OpenIndexTmp, WriteIndexTmp, Fail, DropFlock, DropMutexGuard, PutReturn,
       GetBegin, GetContent, ListScans, Crash

\* No put ever overwrites what another put added to the index.
THEOREM NoUpdateIsLost == Spec => IndexOnlyGrows
<1>1. ASSUME IInv, [Next]_vars
      PROVE  [\E e \in Entry : index' = Append(index, e)]_index
  <2>1. CASE \E t \in Thread : RenameIndex(t)
    BY <1>1, <2>1, RenameAppends
  <2>2. CASE ~ \E t \in Thread : RenameIndex(t)
    BY <1>1, <2>2, OthersKeepIndex
  <2> QED
    BY <2>1, <2>2
<1> QED
  BY <1>1, Invariance, PTL DEF Spec, IndexOnlyGrows

-----------------------------------------------------------------------------
(* The store implements the port *)

\* While IInv holds, the records callers see are those the index names.
LEMMA RecordedIs ==
    ASSUME IInv
    PROVE  Recorded = {[key |-> index[i].key, snap |-> index[i].content_hash] :
                         i \in 1..Len(index)}
<1>1. index # Torn
  BY StoreAssumption DEF IInv, TypeOK
<1>2. \A i \in 1..Len(index) : content[index[i].content_hash] = index[i].content_hash
  BY DEF IInv, FileInv
<1> QED
  BY <1>1, <1>2 DEF Recorded

\* A step that keeps the index keeps the records.
LEMMA RecordedUnchanged ==
    ASSUME IInv, IInv', index' = index
    PROVE  Recorded' = Recorded
<1>1. Recorded' = {[key |-> index[i].key, snap |-> index[i].content_hash]' :
                     i \in 1..Len(index)}
  <2>1. index' # Torn
    BY StoreAssumption DEF IInv, TypeOK
  <2>2. \A i \in 1..Len(index) : content'[index[i].content_hash] = index[i].content_hash
    BY DEF IInv, FileInv
  <2> QED
    BY <2>1, <2>2 DEF Recorded
<1> QED
  BY <1>1, RecordedIs

\* Each step of the files and locks is a step of the port, or none.
LEMMA StepRefines == IInv /\ IInv' /\ [Next]_vars => [Port!Next]_(Port!vars)
<1> SUFFICES ASSUME IInv, IInv', [Next]_vars
             PROVE  [Port!Next]_(Port!vars)
  OBVIOUS
<1> USE StoreAssumption
<1>a. \A i \in 1..Len(index) : index[i] \in Entry
  BY ElementOfSeq DEF IInv, TypeOK
<1>1. ASSUME NEW t \in Thread, RenameIndex(t)
      PROVE  Port!Commit(req[t].key, req[t].snap)
  <2>1. index' = Append(index, NewEntry(t))
    BY <1>1, RenameAppends
  <2>2. /\ Len(index) \in Nat
        /\ Len(index') = Len(index) + 1
        /\ \A i \in 1..Len(index) : index'[i] = index[i]
        /\ index'[Len(index) + 1] = NewEntry(t)
    BY <1>1, <2>1, RenameAppends, AppendProperties DEF IInv, TypeOK
  <2>3. \A r \in Recorded : r.key # req[t].key
    <3>1. \A i \in 1..Len(index) : index[i].key # req[t].key
      BY <1>1 DEF IInv, ProgressInv, RenameIndex, Exclusive
    <3> QED
      BY <3>1, RecordedIs
  <2>4. \A i \in 1..Len(index') : content'[index'[i].content_hash] = index'[i].content_hash
    BY DEF IInv, FileInv
  <2>5. index' # Torn
    BY DEF IInv, TypeOK
  <2>6. Recorded' = {[key |-> index'[i].key, snap |-> index'[i].content_hash] :
                       i \in 1..Len(index')}
    BY <2>4, <2>5 DEF Recorded
  <2>7. 1..Len(index') = (1..Len(index)) \union {Len(index) + 1}
    BY <2>2
  <2>8. Recorded' = Recorded \union {[key |-> req[t].key, snap |-> req[t].snap]}
    <3> DEFINE new == [key |-> req[t].key, snap |-> req[t].snap]
               rec(ix, i) == [key |-> ix[i].key, snap |-> ix[i].content_hash]
    <3>1. rec(index', Len(index) + 1) = new
      BY <2>2 DEF NewEntry
    <3>2. \A i \in 1..Len(index) : rec(index', i) = rec(index, i)
      BY <2>2
    <3>3. Recorded' = {rec(index', i) : i \in 1..Len(index')}
      BY <2>6
    <3>4. Recorded = {rec(index, i) : i \in 1..Len(index)}
      BY RecordedIs
    <3> HIDE DEF rec, new
    <3>5. Recorded' = Recorded \union {new}
      BY <2>7, <3>1, <3>2, <3>3, <3>4
    <3> QED
      BY <3>5 DEF new
  <2> QED
    BY <1>1, <2>3, <2>8 DEF Port!Commit, RenameIndex, told
<1>2. ASSUME NEW t \in Thread, PutReturn(t)
      PROVE  Port!Answer(req[t].key) \/ UNCHANGED Port!vars
  <2>1. index' = index /\ Recorded' = Recorded
    BY <1>2, RecordedUnchanged DEF PutReturn, files
  <2>2. CASE reply[t] = Failed
    BY <1>2, <2>1, <2>2 DEF PutReturn, Port!vars
  <2>3. CASE reply[t] # Failed
    <3>1. PICK i \in 1..Len(index) : index[i].key = req[t].key /\ index[i].scan_id = reply[t]
      BY <1>2, <2>3 DEF IInv, ReplyInv, PutReturn
    <3> DEFINE r == [key |-> index[i].key, snap |-> index[i].content_hash]
    <3>2. r \in Recorded
      BY RecordedIs
    <3>3. r.key = req[t].key /\ ScanOf[r.snap] = reply[t]
      BY <3>1 DEF IInv, FileInv
    <3>4. answered' = answered \union {<<req[t].key, ScanOf[r.snap]>>}
      BY <1>2, <2>3, <3>3 DEF PutReturn
    <3> HIDE DEF r
    <3> QED
      BY <1>2, <2>1, <3>2, <3>3, <3>4 DEF Port!Answer, PutReturn
  <2> QED
    BY <2>2, <2>3
<1>3. ASSUME NEW t \in Thread, GetContent(t)
      PROVE  Port!Fetch(reply[t]) /\ reply[t] \in ScanId
  <2>1. index' = index /\ Recorded' = Recorded
    BY <1>3, RecordedUnchanged DEF GetContent, files
  <2>2. PICK i \in 1..Len(index) : index[i].content_hash = req[t].snap
    BY <1>3 DEF IInv, GetInv, GetContent
  <2>3. /\ req[t].snap \in Snapshot
        /\ content[req[t].snap] = req[t].snap
        /\ ScanOf[req[t].snap] = reply[t]
    BY <1>3, <2>2 DEF IInv, GetInv, GetContent, FileInv, TypeOK, Request
  <2>4. fetched' = fetched \union {<<reply[t], req[t].snap>>}
    BY <1>3, <2>3 DEF GetContent
  <2> DEFINE r == [key |-> index[i].key, snap |-> index[i].content_hash]
  <2>5. r \in Recorded /\ r.snap = req[t].snap
    BY <2>2, RecordedIs
  <2> HIDE DEF r
  <2>6. UNCHANGED <<answered, listed>>
    BY <1>3 DEF GetContent
  <2> QED
    BY <2>1, <2>3, <2>4, <2>5, <2>6 DEF Port!Fetch
<1>4. ASSUME NEW t \in Thread, NEW h \in HostId, ListScans(t, h)
      PROVE  Port!List(h)
  <2>1. index' = index /\ Recorded' = Recorded
    BY <1>4, RecordedUnchanged DEF ListScans, files
  <2>2. \A i \in 1..Len(index) : /\ index[i].scan_id = ScanOf[index[i].content_hash]
                                /\ index[i].host_id = HostOf[index[i].content_hash]
    BY DEF IInv, FileInv
  <2>3. {<<h, ScanOf[r.snap]>> : r \in {q \in Recorded : HostOf[q.snap] = h}}
        = {<<h, index[i].scan_id>> : i \in {j \in 1..Len(index) : index[j].host_id = h}}
    <3> DEFINE rec(i) == [key |-> index[i].key, snap |-> index[i].content_hash]
    <3>1. Recorded = {rec(i) : i \in 1..Len(index)}
      BY RecordedIs
    <3>2. \A i \in 1..Len(index) : /\ HostOf[rec(i).snap] = index[i].host_id
                                  /\ ScanOf[rec(i).snap] = index[i].scan_id
      BY <2>2
    <3> HIDE DEF rec
    <3> QED
      BY <3>1, <3>2
  <2> QED
    BY <1>4, <2>1, <2>3 DEF ListScans, Port!List
<1>5. ASSUME ~ \E t \in Thread : RenameIndex(t) \/ PutReturn(t) \/ GetContent(t),
             ~ \E t \in Reader, h \in HostId : ListScans(t, h)
      PROVE  UNCHANGED Port!vars
  <2>1. index' = index
    BY <1>5, OthersKeepIndex
  <2>2. UNCHANGED told
    BY <1>5 DEF Next, Step, vars, told, PutBegin, LockStoreInProcess, AcquireStoreLock,
         ReadIndex, SkipContent, OpenContentTmp, WriteContentTmp, RenameContent,
         OpenIndexTmp, WriteIndexTmp, Fail, DropFlock, DropMutexGuard, GetBegin, Crash
  <2> QED
    BY <2>1, <2>2, RecordedUnchanged DEF Port!vars, told
<1>6. \A t \in Thread : req[t].key \in Key /\ req[t].snap \in Snapshot
  BY DEF IInv, TypeOK, Request
<1> QED
  BY <1>1, <1>2, <1>3, <1>4, <1>5, <1>6 DEF Port!Next

\* What callers of the filesystem store see is what the port promises: each
\* key recorded at most once and for good, every answer, fetch and list
\* explained by the records.
THEOREM StoreImplementsPort == Spec => ImplementsPort
<1>1. Init => Port!Init
  <2> SUFFICES ASSUME Init PROVE Port!Init
    OBVIOUS
  <2>1. Recorded = {}
    BY RecordedIs, InitIInv DEF Init
  <2> QED
    BY <2>1 DEF Init, Port!Init
<1> QED
  BY <1>1, Invariance, StepRefines, PTL DEF Spec, ImplementsPort, Port!Spec

=============================================================================
