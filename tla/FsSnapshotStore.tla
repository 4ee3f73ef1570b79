--------------------------- MODULE FsSnapshotStore ---------------------------
(***************************************************************************)
(* The filesystem snapshot store (adapters/snapshot_store/fs.rs), shared   *)
(* by the blocking threads of several anne processes.                      *)
(*                                                                         *)
(* A put runs under two locks: a mutex per store root inside the process,  *)
(* found through a registry of weak references, and an advisory lock on    *)
(* .anne-store.lock that fails fast against every other holder. Under them *)
(* it reads index.json, writes the content file and rewrites the index,    *)
(* each file through a fixed temporary path and a rename. get and list     *)
(* take no lock. Any file operation may fail, and a process may be killed  *)
(* between any two of them; the files survive, the locks do not.           *)
(*                                                                         *)
(* A content file is named by the hash of the snapshot's bytes; a name is  *)
(* the snapshot itself here (no two snapshots share a hash), and the file  *)
(* holds whatever bytes were renamed onto that name. A missing index.json  *)
(* and an empty one read the same.                                         *)
(***************************************************************************)
EXTENDS Naturals, Sequences

CONSTANTS
    Process,    \* anne processes that use one store root
    Thread,     \* blocking threads, of all the processes
    ProcOf,     \* the process of each thread
    Puts,       \* the puts callers make: <<thread, key, snapshot>>
    Reader,     \* the threads that callers get and list on
    Mutex,      \* identities of in-process mutexes
    Key, Snapshot, ScanId, HostId, ScanOf, HostOf,
    Nobody,     \* no thread: a lock that is free
    NoMutex,    \* no mutex: a dead weak reference, or no Arc held
    NoFile,     \* a path with no file
    Torn,       \* a file that is empty or cut short
    Failed      \* the answer of a put that returned an error

Entry == [scan_id : ScanId, host_id : HostId, key : Key, content_hash : Snapshot]

ASSUME StoreAssumption ==
    /\ Key # {} /\ Snapshot # {}
    /\ ProcOf \in [Thread -> Process]
    /\ Puts \subseteq Thread \X Key \X Snapshot
    /\ Reader \subseteq Thread
    /\ ScanOf \in [Snapshot -> ScanId]
    /\ HostOf \in [Snapshot -> HostId]
    /\ Nobody \notin Thread
    /\ NoMutex \notin Mutex
    /\ Failed \notin ScanId
    /\ {NoFile, Torn} \intersect Snapshot = {}
    /\ NoFile # Torn
    /\ Torn \notin Seq(Entry)

VARIABLES
    pc,         \* where each thread is
    req,        \* the [key, snap] each thread's put was called with
    loc,        \* the index each thread has read
    reply,      \* the scan id each thread's put will return, or its get looks for
    registry,   \* the mutex each process's registry refers to, weakly
    arc,        \* the mutex each thread holds an Arc of
    mutex,      \* the thread that has locked each mutex
    flock,      \* the thread whose open file holds the advisory lock
    index,      \* index.json
    indexTmp,   \* .index.json.tmp
    content,    \* the content file of each snapshot name
    contentTmp, \* .content.json.tmp
    answered, fetched, listed   \* what callers were told (histories)

locks  == <<registry, arc, mutex, flock>>
files  == <<index, indexTmp, content, contentTmp>>
told   == <<answered, fetched, listed>>
locals == <<req, loc, reply>>
vars   == <<pc, locals, locks, files, told>>

Request == [key : Key, snap : Snapshot]
NoRequest == CHOOSE r \in Request : TRUE   \* an idle thread's, of no meaning

\* The steps of put_blocking, in order, and the one of get_blocking.
PutSteps == {"mutex", "flock", "read", "content", "content_write",
             "content_rename", "index", "index_write", "index_rename",
             "drop_flock", "drop_mutex", "return"}
Locations == PutSteps \union {"idle", "get"}

\* Where a thread holds the advisory lock, and where it holds the mutex.
Exclusive == {"read", "content", "content_write", "content_rename",
              "index", "index_write", "index_rename", "drop_flock"}
Guarded == Exclusive \union {"flock", "drop_mutex"}

Goto(t, there) == pc' = [pc EXCEPT ![t] = there]

\* A call's variables end with the call.
EndCalls(T) ==
    /\ req' = [t \in Thread |-> IF t \in T THEN NoRequest ELSE req[t]]
    /\ loc' = [t \in Thread |-> IF t \in T THEN <<>> ELSE loc[t]]
    /\ reply' = [t \in Thread |-> IF t \in T THEN Failed ELSE reply[t]]
    /\ pc' = [t \in Thread |-> IF t \in T THEN "idle" ELSE pc[t]]

\* The index entry that the put of thread t adds.
NewEntry(t) ==
    [scan_id |-> ScanOf[req[t].snap], host_id |-> HostOf[req[t].snap],
     key |-> req[t].key, content_hash |-> req[t].snap]

\* Positions of an index that satisfy a condition, and the first of them:
\* what iter().find() returns.
WithKey(ix, k) == {i \in 1..Len(ix) : ix[i].key = k}
WithScan(ix, id) == {i \in 1..Len(ix) : ix[i].scan_id = id}
First(S) == CHOOSE i \in S : \A j \in S : i <= j

\* A mutex some thread still holds an Arc of.
Alive(m) == \E t \in Thread : arc[t] = m

Init ==
    /\ pc = [t \in Thread |-> "idle"]
    /\ req = [t \in Thread |-> NoRequest]
    /\ loc = [t \in Thread |-> <<>>]
    /\ reply = [t \in Thread |-> Failed]
    /\ registry = [p \in Process |-> NoMutex]
    /\ arc = [t \in Thread |-> NoMutex]
    /\ mutex = [m \in Mutex |-> Nobody]
    /\ flock = Nobody
    /\ index = <<>>
    /\ indexTmp = NoFile
    /\ content = [s \in Snapshot |-> NoFile]
    /\ contentTmp = NoFile
    /\ answered = {}
    /\ fetched = {}
    /\ listed = {}

-----------------------------------------------------------------------------
(* put *)

\* Mutant: a mutex for every call instead of one for the root.
FreshLock(p, m) == ~Alive(m) /\ mutex[m] = Nobody

\* The mutex store_lock_for returns: the registered one while somebody holds
\* an Arc of it, otherwise a new one, which replaces the dead entry.
StoreLockFor(p, m) ==
    IF registry[p] # NoMutex /\ Alive(registry[p])
        THEN m = registry[p]
        ELSE ~Alive(m) /\ mutex[m] = Nobody

PutBegin(t, k, s) ==
    /\ pc[t] = "idle"
    /\ \E m \in Mutex :
        /\ StoreLockFor(ProcOf[t], m)
        /\ registry' = [registry EXCEPT ![ProcOf[t]] = m]
        /\ arc' = [arc EXCEPT ![t] = m]
    /\ req' = [req EXCEPT ![t] = [key |-> k, snap |-> s]]
    /\ Goto(t, "mutex")
    /\ UNCHANGED <<loc, reply, mutex, flock, files, told>>

LockStoreInProcess(t) ==
    /\ pc[t] = "mutex"
    /\ mutex[arc[t]] = Nobody
    /\ mutex' = [mutex EXCEPT ![arc[t]] = t]
    /\ Goto(t, "flock")
    /\ UNCHANGED <<locals, registry, arc, flock, files, told>>

\* Mutant: the answer of try_lock is not looked at.
IgnoreStoreLock(t) ==
    /\ pc[t] = "flock"
    /\ flock' = t
    /\ Goto(t, "read")
    /\ UNCHANGED <<locals, registry, arc, mutex, files, told>>

\* try_lock does not wait: a lock held through any other open file is an
\* error at once.
AcquireStoreLock(t) ==
    /\ pc[t] = "flock"
    /\ flock' = IF flock = Nobody THEN t ELSE flock
    /\ Goto(t, IF flock = Nobody THEN "read" ELSE "drop_mutex")
    /\ UNCHANGED <<locals, registry, arc, mutex, files, told>>

\* Mutant: no search for the key.
ReadWithoutSearch(t) ==
    /\ pc[t] = "read"
    /\ index # Torn
    /\ loc' = [loc EXCEPT ![t] = index]
    /\ Goto(t, "content")
    /\ UNCHANGED <<req, reply, locks, files, told>>

\* Mutant: a hit answers with the scan id of the snapshot just handed in.
AnswerOwnScan(t) ==
    /\ pc[t] = "read"
    /\ index # Torn
    /\ loc' = [loc EXCEPT ![t] = index]
    /\ IF WithKey(index, req[t].key) # {}
        THEN /\ reply' = [reply EXCEPT ![t] = ScanOf[req[t].snap]]
             /\ Goto(t, "drop_flock")
        ELSE Goto(t, "content") /\ UNCHANGED reply
    /\ UNCHANGED <<req, locks, files, told>>

\* read_index, then the search for the key: a hit is the answer.
ReadIndex(t) ==
    /\ pc[t] = "read"
    /\ index # Torn
    /\ loc' = [loc EXCEPT ![t] = index]
    /\ LET hits == WithKey(index, req[t].key) IN
        IF hits # {}
            THEN /\ reply' = [reply EXCEPT ![t] = index[First(hits)].scan_id]
                 /\ Goto(t, "drop_flock")
            ELSE /\ Goto(t, "content")
                 /\ UNCHANGED reply
    /\ UNCHANGED <<req, locks, files, told>>

\* Mutant: the content file is taken to be there.
SkipAlways(t) ==
    /\ pc[t] = "content"
    /\ Goto(t, "index")
    /\ UNCHANGED <<locals, locks, files, told>>

\* The body is on disk already: the content write is skipped.
SkipContent(t) ==
    /\ pc[t] = "content"
    /\ content[req[t].snap] # NoFile
    /\ Goto(t, "index")
    /\ UNCHANGED <<locals, locks, files, told>>

\* Mutant: the content is written in place.
OpenContentInPlace(t) ==
    /\ pc[t] = "content"
    /\ content[req[t].snap] = NoFile
    /\ content' = [content EXCEPT ![req[t].snap] = Torn]
    /\ Goto(t, "content_write")
    /\ UNCHANGED <<locals, locks, index, indexTmp, contentTmp, told>>

\* write_atomic opens the temporary file, which truncates it, and only then
\* tries its lock: a conflict with another writer of the same temporary file
\* ends the put.
OpenContentTmp(t) ==
    /\ pc[t] = "content"
    /\ content[req[t].snap] = NoFile
    /\ contentTmp' = Torn
    /\ Goto(t, IF \E u \in Thread \ {t} : pc[u] = "content_write"
                 THEN "drop_flock" ELSE "content_write")
    /\ UNCHANGED <<locals, locks, index, indexTmp, content, told>>

WriteContentTmp(t) ==
    /\ pc[t] = "content_write"
    /\ contentTmp' = req[t].snap
    /\ Goto(t, "content_rename")
    /\ UNCHANGED <<locals, locks, index, indexTmp, content, told>>

RenameContent(t) ==
    /\ pc[t] = "content_rename"
    /\ contentTmp # NoFile
    /\ content' = [content EXCEPT ![req[t].snap] = contentTmp]
    /\ contentTmp' = NoFile
    /\ Goto(t, "index")
    /\ UNCHANGED <<locals, locks, index, indexTmp, told>>

\* Mutant: the index is written in place.
OpenIndexInPlace(t) ==
    /\ pc[t] = "index"
    /\ index' = Torn
    /\ Goto(t, "index_write")
    /\ UNCHANGED <<locals, locks, indexTmp, content, contentTmp, told>>

OpenIndexTmp(t) ==
    /\ pc[t] = "index"
    /\ indexTmp' = Torn
    /\ Goto(t, IF \E u \in Thread \ {t} : pc[u] = "index_write"
                 THEN "drop_flock" ELSE "index_write")
    /\ UNCHANGED <<locals, locks, index, content, contentTmp, told>>

\* Mutant: the entries read are not written back.
WriteEntryOnly(t) ==
    /\ pc[t] = "index_write"
    /\ indexTmp' = <<NewEntry(t)>>
    /\ Goto(t, "index_rename")
    /\ UNCHANGED <<locals, locks, index, content, contentTmp, told>>

WriteIndexTmp(t) ==
    /\ pc[t] = "index_write"
    /\ indexTmp' = Append(loc[t], NewEntry(t))
    /\ Goto(t, "index_rename")
    /\ UNCHANGED <<locals, locks, index, content, contentTmp, told>>

RenameIndex(t) ==
    /\ pc[t] = "index_rename"
    /\ indexTmp # NoFile
    /\ index' = indexTmp
    /\ indexTmp' = NoFile
    /\ reply' = [reply EXCEPT ![t] = ScanOf[req[t].snap]]
    /\ Goto(t, "drop_flock")
    /\ UNCHANGED <<req, loc, locks, content, contentTmp, told>>

\* Any file operation may fail (or, at "read", find a file it cannot parse),
\* and a panic unwinds the same way: the put returns an error, and what it
\* had written to the temporary file stays there.
Fail(t) ==
    /\ pc[t] \in {"flock"} \union (Exclusive \ {"drop_flock"})
    /\ Goto(t, IF pc[t] = "flock" THEN "drop_mutex" ELSE "drop_flock")
    /\ UNCHANGED <<locals, locks, files, told>>

\* Mutant: the advisory lock outlives a put that failed.
DropFlockOnSuccess(t) ==
    /\ pc[t] = "drop_flock"
    /\ flock' = IF reply[t] = Failed THEN flock ELSE Nobody
    /\ Goto(t, "drop_mutex")
    /\ UNCHANGED <<locals, registry, arc, mutex, files, told>>

\* The guards are dropped in reverse order: the lock file, the mutex guard,
\* the Arc.
DropFlock(t) ==
    /\ pc[t] = "drop_flock"
    /\ flock' = Nobody
    /\ Goto(t, "drop_mutex")
    /\ UNCHANGED <<locals, registry, arc, mutex, files, told>>

DropMutexGuard(t) ==
    /\ pc[t] = "drop_mutex"
    /\ mutex' = [mutex EXCEPT ![arc[t]] = Nobody]
    /\ Goto(t, "return")
    /\ UNCHANGED <<locals, registry, arc, flock, files, told>>

PutReturn(t) ==
    /\ pc[t] = "return"
    /\ arc' = [arc EXCEPT ![t] = NoMutex]
    /\ answered' = IF reply[t] = Failed THEN answered
                   ELSE answered \union {<<req[t].key, reply[t]>>}
    /\ EndCalls({t})
    /\ UNCHANGED <<registry, mutex, flock, files, fetched, listed>>

-----------------------------------------------------------------------------
(* get and list, which take no lock *)

\* The index is read whole; the content file is read in a later step, when
\* any number of puts may have run.
GetBegin(t, id) ==
    /\ pc[t] = "idle"
    /\ index # Torn
    /\ LET hits == WithScan(index, id) IN
        /\ hits # {}
        /\ req' = [req EXCEPT ![t].snap = index[First(hits)].content_hash]
    /\ reply' = [reply EXCEPT ![t] = id]
    /\ Goto(t, "get")
    /\ UNCHANGED <<loc, locks, files, told>>

GetContent(t) ==
    /\ pc[t] = "get"
    /\ LET body == content[req[t].snap] IN
        fetched' = IF body \in {NoFile, Torn} THEN fetched
                   ELSE fetched \union {<<reply[t], body>>}
    /\ EndCalls({t})
    /\ UNCHANGED <<locks, files, answered, listed>>

\* Mutant: the host is not compared.
ListEverything(t, h) ==
    /\ pc[t] = "idle"
    /\ index # Torn
    /\ listed' = listed \union {<<h, index[i].scan_id>> : i \in 1..Len(index)}
    /\ UNCHANGED <<pc, locals, locks, files, answered, fetched>>

ListScans(t, h) ==
    /\ pc[t] = "idle"
    /\ index # Torn
    /\ listed' = listed \union
         {<<h, index[i].scan_id>> : i \in {j \in 1..Len(index) : index[j].host_id = h}}
    /\ UNCHANGED <<pc, locals, locks, files, answered, fetched>>

-----------------------------------------------------------------------------
(* The environment *)

\* A process is killed and started again: its threads, its mutexes and its
\* registry are gone, and the kernel closes its files, which frees the
\* advisory lock.
Crash(p) ==
    /\ \E t \in Thread : ProcOf[t] = p /\ pc[t] # "idle"
    /\ EndCalls({t \in Thread : ProcOf[t] = p})
    /\ arc' = [t \in Thread |-> IF ProcOf[t] = p THEN NoMutex ELSE arc[t]]
    /\ mutex' = [m \in Mutex |->
                    IF mutex[m] # Nobody /\ ProcOf[mutex[m]] = p THEN Nobody ELSE mutex[m]]
    /\ registry' = [registry EXCEPT ![p] = NoMutex]
    /\ flock' = IF flock # Nobody /\ ProcOf[flock] = p THEN Nobody ELSE flock
    /\ UNCHANGED <<files, told>>

\* What a thread does of itself once its call has begun.
Step(t) ==
    \/ LockStoreInProcess(t)
    \/ AcquireStoreLock(t)
    \/ ReadIndex(t)
    \/ SkipContent(t)
    \/ OpenContentTmp(t)
    \/ WriteContentTmp(t)
    \/ RenameContent(t)
    \/ OpenIndexTmp(t)
    \/ WriteIndexTmp(t)
    \/ RenameIndex(t)
    \/ Fail(t)
    \/ DropFlock(t)
    \/ DropMutexGuard(t)
    \/ PutReturn(t)
    \/ GetContent(t)

Next ==
    \/ \E p \in Puts : PutBegin(p[1], p[2], p[3])
    \/ \E t \in Thread : Step(t)
    \/ \E t \in Reader, id \in ScanId : GetBegin(t, id)
    \/ \E t \in Reader, h \in HostId : ListScans(t, h)
    \/ \E p \in Process : Crash(p)

Spec == Init /\ [][Next]_vars

\* A thread the operating system schedules takes its next step unless it
\* waits for the mutex.
FairSpec == Spec /\ \A t \in Thread : WF_vars(Step(t))

-----------------------------------------------------------------------------
(* What makes the store correct *)

TypeOK ==
    /\ pc \in [Thread -> Locations]
    /\ req \in [Thread -> Request]
    /\ loc \in [Thread -> Seq(Entry)]
    /\ reply \in [Thread -> ScanId \union {Failed}]
    /\ registry \in [Process -> Mutex \union {NoMutex}]
    /\ arc \in [Thread -> Mutex \union {NoMutex}]
    /\ mutex \in [Mutex -> Thread \union {Nobody}]
    /\ flock \in Thread \union {Nobody}
    /\ index \in Seq(Entry)
    /\ indexTmp \in Seq(Entry) \union {NoFile, Torn}
    /\ content \in [Snapshot -> Snapshot \union {NoFile, Torn}]
    /\ contentTmp \in Snapshot \union {NoFile, Torn}
    /\ answered \in SUBSET (Key \X ScanId)
    /\ fetched \in SUBSET (ScanId \X Snapshot)
    /\ listed \in SUBSET (HostId \X ScanId)

\* The index at rest: read_index never meets a torn index.json, and every
\* entry's content file is there, whole, and holds the body it is named for,
\* whatever crashed or failed in between.
IndexIntact ==
    /\ index # Torn
    /\ \A i \in 1..Len(index) :
        content[index[i].content_hash] = index[i].content_hash

\* put's idempotency at rest: no idempotency key has two index entries, not
\* even when two processes or a restarted one put it at the same time.
OneEntryPerKey ==
    \A i, j \in 1..Len(index) : index[i].key = index[j].key => i = j

\* The port's promise to a caller: the scan id a put returned stays the one
\* recorded under its key, through later puts and restarts.
AnswersStand ==
    \A a \in answered :
        /\ index # Torn
        /\ \E i \in 1..Len(index) : index[i].key = a[1] /\ index[i].scan_id = a[2]

\* The reason for the in-process mutex (fs.rs, "That lock is cross-process
\* only"): a put of this process never finds the advisory lock taken by
\* another put of this same process.
LockedOnlyByOthers ==
    \A t \in Thread :
        pc[t] = "flock" /\ flock # Nobody => ProcOf[flock] # ProcOf[t]

\* A get that has found its entry without a lock finds the content file it
\* names, holding a snapshot with the scan id that was asked for.
ReadersFindContent ==
    \A t \in Thread :
        pc[t] = "get" => /\ content[req[t].snap] \in Snapshot
                         /\ ScanOf[content[req[t].snap]] = reply[t]

\* Every scan id a list has handed out can be fetched, and is a scan of the
\* host it was listed for (the portal lists, then gets each id).
ListedCanBeFetched ==
    \A l \in listed :
        \E i \in 1..Len(index) :
            /\ index[i].scan_id = l[2]
            /\ content[index[i].content_hash] \in Snapshot
            /\ HostOf[content[index[i].content_hash]] = l[1]

\* No update is lost: a step that changes the index appends one entry and
\* keeps every entry that was there.
IndexOnlyGrows ==
    [][\E e \in Entry : index' = Append(index, e)]_index

\* Whoever takes the mutex or the advisory lock gives it back: a put that
\* fails on the way, or is killed, does not lock the store for good.
LocksAreReleased ==
    \A t \in Thread :
        /\ flock = t ~> flock # t
        /\ \A m \in Mutex : mutex[m] = t ~> mutex[m] # t

\* The records as the port's callers see them: the body each key leads to.
Recorded ==
    IF index = Torn THEN {}
    ELSE {[key |-> index[i].key, snap |-> content[index[i].content_hash]] :
            i \in 1..Len(index)}

Port == INSTANCE SnapshotStore WITH recorded <- Recorded

\* The store on disk does what the port promises.
ImplementsPort == Port!Spec

=============================================================================
