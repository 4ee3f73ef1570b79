------------------------- MODULE SqliteSnapshotStore -------------------------
(***************************************************************************)
(* The SQLite snapshot store (adapters/snapshot_store/sqlite.rs), one      *)
(* connection per process on one database file.                            *)
(*                                                                         *)
(* A put runs under the mutex of its process's connection, in one deferred *)
(* transaction: look the key up, insert the row, commit. A conflict with a *)
(* unique column drops the transaction and looks the key up again.         *)
(*                                                                         *)
(* SQLite itself is external; this is how it locks a database in its       *)
(* default rollback-journal mode. The first read of a transaction takes a  *)
(* SHARED lock, its first write the RESERVED one, and COMMIT goes through  *)
(* PENDING, which admits no new reader, to EXCLUSIVE, which waits for the  *)
(* other readers to go. Who holds no lock yet waits for a while (the busy  *)
(* timeout); who would wait with a SHARED lock is refused at once. A crash *)
(* undoes whatever was not committed.                                      *)
(***************************************************************************)
EXTENDS Naturals

CONSTANTS
    Conn,       \* open connections, one per anne process
    Thread,     \* blocking threads, of all the processes
    ConnOf,     \* the connection each thread's process has
    Puts,       \* the puts callers make: <<thread, key, snapshot>>
    Reader,     \* the threads that callers get and list on
    Key, Snapshot, ScanId, HostId, ScanOf, HostOf,
    Nobody,     \* no thread, no connection: a lock that is free
    Busy,       \* the answer of a put that was refused a database lock
    Failed      \* the answer of a put that returned another error

ASSUME SqliteAssumption ==
    /\ Key # {} /\ Snapshot # {}
    /\ ConnOf \in [Thread -> Conn]
    /\ Puts \subseteq Thread \X Key \X Snapshot
    /\ Reader \subseteq Thread
    /\ ScanOf \in [Snapshot -> ScanId]
    /\ HostOf \in [Snapshot -> HostId]
    /\ Nobody \notin Thread \union Conn
    /\ {Busy, Failed} \intersect ScanId = {}

VARIABLES
    pc,         \* where each thread is
    req,        \* the row each thread's put wants to insert
    reply,      \* the scan id or error each thread's put will return
    mutex,      \* the thread that has locked each connection
    shared,     \* the connections that hold a SHARED lock
    reserved,   \* the connection that holds the RESERVED lock
    pending,    \* whether that connection is committing
    rows,       \* the rows of the table, as committed
    answered, fetched, listed   \* what callers were told (histories)

locals   == <<req, reply>>
database == <<shared, reserved, pending, rows>>
told     == <<answered, fetched, listed>>
vars     == <<pc, locals, mutex, database, told>>

\* A row: its scan_id, host_id and snapshot_json columns are the snapshot's.
Row == [key : Key, snap : Snapshot]
NoRow == CHOOSE r \in Row : TRUE    \* an idle thread's, of no meaning

InTransaction == {"insert", "commit", "exclusive"}
Locked == InTransaction \union {"check", "reread", "unlock"}
Locations == Locked \union {"idle", "mutex"}

Goto(t, there) == pc' = [pc EXCEPT ![t] = there]
Reply(t, answer) == reply' = [reply EXCEPT ![t] = answer]

\* A call's variables end with the call.
EndCalls(T) ==
    /\ req' = [t \in Thread |-> IF t \in T THEN NoRow ELSE req[t]]
    /\ reply' = [t \in Thread |-> IF t \in T THEN Failed ELSE reply[t]]
    /\ pc' = [t \in Thread |-> IF t \in T THEN "idle" ELSE pc[t]]

WithKey(k) == {r \in rows : r.key = k}

\* A row the table has no room for beside r: scan_id is its primary key,
\* idempotency_key is unique.
Conflicts(r) == {q \in rows : q.key = r.key \/ ScanOf[q.snap] = ScanOf[r.snap]}

\* The transaction of a connection ends and its locks are free.
EndTransaction(c) ==
    /\ shared' = shared \ {c}
    /\ reserved' = IF reserved = c THEN Nobody ELSE reserved
    /\ pending' = (pending /\ reserved # c)

Init ==
    /\ pc = [t \in Thread |-> "idle"]
    /\ req = [t \in Thread |-> NoRow]
    /\ reply = [t \in Thread |-> Failed]
    /\ mutex = [c \in Conn |-> Nobody]
    /\ shared = {}
    /\ reserved = Nobody
    /\ pending = FALSE
    /\ rows = {}
    /\ answered = {}
    /\ fetched = {}
    /\ listed = {}

-----------------------------------------------------------------------------
(* put *)

PutBegin(t, k, s) ==
    /\ pc[t] = "idle"
    /\ req' = [req EXCEPT ![t] = [key |-> k, snap |-> s]]
    /\ Goto(t, "mutex")
    /\ UNCHANGED <<reply, mutex, database, told>>

LockConnection(t) ==
    /\ pc[t] = "mutex"
    /\ mutex[ConnOf[t]] = Nobody
    /\ mutex' = [mutex EXCEPT ![ConnOf[t]] = t]
    /\ Goto(t, "check")
    /\ UNCHANGED <<locals, database, told>>

\* Mutant: the key is looked up before the transaction begins.
CheckOutside(t) ==
    /\ pc[t] = "check"
    /\ ~pending
    /\ IF WithKey(req[t].key) # {}
         THEN /\ \E r \in WithKey(req[t].key) : Reply(t, ScanOf[r.snap])
              /\ Goto(t, "unlock")
         ELSE Goto(t, "insert") /\ UNCHANGED reply
    /\ UNCHANGED <<req, mutex, database, told>>

\* find_by_idempotency_key in the transaction. A hit is the answer and drops
\* the transaction; otherwise the SHARED lock stays.
Check(t) ==
    /\ pc[t] = "check"
    /\ ~pending
    /\ IF WithKey(req[t].key) # {}
         THEN /\ \E r \in WithKey(req[t].key) : Reply(t, ScanOf[r.snap])
              /\ Goto(t, "unlock")
              /\ UNCHANGED shared
         ELSE /\ shared' = shared \union {ConnOf[t]}
              /\ Goto(t, "insert")
              /\ UNCHANGED reply
    /\ UNCHANGED <<req, mutex, reserved, pending, rows, told>>

\* INSERT takes the RESERVED lock. A conflict drops the transaction.
Insert(t) ==
    /\ pc[t] = "insert"
    /\ reserved = Nobody
    /\ IF Conflicts(req[t]) = {}
         THEN /\ shared' = shared \union {ConnOf[t]}
              /\ reserved' = ConnOf[t]
              /\ Goto(t, "commit")
              /\ UNCHANGED pending
         ELSE /\ EndTransaction(ConnOf[t])
              /\ Goto(t, "reread")
    /\ UNCHANGED <<locals, mutex, rows, told>>

\* Mutant: an INSERT that is refused leaves its transaction open.
InsertBusyOpen(t) ==
    /\ pc[t] = "insert"
    /\ reserved # Nobody
    /\ Reply(t, Busy)
    /\ Goto(t, "unlock")
    /\ UNCHANGED <<req, mutex, database, told>>

\* Another connection has the RESERVED lock. This one has a SHARED lock, so
\* SQLite does not let it wait: SQLITE_BUSY.
InsertBusy(t) ==
    /\ pc[t] = "insert"
    /\ reserved # Nobody
    /\ EndTransaction(ConnOf[t])
    /\ Reply(t, Busy)
    /\ Goto(t, "unlock")
    /\ UNCHANGED <<req, mutex, rows, told>>

\* COMMIT: from here on no connection begins to read.
BeginCommit(t) ==
    /\ pc[t] = "commit"
    /\ pending' = TRUE
    /\ Goto(t, "exclusive")
    /\ UNCHANGED <<locals, mutex, shared, reserved, rows, told>>

Commit(t) ==
    /\ pc[t] = "exclusive"
    /\ shared = {ConnOf[t]}
    /\ rows' = rows \union {req[t]}
    /\ EndTransaction(ConnOf[t])
    /\ Reply(t, ScanOf[req[t].snap])
    /\ Goto(t, "unlock")
    /\ UNCHANGED <<req, mutex, told>>

\* The busy timeout elapses: while a commit waits for the readers to go, or a
\* first read for a commit to end.
BusyTimeout(t) ==
    /\ \/ pc[t] = "exclusive" /\ shared # {ConnOf[t]}
       \/ pc[t] \in {"check", "reread"} /\ pending
    /\ EndTransaction(ConnOf[t])
    /\ Reply(t, Busy)
    /\ Goto(t, "unlock")
    /\ UNCHANGED <<req, mutex, rows, told>>

\* Mutant: a conflict is taken for success.
RereadTrustsItself(t) ==
    /\ pc[t] = "reread"
    /\ ~pending
    /\ Reply(t, ScanOf[req[t].snap])
    /\ Goto(t, "unlock")
    /\ UNCHANGED <<req, mutex, database, told>>

\* After a conflict: the winner's row is the answer, no row is an error.
Reread(t) ==
    /\ pc[t] = "reread"
    /\ ~pending
    /\ IF WithKey(req[t].key) # {}
         THEN \E r \in WithKey(req[t].key) : Reply(t, ScanOf[r.snap])
         ELSE Reply(t, Failed)
    /\ Goto(t, "unlock")
    /\ UNCHANGED <<req, mutex, database, told>>

\* Any other error of SQLite, or a panic; the transaction is rolled back.
Fail(t) ==
    /\ pc[t] \in Locked \ {"unlock"}
    /\ EndTransaction(ConnOf[t])
    /\ Reply(t, Failed)
    /\ Goto(t, "unlock")
    /\ UNCHANGED <<req, mutex, rows, told>>

\* Mutant: an error is answered like a scan id.
AnswerErrors(t) ==
    /\ pc[t] = "unlock"
    /\ mutex' = [mutex EXCEPT ![ConnOf[t]] = Nobody]
    /\ answered' = answered \union {<<req[t].key, reply[t]>>}
    /\ EndCalls({t})
    /\ UNCHANGED <<database, fetched, listed>>

\* The guard is dropped and the put returns.
PutReturn(t) ==
    /\ pc[t] = "unlock"
    /\ mutex' = [mutex EXCEPT ![ConnOf[t]] = Nobody]
    /\ answered' = IF reply[t] \in {Busy, Failed} THEN answered
                   ELSE answered \union {<<req[t].key, reply[t]>>}
    /\ EndCalls({t})
    /\ UNCHANGED <<database, fetched, listed>>

-----------------------------------------------------------------------------
(* get and list: one SELECT each, under the same mutex *)

MayRead(t) ==
    /\ pc[t] = "idle"
    /\ mutex[ConnOf[t]] = Nobody
    /\ ~pending

GetScan(t, id) ==
    /\ MayRead(t)
    /\ \E r \in rows : ScanOf[r.snap] = id /\ fetched' = fetched \union {<<id, r.snap>>}
    /\ UNCHANGED <<pc, locals, mutex, database, answered, listed>>

ListScans(t, h) ==
    /\ MayRead(t)
    /\ listed' = listed \union
         {<<h, ScanOf[r.snap]>> : r \in {q \in rows : HostOf[q.snap] = h}}
    /\ UNCHANGED <<pc, locals, mutex, database, answered, fetched>>

\* A process is killed and started again. Its journal, if there is one, is
\* rolled back by whoever opens the database next.
Crash(c) ==
    /\ \E t \in Thread : ConnOf[t] = c /\ pc[t] # "idle"
    /\ EndCalls({t \in Thread : ConnOf[t] = c})
    /\ mutex' = [mutex EXCEPT ![c] = Nobody]
    /\ EndTransaction(c)
    /\ UNCHANGED <<rows, told>>

\* What a thread does of itself once its put has begun.
Step(t) ==
    \/ LockConnection(t)
    \/ Check(t)
    \/ Insert(t)
    \/ InsertBusy(t)
    \/ BeginCommit(t)
    \/ Commit(t)
    \/ BusyTimeout(t)
    \/ Reread(t)
    \/ Fail(t)
    \/ PutReturn(t)

Next ==
    \/ \E p \in Puts : PutBegin(p[1], p[2], p[3])
    \/ \E t \in Thread : Step(t)
    \/ \E t \in Reader, id \in ScanId : GetScan(t, id)
    \/ \E t \in Reader, h \in HostId : ListScans(t, h)
    \/ \E c \in Conn : Crash(c)

Spec == Init /\ [][Next]_vars

\* A thread the operating system schedules takes its next step unless it
\* waits for the mutex; SQLite's waits end.
FairSpec == Spec /\ \A t \in Thread : WF_vars(Step(t))

-----------------------------------------------------------------------------
(* What makes the store correct *)

TypeOK ==
    /\ pc \in [Thread -> Locations]
    /\ req \in [Thread -> Row]
    /\ reply \in [Thread -> ScanId \union {Busy, Failed}]
    /\ mutex \in [Conn -> Thread \union {Nobody}]
    /\ shared \in SUBSET Conn
    /\ reserved \in Conn \union {Nobody}
    /\ pending \in BOOLEAN
    /\ rows \in SUBSET Row
    /\ answered \in SUBSET (Key \X ScanId)
    /\ fetched \in SUBSET (ScanId \X Snapshot)
    /\ listed \in SUBSET (HostId \X ScanId)

\* "put checks-then-inserts inside one transaction": what the check saw still
\* holds when the row is inserted and when it is committed, whatever other
\* processes have put in between.
CheckStillHolds ==
    \A t \in Thread : pc[t] \in InTransaction => WithKey(req[t].key) = {}

\* The database does what the port promises.
Port == INSTANCE SnapshotStore WITH recorded <- rows
ImplementsPort == Port!Spec

\* Nobody waits on everybody: a lock on the connection or on the database is
\* given back, though commits wait for readers and readers for commits.
LocksAreReleased ==
    \A c \in Conn :
        /\ c \in shared ~> c \notin shared
        /\ reserved = c ~> reserved # c
        /\ \A t \in Thread : mutex[c] = t ~> mutex[c] # t

\* The module's account of a race (sqlite.rs, "both callers observe the same
\* idempotent result"): a put that loses to a writer of its own key is
\* answered with the winner's scan id, so it is never refused with an error.
LoserReadsWinner ==
    [][\A t, u \in Thread :
        InsertBusy(t) /\ reserved = ConnOf[u] /\ pc[u] \in InTransaction =>
            req[t].key # req[u].key]_vars

=============================================================================
