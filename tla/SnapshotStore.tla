---------------------------- MODULE SnapshotStore ----------------------------
(***************************************************************************)
(* What the port SnapshotStore promises its callers, whichever adapter     *)
(* stands behind it: put is idempotent on the caller's idempotency key, a  *)
(* record is never changed or lost once it exists, and get and list only   *)
(* ever hand out records that exist.                                       *)
(*                                                                         *)
(* The scans recorded form a set of [key, snap] records. What the callers  *)
(* have been told is kept as three history variables.                      *)
(***************************************************************************)

CONSTANTS
    Key,        \* idempotency keys
    Snapshot,   \* snapshot bodies
    ScanId,     \* scan identifiers
    HostId,     \* host identifiers
    ScanOf,     \* the scan_id field of each snapshot
    HostOf      \* the host_id field of each snapshot

VARIABLES
    recorded,   \* the records the store holds
    answered,   \* <<key, scan id>> pairs that a put returned
    fetched,    \* <<scan id, snapshot>> pairs that a get returned
    listed      \* <<host id, scan id>> pairs that a list returned

vars == <<recorded, answered, fetched, listed>>

Record == [key : Key, snap : Snapshot]

Init ==
    /\ recorded = {}
    /\ answered = {}
    /\ fetched = {}
    /\ listed = {}

\* A put takes effect: only a key that was never recorded gets a record.
Commit(k, s) ==
    /\ \A r \in recorded : r.key # k
    /\ recorded' = recorded \union {[key |-> k, snap |-> s]}
    /\ UNCHANGED <<answered, fetched, listed>>

\* A put returns the scan id of the key's one record, its own or the one an
\* earlier put with the same key left.
Answer(k) ==
    \E r \in recorded :
        /\ r.key = k
        /\ answered' = answered \union {<<k, ScanOf[r.snap]>>}
        /\ UNCHANGED <<recorded, fetched, listed>>

\* A get that finds something returns a recorded snapshot with that scan id.
Fetch(id) ==
    \E r \in recorded :
        /\ ScanOf[r.snap] = id
        /\ fetched' = fetched \union {<<id, r.snap>>}
        /\ UNCHANGED <<recorded, answered, listed>>

\* A list returns every scan id recorded for the host, and nothing else.
List(h) ==
    /\ listed' = listed \union
         {<<h, ScanOf[r.snap]>> : r \in {q \in recorded : HostOf[q.snap] = h}}
    /\ UNCHANGED <<recorded, answered, fetched>>

Next ==
    \/ \E k \in Key, s \in Snapshot : Commit(k, s)
    \/ \E k \in Key : Answer(k)
    \/ \E id \in ScanId : Fetch(id)
    \/ \E h \in HostId : List(h)

Spec == Init /\ [][Next]_vars

=============================================================================
