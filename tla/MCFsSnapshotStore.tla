-------------------------- MODULE MCFsSnapshotStore --------------------------
(***************************************************************************)
(* One process with two blocking threads and a second process with one,    *)
(* two idempotency keys and two snapshots of two hosts: two puts race       *)
(* inside a process with one body, and across processes with one key.      *)
(***************************************************************************)
EXTENDS FsSnapshotStore, TLC

CONSTANTS t1, t2, t3, p1, p2, k1, k2, s1, s2, h1, h2

MCThread == {t1, t2, t3}
MCProcess == {p1, p2}
MCProcOf == [t \in MCThread |-> IF t = t3 THEN p2 ELSE p1]
MCSnapshot == {s1, s2}
MCScanOf == [s \in MCSnapshot |-> IF s = s1 THEN 1 ELSE 2]
MCHostOf == [s \in MCSnapshot |-> IF s = s1 THEN h1 ELSE h2]

\* t1 and t3 retry one key with different bodies from two processes; t2 puts
\* t1's body under another key.
WritersPuts == {<<t1, k1, s1>>, <<t2, k2, s1>>, <<t3, k1, s2>>}

MutexSymmetry == Permutations(Mutex)

=============================================================================
