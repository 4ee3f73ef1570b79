------------------------ MODULE MCSqliteSnapshotStore ------------------------
(***************************************************************************)
(* Two processes, the first with two blocking threads; two idempotency     *)
(* keys and three snapshots, two of them with one scan id.                 *)
(***************************************************************************)
EXTENDS SqliteSnapshotStore

CONSTANTS t1, t2, t3, c1, c2, k1, k2, s1, s2, s3, h1, h2

MCThread == {t1, t2, t3}
MCConn == {c1, c2}
MCConnOf == [t \in MCThread |-> IF t = t3 THEN c2 ELSE c1]
MCSnapshot == {s1, s2, s3}
MCScanOf == [s \in MCSnapshot |-> IF s = s2 THEN 2 ELSE 1]
MCHostOf == [s \in MCSnapshot |-> IF s = s2 THEN h2 ELSE h1]

\* t1 and t3 race for one key from two processes, t2 joins them or puts under
\* another key, t3 also puts a snapshot whose scan id is t1's.
MCPuts == {<<t1, k1, s1>>, <<t2, k1, s2>>, <<t2, k2, s2>>, <<t3, k1, s2>>, <<t3, k2, s3>>}

=============================================================================
