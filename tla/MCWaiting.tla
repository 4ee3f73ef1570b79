------------------------------- MODULE MCWaiting -------------------------------
(***************************************************************************)
(* Waiting over small constants.                                           *)
(*                                                                         *)
(* store: two writers of one process and one of another retry the same     *)
(* upload. fanout: two hosts with --concurrency 0. prober: two scans of two *)
(* addresses share a gate. powershell: two calls, a pipe of one message,    *)
(* and a script that writes two.                                           *)
(***************************************************************************)
EXTENDS Waiting, TLC

CONSTANTS t1, t2, t3, p1, p2, k1, s1, d1, c1, c2, a1, a2

TheProcOf == [t \in Thread |-> IF t = t3 THEN p2 ELSE p1]
ThePuts == Thread \X Key \X Snapshot
TheScanOf == [s \in Snapshot |-> 1]
TheHostOf == [s \in Snapshot |-> d1]

TheAddrOf == [s \in ProbeScan |-> IF s = c1 THEN a1 ELSE a2]
TheCandidates == <<80, 443>>
TheExcluded == {<<a1, 443>>, <<a2, 80>>}
TheRequests == [http |-> 2, tls |-> 1]

-----------------------------------------------------------------------------
\* A collector that is idle has no script that hangs.
MCInit == Init /\ (component # "powershell" => hanging = {})

MCSpec == MCInit /\ [][Next]_all /\ Fairness

=============================================================================
