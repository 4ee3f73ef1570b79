------------------------------ MODULE MCComponents ------------------------------
(***************************************************************************)
(* Components over small constants.                                        *)
(*                                                                         *)
(* portal: two hosts, two snapshots of one and one of the other, two       *)
(* tokens of which the first may read one host only; two requests in       *)
(* flight. keys: two inventory entries of one server on a port that is not *)
(* the default, so one label, and files that are empty, name the server    *)
(* without its port, pin a key by a pattern, or negate and hash. prober:   *)
(* three scans of one address, whose budget is two probes. scan: two pids, *)
(* two programs, two changes. update: two updates in turn. progress and    *)
(* report: two hosts, two writers. rules: the questions of RuleQuestions.  *)
(***************************************************************************)
EXTENDS Components, RuleQuestions

CONSTANTS
    h1, h2, s1, s2, s3, k1, k2, k3, secretA, secretB, w1, w2, g1, g2, keyA, keyB, id1, idC,
    file1, c1, c2, c3, a1, ga, gb, u1, u2

-----------------------------------------------------------------------------
\* portal
TheScanOf == [s \in Snapshot |-> CASE s = s1 -> 1 [] s = s2 -> 2 [] s = s3 -> 3]
TheHostOf == [s \in Snapshot |-> IF s = s3 THEN h2 ELSE h1]
TheCollectedAt == [s \in Snapshot |-> IF s = s1 THEN 2 ELSE 1]
TheKeyOf == [s \in Snapshot |-> CASE s = s1 -> k1 [] s = s2 -> k2 [] s = s3 -> k3]

TheTokenConfig ==
    <<[id |-> "ops", secret_env |-> "OPS", hosts |-> {h1}],
      [id |-> "audit", secret_env |-> "AUDIT", hosts |-> {h1, h2}]>>

\* Both set, one forgotten, one secret pasted into both.
TheEnvironment ==
    {[OPS |-> secretA, AUDIT |-> secretB], [OPS |-> secretA, AUDIT |-> "unset"],
     [OPS |-> secretA, AUDIT |-> secretA]}

Ask(bearer, addr, route, h, scan) ==
    [bearer |-> bearer, addr |-> addr, route |-> route, host |-> h, scan |-> scan,
     https |-> addr = "proxy"]

TheRequest ==
    {Ask(secretA, "proxy", "drift", h1, 1), Ask(secretA, "proxy", "scan", h1, 3),
     Ask(secretB, "proxy", "scan", h2, 3), Ask(secretA, "proxy", "fragment", h2, 1),
     Ask(secretB, "proxy", "index", NoHost, 1), Ask(secretB, "proxy", "asset", NoHost, 1),
     Ask(secretB, "remote", "unknown", NoHost, 1), Ask(secretB, "proxy", "drift", NoHost, 1)}

\* keys
Plain(patterns, key) ==
    [hashed |-> FALSE, key |-> key,
     patterns |-> {[pattern |-> p[1], negate |-> p[2]] : p \in patterns}]

TheAddress == [h \in Host |-> <<"d", "b">>]
ThePort == [h \in Host |-> "2222"]
TheAuth == [h \in Host |-> IF h = g1 THEN "agent" ELSE "keyfile"]
TheBooks ==
    {{},
     {Plain({<<<<"d", "b", "*">>, FALSE>>}, keyA)},
     {Plain({<<<<"[", "d", "?", "]", ":", "*">>, FALSE>>}, keyA)},
     {Plain({<<<<"*">>, FALSE>>, <<<<"[", "d", "*">>, TRUE>>}, keyA),
      [hashed |-> TRUE, name |-> <<"[", "d", "b", "]", ":", "2222">>, key |-> keyB]}}
TheIdentities ==
    <<[id |-> idC, certificate |-> TRUE], [id |-> id1, certificate |-> FALSE]>>
TheCredential == [h \in Host |-> file1]

\* prober
TheAddrOf == [s \in Scan |-> a1]
TheCandidates == <<80, 443>>
TheExcluded == {<<a1, 443>>}
TheRequests == [http |-> 1, tls |-> 1]

\* scan
Socket(n, pid) == [port |-> n, pid |-> pid]
TheService == [g \in Program |-> IF g = ga THEN {"sshd"} ELSE {"dns", "dhcp"}]
TheTables ==
    {<<Socket(22, 1), Socket(53, 2), Socket(631, NoPid)>>, <<Socket(53, 2), Socket(53, 2)>>,
     <<Socket(22, 1), Socket(0, NoPid)>>, <<>>}

-----------------------------------------------------------------------------
\* Where a component may start in several ways, an idle one starts in one of them.
MCInit ==
    /\ component \in Names
    /\ PR!Init /\ RW!Init
    /\ PO!Init
    /\ component # "portal" => environment = [OPS |-> secretA, AUDIT |-> secretB]
    /\ HK!Init
    /\ component # "keys" => book = {} /\ ~accept_new
    /\ PG!Init
    /\ component # "progress" => ~terminal
    /\ LS!Init
    /\ component # "scan" =>
         /\ collector = "stub" /\ request = "local" /\ flags = {} /\ config = {}
         /\ running = [p \in {1, 2} |-> IF p = 1 THEN ga ELSE gb]
    /\ SU!Init
    /\ component # "update" =>
         /\ ~windows /\ ~published /\ latest = 1
         /\ \A u \in {u1, u2} : args[u] = [check |-> TRUE, yes |-> FALSE, version |-> 0]
    /\ IF component = "rules" THEN RU!Init
       ELSE question = "none" /\ answered = FALSE /\ answer = "none"

MCSpec == MCInit /\ [][Next]_all

WorkerSymmetry == Permutations({w1, w2})

=============================================================================
