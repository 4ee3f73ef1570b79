-------------------------------- MODULE MCRules --------------------------------
(***************************************************************************)
(* Rules on its own, over the topics a run names.                          *)
(***************************************************************************)
EXTENDS Rules, RuleQuestions

CONSTANT Topics

\* Two sockets on one port are found as well.
MCQuestions ==
    [topic \in Topics |-> IF topic = "gather" THEN GatherQuestions({Web, Dns, High, Twin})
                          ELSE TheQuestions[topic]]

=============================================================================
