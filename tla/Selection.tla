------------------------------- MODULE Selection -------------------------------
(***************************************************************************)
(* What the standard library's iterators do for the pure parts: filter,    *)
(* which keeps what passes a test in the order it was found, and the       *)
(* stable sorts. Neither is recursive here: the n-th of a result is the    *)
(* one that n - 1 of the others come before.                              *)
(***************************************************************************)
EXTENDS Naturals, Sequences, FiniteSets, SequencesExt

\* The elements of a set, in a strict order given as a set of pairs.
Arranged(S, order) ==
    [n \in 1 .. Cardinality(S) |->
       CHOOSE x \in S : Cardinality({y \in S : <<y, x>> \in order}) = n - 1]

ArrangedBy(S, Before(_, _)) == Arranged(S, {p \in S \X S : Before(p[1], p[2])})

At(seq, places) == [n \in DOMAIN places |-> seq[places[n]]]

Increasing == {p \in Nat \X Nat : p[1] < p[2]}

Selected(seq, Test(_)) == At(seq, Arranged({i \in DOMAIN seq : Test(seq[i])}, Increasing))

Sorted(seq, Less(_, _)) ==
    At(seq, ArrangedBy(DOMAIN seq, LAMBDA i, j : \/ Less(seq[i], seq[j])
                                                 \/ i < j /\ ~Less(seq[j], seq[i])))

=============================================================================
