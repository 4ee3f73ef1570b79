--------------------------- MODULE MCRemoteArtifact ---------------------------
(* Interchangeable hosts and versions of the executable. *)
EXTENDS RemoteArtifact, TLC

Symmetry == Permutations(Host) \union Permutations(Binary)

=============================================================================
