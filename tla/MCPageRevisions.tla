--------------------------- MODULE MCPageRevisions ---------------------------
(***************************************************************************)
(* Small instances of PageRevisions for TLC.                                *)
(***************************************************************************)
EXTENDS PageRevisionsInv, TLC

\* Clients and identities are interchangeable.
Symmetry == Permutations(Actors) \cup Permutations(RevIds) \cup Permutations(PubIds)

=============================================================================
