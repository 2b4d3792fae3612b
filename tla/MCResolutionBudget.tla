-------------------------- MODULE MCResolutionBudget --------------------------
(* ResolutionBudget for TLC: calls, clients and origins are alike. *)
EXTENDS ResolutionBudget, TLC

Symmetry == Permutations(Requests) \cup Permutations(Clients) \cup Permutations(Origins)

=============================================================================
