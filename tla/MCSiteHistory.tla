--------------------------- MODULE MCSiteHistory ---------------------------
(* SiteHistory on a small instance. *)
EXTENDS SiteHistoryInv, TLC

CONSTANTS a, b

Symmetry == Permutations(Requests) \cup Permutations({a, b})
=============================================================================
