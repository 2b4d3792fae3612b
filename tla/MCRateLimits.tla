----------------------------- MODULE MCRateLimits -----------------------------
(* RateLimits on a small instance. *)
EXTENDS RateLimits, TLC

Limits == [k \in Kinds |-> IF k = "attempt" THEN 2 ELSE 1]

Symmetry == Permutations(Requests) \cup Permutations(Ips)
=============================================================================
