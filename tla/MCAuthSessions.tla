--------------------------- MODULE MCAuthSessions ---------------------------
(* AuthSessions on a small instance. *)
EXTENDS AuthSessions, TLC

Symmetry == Permutations(Requests) \cup Permutations(Passwords)
=============================================================================
