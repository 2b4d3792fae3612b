---------------------------- MODULE MCPublication ----------------------------
(* Publication on small sets of pages and requests. *)
EXTENDS PublicationInv, TLC

\* Requests, pages and revisions are interchangeable.
Symmetry == Permutations(Requests) \cup Permutations(Slugs) \cup Permutations(RevIds)

\* One request at a time, for a counterexample that needs no race.
OneAtATime ==
    \A p, q \in Requests :
        (jobs[p].at \notin {"new", "done"} /\ jobs[q].at \notin {"new", "done"}) => p = q

=============================================================================
