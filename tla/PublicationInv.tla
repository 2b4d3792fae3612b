---------------------------- MODULE PublicationInv ---------------------------
(***************************************************************************)
(* The inductive invariant behind the safety properties of Publication.     *)
(* A revision that stops being public never is again, so two readings that  *)
(* find it tell that it was public all the time between them.               *)
(***************************************************************************)
EXTENDS Publication

\* A retry names a row, before and after its handler has read the pages; a
\* request that is new or over is bound to nothing.
RetriesNameRows ==
    \A p \in Requests :
        /\ jobs[p].at = "reading" =>
             /\ jobs[p].mode \in {"publish", "retry"}
             /\ jobs[p].mode = "retry" => jobs[p].run \in DOMAIN runs
        /\ HasChild(p) => jobs[p].mode \in {"publish", "retire"}
        /\ jobs[p].at = "new" => jobs[p] = NewJob
        /\ jobs[p].at = "done" => jobs[p] = DoneJob

\* What is shown, was read or is named by a row or a child was made public, under
\* its page.
ReadWasPublic ==
    /\ OfItsPages(shown)
    /\ \A i \in DOMAIN runs : OfItsPages(runs[i].snap)
    /\ \A p \in Requests :
         /\ OfItsPages(jobs[p].read)
         /\ HasChild(p) => OfItsPages(jobs[p].snap)

AfterBuild(p) ==
    /\ jobs[p].at \in {"built", "verifying", "verified", "pushing", "pushed"}
    /\ jobs[p].mode = "publish"

\* What was no longer public when the build ended is not public now, and no
\* reading after the build finds it.
GoneStaysGone ==
    \A p \in Requests, s \in Slugs :
        (/\ AfterBuild(p)
         /\ jobs[p].snap[s] # None
         /\ jobs[p].built[s] # jobs[p].snap[s]) =>
            /\ shown[s] # jobs[p].snap[s]
            /\ jobs[p].at = "verifying" => jobs[p].read[s] # jobs[p].snap[s]

Pushed(snap) == \E k \in DOMAIN branch : branch[k].pages = snap
Retired(snap) == \E k, l \in DOMAIN branch :
                     k < l /\ branch[k].pages = snap /\ branch[l] = Tombstone

\* A child that has pushed left its projection on the branch.
PushesStay ==
    \A p \in Requests : (jobs[p].at = "pushed" /\ jobs[p].run # 0) =>
        IF jobs[p].mode = "retire" THEN Retired(jobs[p].snap) ELSE Pushed(jobs[p].snap)

\* The inductive invariant: what holds between any two steps of a publication.
IInv ==
    /\ TypeOK
    /\ RetriesNameRows
    /\ DriversOwnTheirRuns
    /\ ReadWasPublic
    /\ HostShowsItsPages
    /\ ActiveRowsAreDriven
    /\ GoneStaysGone
    /\ PushedWasPublicTogether
    /\ PushesStay
    /\ StatusesAreTrue

=============================================================================
