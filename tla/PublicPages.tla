----------------------------- MODULE PublicPages ------------------------------
(***************************************************************************)
(* What the page store promises to those who show its pages: the publisher *)
(* of the static site, the public routes, the other nodes.  A page shows    *)
(* one revision or none; what it shows was never shown before, by this page *)
(* or by another; and nothing that was taken away comes back.  There are no *)
(* drafts, proposals, requests or revision numbers here.  Publication is    *)
(* built on this promise, PageRevisions keeps it.                           *)
(***************************************************************************)
CONSTANTS Slugs, RevIds, None

VARIABLES
    shown,  \* slug -> the revision visitors see, or None
    home    \* revision -> the page it was ever made public under, or None

public == <<shown, home>>

Nobody ==
    /\ shown = [s \in Slugs |-> None]
    /\ home = [r \in RevIds |-> None]

\* Page s shows revision r, which comes alone or with its earlier public history.
Show(s, r, history) ==
    /\ r \in history
    /\ \A q \in history : home[q] = None
    /\ shown' = [shown EXCEPT ![s] = r]
    /\ home' = [q \in RevIds |-> IF q \in history THEN s ELSE home[q]]

Hide(s) ==
    /\ shown' = [shown EXCEPT ![s] = None]
    /\ UNCHANGED home

Showing ==
    \E s \in Slugs :
        \/ \E history \in SUBSET RevIds : \E r \in history : Show(s, r, history)
        \/ Hide(s)

Shown == Nobody /\ [][Showing]_public

=============================================================================
