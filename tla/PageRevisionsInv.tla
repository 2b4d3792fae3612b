-------------------------- MODULE PageRevisionsInv ---------------------------
(***************************************************************************)
(* The inductive invariant behind the safety properties of PageRevisions:   *)
(* what a request may rely on between its steps, and how heads, revisions   *)
(* and approvals fit together.  TLC checks it, PageRevisionsProofs proves   *)
(* it.                                                                      *)
(***************************************************************************)
EXTENDS PageRevisions

\* The requests that hold a built revision their transaction will insert.
Holds(a) == ops[a].kind \in {"saving", "proposing", "adopting"}

\* Every kind of request carries exactly the fields its next step reads.
OpShape ==
    \A a \in Actors :
        LET op == ops[a] IN
        /\ op.kind \in {"idle", "editing"} => op.id = None /\ op.row = None
        /\ op.kind # "idle" => op.slug \in Slugs
        /\ Holds(a) =>
             /\ op.id \in RevIds
             /\ op.row \in RevisionRows
             /\ op.row.slug = op.slug
             /\ op.row.parent = op.base
             /\ op.row.approvedAt = Publishable(op.slug, op.row.status)
        /\ op.kind = "saving" => op.seen = op.base
        /\ op.kind = "proposing" => op.base # None /\ op.row.status = "draft"
        /\ op.kind = "adopting" => op.base = None
        /\ op.kind = "approving" =>
             /\ op.row = None
             /\ op.id \in RevIds
             /\ op.base \in RevIds
             /\ Stored(op.id)
             /\ revisions[op.id].slug = op.slug
             /\ op.base = op.id \/ op.base = revisions[op.id].parent

\* A built revision continues the revision its server read, or starts a
\* publication nobody else has.
OpContinues ==
    \A a \in Actors : Holds(a) =>
        LET row == ops[a].row
            base == ops[a].base
        IN /\ ~Stored(ops[a].id)
           /\ \A b \in Actors : (Holds(b) /\ ops[b].id = ops[a].id) => b = a
           /\ base # None =>
                /\ Stored(base)
                /\ row.publication = revisions[base].publication
                /\ row.slug = revisions[base].slug
                /\ row.no = revisions[base].no + 1
           /\ base = None =>
                /\ \A r \in RevIds : Stored(r) => revisions[r].publication # row.publication
                /\ \A b \in Actors :
                     (Holds(b) /\ ops[b].row.publication = row.publication) => b = a

\* A head row repeats the revision it points at, and is public only if that
\* revision is approved.
HeadMatchesRevision ==
    \A s \in Slugs : pages[s] # None =>
        /\ pages[s].revision = None <=> pages[s].publication = None
        /\ pages[s].revision # None =>
             /\ Stored(pages[s].revision)
             /\ revisions[pages[s].revision].slug = s
             /\ revisions[pages[s].revision].publication = pages[s].publication
             /\ revisions[pages[s].revision].no = pages[s].no
             /\ Publishable(s, pages[s].status) => pages[s].revision \in approvals

\* Approvals are of stored revisions; a row born approved has its approval.
ApprovalsMatchRevisions ==
    /\ \A r \in approvals : Stored(r)
    /\ \A r \in RevIds : (Stored(r) /\ revisions[r].approvedAt) => r \in approvals

\* A revision comes after its parent in the same publication, and a
\* publication belongs to one slug.
ParentsPrecede ==
    /\ \A r \in RevIds : (Stored(r) /\ revisions[r].parent # None) =>
         /\ Stored(revisions[r].parent)
         /\ revisions[revisions[r].parent].publication = revisions[r].publication
         /\ revisions[revisions[r].parent].no < revisions[r].no
    /\ \A r, q \in RevIds :
         (Stored(r) /\ Stored(q) /\ revisions[r].publication = revisions[q].publication)
            => revisions[r].slug = revisions[q].slug

\* The head is the newest revision of its publication, but for one unapproved
\* revision right on top of it: the pending proposal.
HeadIsNewest ==
    \A s \in Slugs, r \in RevIds :
        (/\ HeadRevision(s) # None
         /\ Stored(r)
         /\ revisions[r].publication = pages[s].publication) =>
            \/ revisions[r].no <= pages[s].no
            \/ /\ revisions[r].parent = HeadRevision(s)
               /\ revisions[r].no = pages[s].no + 1
               /\ r \notin approvals

\* The inductive invariant: what holds between any two steps of the store.
IInv ==
    /\ TypeOK
    /\ OpShape
    /\ OpContinues
    /\ HeadMatchesRevision
    /\ ApprovalsMatchRevisions
    /\ ParentsPrecede
    /\ HistoryIsAChain
    /\ HeadIsNewest

=============================================================================
