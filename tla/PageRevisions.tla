---------------------------- MODULE PageRevisions ----------------------------
(***************************************************************************)
(* The page store of Atomic Elements: the mutable head of every page        *)
(* (table pages), the append-only revisions behind it (page_revisions) and  *)
(* the immutable approvals (page_revision_approvals), as several clients    *)
(* use them at once through sqlite-page-store.ts.                           *)
(*                                                                          *)
(* A write has three moments: the client opens the page and keeps its       *)
(* revision as the optimistic-lock token, the server loads the page, checks *)
(* the token and builds the revision (which awaits a SHA-256 digest), and   *)
(* a transaction checks the head again and writes.  Anything may happen     *)
(* between them.                                                            *)
(*                                                                          *)
(* Abstracted: page content and its hash, authors, timestamps (an approval  *)
(* is a member of a set) and evidence rows.  A layout is its status; a      *)
(* missing status counts as "published", which is how the code reads it.    *)
(***************************************************************************)
EXTENDS Naturals

CONSTANTS
    Slugs,              \* page slugs
    LegacyDraftSlugs,   \* the slugs that end in "-draft"
    Actors,             \* concurrent clients (editor, MCP agent, reviewer)
    RevIds,             \* the UUIDs a revision may get
    PubIds,             \* the UUIDs a publication may get
    ImportNos,          \* revision numbers an imported history may carry
    None                \* SQL NULL, a missing row, no value

ASSUME SlugsAssumption == LegacyDraftSlugs \subseteq Slugs
ASSUME ImportAssumption == ImportNos \subseteq Nat \ {0}
ASSUME NoneAssumption == None \notin RevIds \cup PubIds \cup Slugs

VARIABLES
    pages,      \* slug -> the current head row, or None
    revisions,  \* revision id -> its immutable row, or None
    approvals,  \* the revision ids that have an approval row
    ops         \* actor -> the request it has in flight

vars == <<pages, revisions, approvals, ops>>

-----------------------------------------------------------------------------

Statuses == {"draft", "published", "private"}

\* publicationExclusionReason: the fail-closed publication policy.
Publishable(slug, status) == slug \notin LegacyDraftSlugs /\ status = "published"

\* A row of pages.  A legacy row has no revision and no publication yet.
HeadRows == [publication : PubIds \cup {None}, revision : RevIds \cup {None},
             no : Nat, status : Statuses]

LegacyRow(status) ==
    [publication |-> None, revision |-> None, no |-> 0, status |-> status]

\* A row of page_revisions; approvedAt says whether its approved_at is set.
RevisionRows == [publication : PubIds, slug : Slugs, no : Nat \ {0},
                 parent : RevIds \cup {None}, status : Statuses,
                 approvedAt : BOOLEAN]

ASSUME RowsAssumption == None \notin HeadRows \cup RevisionRows

\* What a request holds between its steps: the revision its client saw, the
\* head its server read, the revision it is about and the row it built.
Request(kind, slug, seen, base, id, row) ==
    [kind |-> kind, slug |-> slug, seen |-> seen, base |-> base, id |-> id, row |-> row]

Idle == Request("idle", None, None, None, None, None)

Kinds == {"idle", "editing", "saving", "proposing", "approving", "adopting"}

Ops == [kind : Kinds, slug : Slugs \cup {None}, seen : RevIds \cup {None},
        base : RevIds \cup {None}, id : RevIds \cup {None},
        row : RevisionRows \cup {None}]

Stored(r) == revisions[r] # None

\* latest?.revision_id ?? null
HeadRevision(s) == IF pages[s] = None THEN None ELSE pages[s].revision

\* load() adopts a legacy row before it returns the page.
Loaded(s) == pages[s] # None => pages[s].revision # None

\* crypto.randomUUID never returns an identity that is stored or in flight.
FreshRevision(r) == ~Stored(r) /\ \A a \in Actors : ops[a].id # r

FreshPublication(p) ==
    /\ \A r \in RevIds : Stored(r) => revisions[r].publication # p
    /\ \A a \in Actors : ops[a].row # None => ops[a].row.publication # p

\* Mutant of NumberTaken: the UNIQUE constraint is lost in a schema change.
NumberTakenUnchecked(row) == FALSE

\* UNIQUE (publication_id, revision_no) of page_revisions.
NumberTaken(row) ==
    \E r \in RevIds : /\ Stored(r)
                      /\ revisions[r].publication = row.publication
                      /\ revisions[r].no = row.no

\* The proposal query: an unapproved revision on top of base.
HasPendingChild(publication, base) ==
    \E r \in RevIds : /\ Stored(r)
                      /\ revisions[r].publication = publication
                      /\ revisions[r].parent = base
                      /\ ~revisions[r].approvedAt

\* The first revision of a publication, or the one that adopts a legacy row.
FirstRevision(s, p, status) ==
    [publication |-> p, slug |-> s, no |-> 1, parent |-> None,
     status |-> status, approvedAt |-> Publishable(s, status)]

\* buildPageRevision: a new page gets publication p, an old one keeps its own.
BuildPageRevision(s, p, status) ==
    IF pages[s] = None
    THEN FirstRevision(s, p, status)
    ELSE [publication |-> pages[s].publication, slug |-> s, no |-> pages[s].no + 1,
          parent |-> pages[s].revision, status |-> status,
          approvedAt |-> Publishable(s, status)]

\* The head row that shows revision r, whose row is given, with a status.
HeadFor(r, row, status) ==
    [publication |-> row.publication, revision |-> r, no |-> row.no, status |-> status]

-----------------------------------------------------------------------------

Init ==
    /\ pages \in [Slugs -> {None} \cup {LegacyRow(status) : status \in Statuses}]
    /\ revisions = [r \in RevIds |-> None]
    /\ approvals = {}
    /\ ops = [a \in Actors |-> Idle]

\* The client reads page s (or finds it missing) and keeps its ETag.
OpenPage(a, s) ==
    /\ ops[a] = Idle
    /\ Loaded(s)
    /\ ops' = [ops EXCEPT ![a] =
         Request("editing", s, HeadRevision(s), None, None, None)]
    /\ UNCHANGED <<pages, revisions, approvals>>

\* ensureLegacyRevision up to its transaction: identities and hash.
BeginAdopt(a, s) ==
    /\ ops[a] = Idle
    /\ ~Loaded(s)
    /\ \E r \in RevIds, p \in PubIds :
         /\ FreshRevision(r)
         /\ FreshPublication(p)
         /\ ops' = [ops EXCEPT ![a] =
              Request("adopting", s, None, None, r, FirstRevision(s, p, pages[s].status))]
    /\ UNCHANGED <<pages, revisions, approvals>>

\* Its transaction, which does nothing if somebody adopted or removed the page.
CommitAdopt(a) ==
    LET op == ops[a] IN
    /\ op.kind = "adopting"
    /\ ops' = [ops EXCEPT ![a] = Idle]
    /\ IF Loaded(op.slug)
       THEN UNCHANGED <<pages, revisions, approvals>>
       ELSE /\ ~NumberTaken(op.row)
            /\ revisions' = [revisions EXCEPT ![op.id] = op.row]
            /\ approvals' = IF op.row.approvedAt THEN approvals \cup {op.id} ELSE approvals
            /\ pages' = [pages EXCEPT ![op.slug] = HeadFor(op.id, op.row, op.row.status)]

\* Mutant of BeginSave: assertExpectedRevision is not called.
BeginSaveUnconditional(a, status) ==
    LET s == ops[a].slug IN
    /\ ops[a].kind = "editing"
    /\ Loaded(s)
    /\ \E r \in RevIds, p \in PubIds :
         /\ FreshRevision(r)
         /\ pages[s] = None => FreshPublication(p)
         /\ ops' = [ops EXCEPT ![a] =
              Request("saving", s, ops[a].seen, HeadRevision(s), r,
                      BuildPageRevision(s, p, status))]
    /\ UNCHANGED <<pages, revisions, approvals>>

\* save() up to its transaction: load, assertExpectedRevision, buildPageRevision.
BeginSave(a, status) ==
    LET s == ops[a].slug IN
    /\ ops[a].kind = "editing"
    /\ Loaded(s)
    /\ HeadRevision(s) = ops[a].seen
    /\ \E r \in RevIds, p \in PubIds :
         /\ FreshRevision(r)
         /\ pages[s] = None => FreshPublication(p)
         /\ ops' = [ops EXCEPT ![a] =
              Request("saving", s, ops[a].seen, HeadRevision(s), r,
                      BuildPageRevision(s, p, status))]
    /\ UNCHANGED <<pages, revisions, approvals>>

\* The transaction of save() goes through: the head is still the one read and
\* the revision number is free.
CanSave(op) == HeadRevision(op.slug) = op.base /\ ~NumberTaken(op.row)

\* Mutant of CommitSave: a published save forgets its approval row.
CommitSaveUnapproved(a) ==
    LET op == ops[a] IN
    /\ op.kind = "saving"
    /\ CanSave(op)
    /\ revisions' = [revisions EXCEPT ![op.id] = op.row]
    /\ pages' = [pages EXCEPT ![op.slug] = HeadFor(op.id, op.row, op.row.status)]
    /\ ops' = [ops EXCEPT ![a] = Idle]
    /\ UNCHANGED approvals

CommitSave(a) ==
    LET op == ops[a] IN
    /\ op.kind = "saving"
    /\ CanSave(op)
    /\ revisions' = [revisions EXCEPT ![op.id] = op.row]
    /\ pages' = [pages EXCEPT ![op.slug] = HeadFor(op.id, op.row, op.row.status)]
    /\ approvals' = IF op.row.approvedAt THEN approvals \cup {op.id} ELSE approvals
    /\ ops' = [ops EXCEPT ![a] = Idle]

\* It is rolled back: revision_conflict, or the UNIQUE constraint.
RefuseSave(a) ==
    /\ ops[a].kind = "saving"
    /\ ~CanSave(ops[a])
    /\ ops' = [ops EXCEPT ![a] = Idle]
    /\ UNCHANGED <<pages, revisions, approvals>>

\* saveProposal() up to its transaction.  The base must be public.
BeginPropose(a) ==
    LET s == ops[a].slug IN
    /\ ops[a].kind = "editing"
    /\ pages[s] # None
    /\ Loaded(s)
    /\ Publishable(s, pages[s].status)
    /\ HeadRevision(s) = ops[a].seen
    /\ ~HasPendingChild(pages[s].publication, HeadRevision(s))
    /\ \E r \in RevIds :
         /\ FreshRevision(r)
         /\ ops' = [ops EXCEPT ![a] =
              Request("proposing", s, ops[a].seen, HeadRevision(s), r,
                      BuildPageRevision(s, None, "draft"))]
    /\ UNCHANGED <<pages, revisions, approvals>>

CanPropose(op) ==
    /\ HeadRevision(op.slug) = op.base
    /\ ~HasPendingChild(op.row.publication, op.base)
    /\ ~NumberTaken(op.row)

\* The proposal becomes a revision; the head does not move.
CommitPropose(a) ==
    LET op == ops[a] IN
    /\ op.kind = "proposing"
    /\ CanPropose(op)
    /\ revisions' = [revisions EXCEPT ![op.id] = op.row]
    /\ ops' = [ops EXCEPT ![a] = Idle]
    /\ UNCHANGED <<pages, approvals>>

RefusePropose(a) ==
    /\ ops[a].kind = "proposing"
    /\ ~CanPropose(ops[a])
    /\ ops' = [ops EXCEPT ![a] = Idle]
    /\ UNCHANGED <<pages, revisions, approvals>>

\* approveRevision() up to its transaction, of the exact revision r of page s:
\* the current draft, or a revision on top of the current head.
BeginApprove(a, s, r) ==
    /\ ops[a] = Idle
    /\ Stored(r)
    /\ revisions[r].slug = s
    /\ r \notin approvals
    /\ revisions[r].status = "draft"
    /\ pages[s] # None
    /\ Loaded(s)
    /\ \/ HeadRevision(s) = r
       \/ HeadRevision(s) = revisions[r].parent
    /\ ops' = [ops EXCEPT ![a] =
         Request("approving", s, None, HeadRevision(s), r, None)]
    /\ UNCHANGED <<pages, revisions, approvals>>

\* Mutant of CanApprove: the transaction does not look at the head again.
CanApproveLate(op) == op.id \notin approvals

CanApprove(op) == HeadRevision(op.slug) = op.base /\ op.id \notin approvals

CommitApprove(a) ==
    LET op == ops[a] IN
    /\ op.kind = "approving"
    /\ CanApprove(op)
    /\ approvals' = approvals \cup {op.id}
    /\ pages' = [pages EXCEPT ![op.slug] =
                   HeadFor(op.id, revisions[op.id], "published")]
    /\ ops' = [ops EXCEPT ![a] = Idle]
    /\ UNCHANGED revisions

RefuseApprove(a) ==
    /\ ops[a].kind = "approving"
    /\ ~CanApprove(ops[a])
    /\ ops' = [ops EXCEPT ![a] = Idle]
    /\ UNCHANGED <<pages, revisions, approvals>>

\* The client gives up, the token is refused at the load, or the process stops
\* before the transaction.
Abandon(a) ==
    /\ ops[a] # Idle
    /\ ops' = [ops EXCEPT ![a] = Idle]
    /\ UNCHANGED <<pages, revisions, approvals>>

\* DELETE /admin/pages/:slug takes no precondition; revisions stay.
Remove(s) ==
    /\ pages[s] # None
    /\ pages' = [pages EXCEPT ![s] = None]
    /\ UNCHANGED <<revisions, approvals, ops>>

\* validatePortablePublicRevisionHistory: numbers strictly ordered, each
\* revision points at the one before it.
IsHistory(R, no, parent, latest) ==
    /\ latest \in R
    /\ \A r, q \in R : no[r] = no[q] => r = q
    /\ \A r \in R : no[r] <= no[latest]
    /\ \A r \in R :
         \/ /\ parent[r] = None
            /\ \A q \in R : no[r] <= no[q]
         \/ /\ parent[r] \in R
            /\ no[parent[r]] < no[r]
            /\ \A q \in R : no[q] < no[r] => no[q] <= no[parent[r]]

\* importPublicRevisionHistory: the public history R of a publication this
\* database has never seen, for a slug that has no page.
Import(s) ==
    /\ pages[s] = None
    /\ s \notin LegacyDraftSlugs
    /\ \E p \in PubIds, R \in SUBSET {r \in RevIds : FreshRevision(r)} :
         /\ FreshPublication(p)
         /\ \E no \in [R -> ImportNos], parent \in [R -> R \cup {None}], latest \in R :
              LET row(r) == [publication |-> p, slug |-> s, no |-> no[r],
                             parent |-> parent[r], status |-> "published",
                             approvedAt |-> TRUE]
              IN /\ IsHistory(R, no, parent, latest)
                 /\ revisions' = [r \in RevIds |-> IF r \in R THEN row(r) ELSE revisions[r]]
                 /\ pages' = [pages EXCEPT ![s] = HeadFor(latest, row(latest), "published")]
         /\ approvals' = approvals \cup R
    /\ UNCHANGED ops

Next ==
    \/ \E a \in Actors :
         \/ \E s \in Slugs : OpenPage(a, s) \/ BeginAdopt(a, s)
         \/ \E s \in Slugs, r \in RevIds : BeginApprove(a, s, r)
         \/ \E status \in Statuses : BeginSave(a, status)
         \/ BeginPropose(a)
         \/ CommitAdopt(a) \/ CommitSave(a) \/ CommitPropose(a) \/ CommitApprove(a)
         \/ RefuseSave(a) \/ RefusePropose(a) \/ RefuseApprove(a)
         \/ Abandon(a)
    \/ \E s \in Slugs : Remove(s) \/ Import(s)

Spec == Init /\ [][Next]_vars

-----------------------------------------------------------------------------

\* Every variable holds a value of its table's shape.
TypeOK ==
    /\ pages \in [Slugs -> HeadRows \cup {None}]
    /\ revisions \in [RevIds -> RevisionRows \cup {None}]
    /\ approvals \in SUBSET RevIds
    /\ ops \in [Actors -> Ops]

\* A publication is one chain of revisions, never a tree: no two revisions have
\* the same parent, and only one has none.  Nothing in the code compares
\* children; it follows from the head checks and the UNIQUE constraint.
HistoryIsAChain ==
    \A r, q \in RevIds :
        (/\ Stored(r) /\ Stored(q)
         /\ revisions[r].publication = revisions[q].publication
         /\ revisions[r].parent = revisions[q].parent) => r = q

\* What a visitor sees was approved, and nothing newer of that publication was:
\* the public timeline of listPublicRevisions ends at the page itself.
PublicHeadIsLastApproved ==
    \A s \in Slugs :
        (pages[s] # None /\ pages[s].revision # None /\ Publishable(s, pages[s].status)) =>
            /\ pages[s].revision \in approvals
            /\ \A r \in approvals :
                 revisions[r].publication = pages[s].publication =>
                     revisions[r].no <= pages[s].no

\* Two live pages never share a publication, so approving or importing one
\* page never rewrites another's history.
PublicationsAreDisjoint ==
    \A s, t \in Slugs :
        (pages[s] # None /\ pages[t] # None /\ pages[s].publication # None
         /\ pages[s].publication = pages[t].publication) => s = t

\* No lost update: a save replaces exactly the revision its client had opened,
\* whatever other clients committed in between (If-Match / revision_conflict).
NoLostUpdate ==
    [][\A a \in Actors, s \in Slugs :
          (/\ ops[a].kind = "saving"
           /\ HeadRevision(s) # ops[a].id
           /\ HeadRevision(s)' = ops[a].id) =>
              /\ HeadRevision(s) = ops[a].seen
              /\ revisions'[ops[a].id].parent = ops[a].seen]_vars

\* While a page lives it stays in its publication and its head only moves to a
\* child of the head: no orphaned proposal of a removed page, and no revision
\* already left behind, ever comes back.
HeadOnlyMovesForward ==
    [][\A s \in Slugs :
          LET h == HeadRevision(s)
              k == HeadRevision(s)'
          IN (h # None /\ k # None /\ k # h) =>
                 /\ revisions'[k].parent = h
                 /\ pages[s]'.publication = pages[s].publication]_vars

\* While a proposal waits on the current head, only its own approval or the
\* removal of the page can move the head.
PendingProposalPinsHead ==
    [][\A s \in Slugs, r \in RevIds :
          (/\ Stored(r) /\ HeadRevision(s) # None
           /\ revisions[r].parent = HeadRevision(s)
           /\ HeadRevision(s)' # HeadRevision(s)) =>
              HeadRevision(s)' \in {r, None}]_vars

\* The revision of page s that visitors see, if any.
ShownRevision(s) ==
    IF HeadRevision(s) # None /\ Publishable(s, pages[s].status)
    THEN HeadRevision(s) ELSE None

\* The page that revision r was made public under, if the policy can show it.
HomePage(r) ==
    IF r \in approvals /\ revisions[r].slug \notin LegacyDraftSlugs
    THEN revisions[r].slug ELSE None

PP == INSTANCE PublicPages WITH shown <- [s \in Slugs |-> ShownRevision(s)],
                                home <- [r \in RevIds |-> HomePage(r)]

\* The store implements PublicPages: through all saves, proposals, approvals,
\* removals, adoptions and imports, what becomes public was never public before
\* and nothing that was withdrawn or replaced is shown again.
ImplementsPublicPages == PP!Shown

=============================================================================
