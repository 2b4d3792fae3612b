------------------------ MODULE PageRevisionsProofs --------------------------
(***************************************************************************)
(* Proofs of the safety properties of PageRevisions for every set of slugs, *)
(* clients and identities, and of what the page store and the publisher     *)
(* promise together (PublishedSite).                                        *)
(***************************************************************************)
EXTENDS PublishedSite, TLAPS

\* The part of the invariant that speaks of the tables alone.
StoreInv ==
    /\ HeadMatchesRevision
    /\ ApprovalsMatchRevisions
    /\ ParentsPrecede
    /\ HistoryIsAChain
    /\ HeadIsNewest

\* A step that only changes the requests keeps the tables' invariant.
LEMMA StoreKept ==
    ASSUME IInv, UNCHANGED <<pages, revisions, approvals>>
    PROVE  StoreInv'
<1>1. HeadMatchesRevision'
  BY DEF IInv, HeadMatchesRevision, Stored
<1>2. ApprovalsMatchRevisions'
  BY DEF IInv, ApprovalsMatchRevisions, Stored
<1>3. ParentsPrecede'
  BY DEF IInv, ParentsPrecede, Stored
<1>4. HistoryIsAChain'
  BY DEF IInv, HistoryIsAChain, Stored
<1>5. HeadIsNewest'
  BY DEF IInv, HeadIsNewest, HeadRevision, Stored
<1> QED
  BY <1>1, <1>2, <1>3, <1>4, <1>5 DEF StoreInv

\* The idle request is well formed.
LEMMA IdleType ==
    /\ Idle \in Ops
    /\ Idle.kind = "idle"
    /\ Idle.id = None
    /\ Idle.row = None
BY DEF Idle, Request, Ops, Kinds

\* A request that ends without a trace keeps the invariant.
LEMMA DropKeeps ==
    ASSUME IInv, NEW a \in Actors, ops' = [ops EXCEPT ![a] = Idle],
           UNCHANGED <<pages, revisions, approvals>>
    PROVE  IInv'
<1>1. TypeOK'
  BY IdleType DEF IInv, TypeOK
<1>2. \A b \in Actors : ops'[b] = IF b = a THEN Idle ELSE ops[b]
  BY DEF IInv, TypeOK
<1>3. OpShape'
  BY <1>2, IdleType DEF IInv, OpShape, Holds, Stored
<1>4. OpContinues'
  BY <1>2, IdleType DEF IInv, OpContinues, Holds, Stored
<1> QED
  BY <1>1, <1>3, <1>4, StoreKept DEF IInv, StoreInv

\* A request without a built revision may start at any time.
LEMMA StartKeeps ==
    ASSUME IInv, NEW a \in Actors, NEW op \in Ops, ops' = [ops EXCEPT ![a] = op],
           UNCHANGED <<pages, revisions, approvals>>,
           op.slug \in Slugs, op.row = None,
           \/ op.kind = "editing" /\ op.id = None
           \/ /\ op.kind = "approving" /\ op.id \in RevIds /\ op.base \in RevIds
              /\ Stored(op.id) /\ revisions[op.id].slug = op.slug
              /\ op.base = op.id \/ op.base = revisions[op.id].parent
    PROVE  IInv'
<1>1. TypeOK'
  BY DEF IInv, TypeOK
<1>2. \A b \in Actors : ops'[b] = IF b = a THEN op ELSE ops[b]
  BY DEF IInv, TypeOK
<1>3. OpShape'
  BY <1>2 DEF IInv, OpShape, Holds, Stored
<1>4. OpContinues'
  BY <1>2 DEF IInv, OpContinues, Holds, Stored
<1> QED
  BY <1>1, <1>3, <1>4, StoreKept DEF IInv, StoreInv

LEMMA OpenPageKeeps ==
    ASSUME IInv, NEW a \in Actors, NEW s \in Slugs, OpenPage(a, s)
    PROVE  IInv'
<1> DEFINE op == Request("editing", s, HeadRevision(s), None, None, None)
<1>1. HeadRevision(s) \in RevIds \cup {None}
  BY DEF IInv, TypeOK, HeadRevision, HeadRows
<1>2. op \in Ops
  BY <1>1 DEF Ops, Request, Kinds
<1>3. op.slug \in Slugs /\ op.row = None /\ op.kind = "editing" /\ op.id = None
  BY DEF Request
<1>4. ops' = [ops EXCEPT ![a] = op] /\ UNCHANGED <<pages, revisions, approvals>>
  BY DEF OpenPage
<1> QED
  BY <1>2, <1>3, <1>4, StartKeeps

LEMMA BeginApproveKeeps ==
    ASSUME IInv, NEW a \in Actors, NEW s \in Slugs, NEW r \in RevIds, BeginApprove(a, s, r)
    PROVE  IInv'
<1> DEFINE op == Request("approving", s, None, HeadRevision(s), r, None)
<1>1. HeadRevision(s) \in RevIds
  BY DEF IInv, TypeOK, HeadRevision, HeadRows, BeginApprove, Loaded
<1>2. op \in Ops
  BY <1>1 DEF Ops, Request, Kinds
<1>3. /\ op.slug \in Slugs /\ op.row = None /\ op.kind = "approving" /\ op.id \in RevIds
      /\ op.base \in RevIds /\ Stored(op.id) /\ revisions[op.id].slug = op.slug
      /\ op.base = op.id \/ op.base = revisions[op.id].parent
  BY <1>1 DEF Request, BeginApprove
<1>4. ops' = [ops EXCEPT ![a] = op] /\ UNCHANGED <<pages, revisions, approvals>>
  BY DEF BeginApprove
<1> QED
  BY <1>2, <1>3, <1>4, StartKeeps

\* A request may take a fresh revision that continues the head it read, or
\* starts a fresh publication.
LEMMA BuildKeeps ==
    ASSUME IInv, NEW a \in Actors, NEW op \in Ops, ops' = [ops EXCEPT ![a] = op],
           UNCHANGED <<pages, revisions, approvals>>,
           op.kind \in {"saving", "proposing", "adopting"},
           op.slug \in Slugs, op.id \in RevIds, FreshRevision(op.id),
           op.row \in RevisionRows, op.row.slug = op.slug, op.row.parent = op.base,
           op.row.approvedAt = Publishable(op.slug, op.row.status),
           op.kind = "saving" => op.seen = op.base,
           op.kind = "proposing" => op.base # None /\ op.row.status = "draft",
           op.kind = "adopting" => op.base = None,
           op.base # None =>
             /\ Stored(op.base)
             /\ op.row.publication = revisions[op.base].publication
             /\ op.row.slug = revisions[op.base].slug
             /\ op.row.no = revisions[op.base].no + 1,
           op.base = None => FreshPublication(op.row.publication)
    PROVE  IInv'
<1>1. TypeOK'
  BY DEF IInv, TypeOK
<1>2. \A b \in Actors : ops'[b] = IF b = a THEN op ELSE ops[b]
  BY DEF IInv, TypeOK
<1>3. OpShape'
  BY <1>2 DEF IInv, OpShape, Holds, Stored
<1>4. OpContinues'
  <2> SUFFICES ASSUME NEW b \in Actors, Holds(b)'
               PROVE  /\ ~Stored(ops'[b].id)
                      /\ \A c \in Actors : (Holds(c)' /\ ops'[c].id = ops'[b].id) => c = b
                      /\ ops'[b].base # None =>
                           /\ Stored(ops'[b].base)
                           /\ ops'[b].row.publication = revisions[ops'[b].base].publication
                           /\ ops'[b].row.slug = revisions[ops'[b].base].slug
                           /\ ops'[b].row.no = revisions[ops'[b].base].no + 1
                      /\ ops'[b].base = None =>
                           /\ \A r \in RevIds : Stored(r) => revisions[r].publication # ops'[b].row.publication
                           /\ \A c \in Actors :
                                (Holds(c)' /\ ops'[c].row.publication = ops'[b].row.publication) => c = b
    BY DEF OpContinues, Stored
  <2>1. \A c \in Actors : c # a => (Holds(c)' <=> Holds(c)) /\ ops'[c] = ops[c]
    BY <1>2 DEF Holds
  <2>2. \A c \in Actors : Holds(c) => ops[c].row # None /\ ops[c].row \in RevisionRows
    BY RowsAssumption DEF IInv, OpShape
  <2>3. CASE b = a
    <3>1. \A c \in Actors : (Holds(c)' /\ ops'[c].id = op.id) => c = a
      BY <2>1 DEF FreshRevision
    <3>2. op.base = None =>
            /\ \A r \in RevIds : Stored(r) => revisions[r].publication # op.row.publication
            /\ \A c \in Actors : (Holds(c)' /\ ops'[c].row.publication = op.row.publication) => c = a
      BY <2>1, <2>2 DEF FreshPublication
    <3> QED
      BY <1>2, <2>3, <3>1, <3>2 DEF FreshRevision
  <2>4. CASE b # a
    <3>1. \A c \in Actors : (Holds(c)' /\ ops'[c].id = ops[b].id) => c = b
      BY <1>2, <2>1, <2>4 DEF FreshRevision, IInv, OpContinues
    <3>2. op.base # None => (ops[b].base = None => ops[b].row.publication # op.row.publication)
      BY <2>1, <2>4 DEF IInv, OpContinues, TypeOK, Ops
    <3>3. op.base = None => ops[b].row.publication # op.row.publication
      BY <2>1, <2>2, <2>4 DEF FreshPublication
    <3> QED
      BY <1>2, <2>1, <2>4, <3>1, <3>2, <3>3 DEF IInv, OpContinues
  <2> QED
    BY <2>3, <2>4
<1> QED
  BY <1>1, <1>3, <1>4, StoreKept DEF IInv, StoreInv

LEMMA BeginAdoptKeeps ==
    ASSUME IInv, NEW a \in Actors, NEW s \in Slugs, BeginAdopt(a, s)
    PROVE  IInv'
<1>1. PICK r \in RevIds, p \in PubIds :
        /\ FreshRevision(r)
        /\ FreshPublication(p)
        /\ ops' = [ops EXCEPT ![a] =
             Request("adopting", s, None, None, r, FirstRevision(s, p, pages[s].status))]
  BY DEF BeginAdopt
<1> DEFINE row == FirstRevision(s, p, pages[s].status)
           op == Request("adopting", s, None, None, r, row)
<1>2. pages[s].status \in Statuses
  BY DEF IInv, TypeOK, HeadRows, BeginAdopt, Loaded
<1>3. row \in RevisionRows
  BY <1>2 DEF FirstRevision, RevisionRows, Publishable
<1>4. /\ row.slug = s /\ row.parent = None /\ row.publication = p
      /\ row.approvedAt = Publishable(s, row.status)
  BY DEF FirstRevision
<1>5. op \in Ops
  BY <1>3 DEF Ops, Request, Kinds
<1>6. /\ op.kind = "adopting" /\ op.slug = s /\ op.id = r /\ op.row = row
      /\ op.base = None
  BY DEF Request
<1>7. ops' = [ops EXCEPT ![a] = op] /\ UNCHANGED <<pages, revisions, approvals>>
  BY <1>1 DEF BeginAdopt
<1> HIDE DEF row, op
<1>8. /\ op.kind \in {"saving", "proposing", "adopting"}
      /\ op.slug \in Slugs /\ op.id \in RevIds /\ FreshRevision(op.id)
      /\ op.row \in RevisionRows /\ op.row.slug = op.slug /\ op.row.parent = op.base
      /\ op.row.approvedAt = Publishable(op.slug, op.row.status)
      /\ op.kind = "saving" => op.seen = op.base
      /\ op.kind = "proposing" => op.base # None /\ op.row.status = "draft"
      /\ op.kind = "adopting" => op.base = None
      /\ op.base # None =>
           /\ Stored(op.base)
           /\ op.row.publication = revisions[op.base].publication
           /\ op.row.slug = revisions[op.base].slug
           /\ op.row.no = revisions[op.base].no + 1
      /\ op.base = None => FreshPublication(op.row.publication)
  BY <1>1, <1>3, <1>4, <1>6
<1> QED
  BY <1>5, <1>7, <1>8, BuildKeeps

\* The revision built on a loaded page is well formed and continues its head.
LEMMA BuildPageRevisionType ==
    ASSUME IInv, NEW s \in Slugs, Loaded(s), NEW p, pages[s] = None => p \in PubIds,
           NEW status \in Statuses
    PROVE  LET row == BuildPageRevision(s, p, status)
               base == HeadRevision(s)
           IN /\ row \in RevisionRows
              /\ row.slug = s
              /\ row.parent = base
              /\ row.status = status
              /\ row.approvedAt = Publishable(s, status)
              /\ base \in RevIds \cup {None}
              /\ base = None => pages[s] = None /\ row.publication = p
              /\ base # None =>
                   /\ Stored(base)
                   /\ row.publication = revisions[base].publication
                   /\ row.slug = revisions[base].slug
                   /\ row.no = revisions[base].no + 1
<1>1. CASE pages[s] = None
  BY <1>1 DEF BuildPageRevision, FirstRevision, HeadRevision, RevisionRows, Publishable
<1>2. CASE pages[s] # None
  <2>1. pages[s] \in HeadRows /\ pages[s].revision \in RevIds
    BY <1>2 DEF IInv, TypeOK, Loaded, HeadRows
  <2>2. /\ pages[s].publication \in PubIds
        /\ Stored(pages[s].revision)
        /\ revisions[pages[s].revision].slug = s
        /\ revisions[pages[s].revision].publication = pages[s].publication
        /\ revisions[pages[s].revision].no = pages[s].no
    BY <1>2, <2>1, NoneAssumption DEF IInv, HeadMatchesRevision, HeadRows
  <2> QED
    BY <1>2, <2>1, <2>2, NoneAssumption
    DEF BuildPageRevision, HeadRevision, RevisionRows, HeadRows, Publishable
<1> QED
  BY <1>1, <1>2

LEMMA BeginSaveKeeps ==
    ASSUME IInv, NEW a \in Actors, NEW status \in Statuses, BeginSave(a, status)
    PROVE  IInv'
<1> DEFINE s == ops[a].slug
<1>1. PICK r \in RevIds, p \in PubIds :
        /\ FreshRevision(r)
        /\ pages[s] = None => FreshPublication(p)
        /\ ops' = [ops EXCEPT ![a] =
             Request("saving", s, ops[a].seen, HeadRevision(s), r,
                     BuildPageRevision(s, p, status))]
  BY DEF BeginSave
<1> DEFINE row == BuildPageRevision(s, p, status)
           op == Request("saving", s, ops[a].seen, HeadRevision(s), r, row)
<1>2. s \in Slugs /\ Loaded(s) /\ HeadRevision(s) = ops[a].seen
  BY DEF IInv, OpShape, BeginSave
<1> HIDE DEF s
<1>3. /\ row \in RevisionRows /\ row.slug = s /\ row.parent = HeadRevision(s)
      /\ row.status = status /\ row.approvedAt = Publishable(s, status)
      /\ HeadRevision(s) \in RevIds \cup {None}
      /\ HeadRevision(s) = None => pages[s] = None /\ row.publication = p
      /\ HeadRevision(s) # None =>
           /\ Stored(HeadRevision(s))
           /\ row.publication = revisions[HeadRevision(s)].publication
           /\ row.slug = revisions[HeadRevision(s)].slug
           /\ row.no = revisions[HeadRevision(s)].no + 1
  BY <1>2, BuildPageRevisionType
<1> HIDE DEF row
<1>4. op \in Ops
  BY <1>2, <1>3 DEF Ops, Request, Kinds
<1>5. /\ op.kind = "saving" /\ op.slug = s /\ op.id = r /\ op.row = row
      /\ op.seen = ops[a].seen /\ op.base = HeadRevision(s)
  BY DEF Request
<1>6. ops' = [ops EXCEPT ![a] = op] /\ UNCHANGED <<pages, revisions, approvals>>
  BY <1>1 DEF BeginSave, row
<1> HIDE DEF op
<1>7. /\ op.kind \in {"saving", "proposing", "adopting"}
      /\ op.slug \in Slugs /\ op.id \in RevIds /\ FreshRevision(op.id)
      /\ op.row \in RevisionRows /\ op.row.slug = op.slug /\ op.row.parent = op.base
      /\ op.row.approvedAt = Publishable(op.slug, op.row.status)
      /\ op.kind = "saving" => op.seen = op.base
      /\ op.kind = "proposing" => op.base # None /\ op.row.status = "draft"
      /\ op.kind = "adopting" => op.base = None
      /\ op.base # None =>
           /\ Stored(op.base)
           /\ op.row.publication = revisions[op.base].publication
           /\ op.row.slug = revisions[op.base].slug
           /\ op.row.no = revisions[op.base].no + 1
      /\ op.base = None => FreshPublication(op.row.publication)
  BY <1>1, <1>2, <1>3, <1>5
<1> QED
  BY <1>4, <1>6, <1>7, BuildKeeps

LEMMA BeginProposeKeeps ==
    ASSUME IInv, NEW a \in Actors, BeginPropose(a)
    PROVE  IInv'
<1> DEFINE s == ops[a].slug
<1>1. PICK r \in RevIds :
        /\ FreshRevision(r)
        /\ ops' = [ops EXCEPT ![a] =
             Request("proposing", s, ops[a].seen, HeadRevision(s), r,
                     BuildPageRevision(s, None, "draft"))]
  BY DEF BeginPropose
<1> DEFINE row == BuildPageRevision(s, None, "draft")
           op == Request("proposing", s, ops[a].seen, HeadRevision(s), r, row)
<1>2. s \in Slugs /\ pages[s] # None /\ Loaded(s) /\ HeadRevision(s) = ops[a].seen
  BY DEF IInv, OpShape, BeginPropose
<1> HIDE DEF s
<1>3. /\ row \in RevisionRows /\ row.slug = s /\ row.parent = HeadRevision(s)
      /\ row.status = "draft" /\ row.approvedAt = Publishable(s, "draft")
      /\ HeadRevision(s) \in RevIds \cup {None}
      /\ HeadRevision(s) # None
      /\ Stored(HeadRevision(s))
      /\ row.publication = revisions[HeadRevision(s)].publication
      /\ row.slug = revisions[HeadRevision(s)].slug
      /\ row.no = revisions[HeadRevision(s)].no + 1
  <2>1. "draft" \in Statuses /\ (pages[s] = None => None \in PubIds)
    BY <1>2 DEF Statuses
  <2>2. /\ row \in RevisionRows /\ row.slug = s /\ row.parent = HeadRevision(s)
        /\ row.status = "draft" /\ row.approvedAt = Publishable(s, "draft")
        /\ HeadRevision(s) \in RevIds \cup {None}
        /\ HeadRevision(s) = None => pages[s] = None
        /\ HeadRevision(s) # None =>
             /\ Stored(HeadRevision(s))
             /\ row.publication = revisions[HeadRevision(s)].publication
             /\ row.slug = revisions[HeadRevision(s)].slug
             /\ row.no = revisions[HeadRevision(s)].no + 1
    BY <1>2, <2>1, BuildPageRevisionType
  <2> QED
    BY <1>2, <2>2
<1> HIDE DEF row
<1>4. op \in Ops
  BY <1>2, <1>3 DEF Ops, Request, Kinds
<1>5. /\ op.kind = "proposing" /\ op.slug = s /\ op.id = r /\ op.row = row
      /\ op.seen = ops[a].seen /\ op.base = HeadRevision(s)
  BY DEF Request
<1>6. ops' = [ops EXCEPT ![a] = op] /\ UNCHANGED <<pages, revisions, approvals>>
  BY <1>1 DEF BeginPropose, row
<1> HIDE DEF op
<1>7. /\ op.kind \in {"saving", "proposing", "adopting"}
      /\ op.slug \in Slugs /\ op.id \in RevIds /\ FreshRevision(op.id)
      /\ op.row \in RevisionRows /\ op.row.slug = op.slug /\ op.row.parent = op.base
      /\ op.row.approvedAt = Publishable(op.slug, op.row.status)
      /\ op.kind = "saving" => op.seen = op.base
      /\ op.kind = "proposing" => op.base # None /\ op.row.status = "draft"
      /\ op.kind = "adopting" => op.base = None
      /\ op.base # None =>
           /\ Stored(op.base)
           /\ op.row.publication = revisions[op.base].publication
           /\ op.row.slug = revisions[op.base].slug
           /\ op.row.no = revisions[op.base].no + 1
      /\ op.base = None => FreshPublication(op.row.publication)
  BY <1>1, <1>2, <1>3, <1>5
<1> QED
  BY <1>4, <1>6, <1>7, BuildKeeps

\* The facts about a request that holds a built revision, in one place.
LEMMA HeldFacts ==
    ASSUME IInv, NEW a \in Actors, Holds(a)
    PROVE  /\ ops[a].slug \in Slugs
           /\ ops[a].id \in RevIds
           /\ ~Stored(ops[a].id)
           /\ ops[a].row \in RevisionRows
           /\ ops[a].row # None
           /\ ops[a].row.slug = ops[a].slug
           /\ ops[a].row.parent = ops[a].base
           /\ ops[a].row.approvedAt = Publishable(ops[a].slug, ops[a].row.status)
           /\ ops[a].base \in RevIds \cup {None}
           /\ ops[a].base # None =>
                /\ Stored(ops[a].base)
                /\ ops[a].row.publication = revisions[ops[a].base].publication
                /\ ops[a].row.slug = revisions[ops[a].base].slug
                /\ ops[a].row.no = revisions[ops[a].base].no + 1
           /\ ops[a].base = None =>
                \A r \in RevIds : Stored(r) => revisions[r].publication # ops[a].row.publication
<1>1. ops[a].kind # "idle"
  BY DEF Holds
<1>2. ops[a].base \in RevIds \cup {None}
  BY DEF IInv, TypeOK, Ops
<1> QED
  BY <1>1, <1>2, RowsAssumption DEF IInv, OpShape, OpContinues

\* Inserting the built revision keeps the requests and the order of revisions.
LEMMA InsertKeeps ==
    ASSUME IInv, NEW a \in Actors, Holds(a),
           revisions' = [revisions EXCEPT ![ops[a].id] = ops[a].row],
           ops' = [ops EXCEPT ![a] = Idle]
    PROVE  /\ revisions' \in [RevIds -> RevisionRows \cup {None}]
           /\ ops' \in [Actors -> Ops]
           /\ \A r \in RevIds : revisions'[r] = IF r = ops[a].id THEN ops[a].row ELSE revisions[r]
           /\ \A r \in RevIds : Stored(r)' <=> (Stored(r) \/ r = ops[a].id)
           /\ OpShape'
           /\ OpContinues'
           /\ ParentsPrecede'
<1> DEFINE id == ops[a].id
           row == ops[a].row
           base == ops[a].base
<1>1. /\ id \in RevIds /\ ~Stored(id) /\ row \in RevisionRows /\ row # None
      /\ row.parent = base /\ base \in RevIds \cup {None}
      /\ base # None => /\ Stored(base)
                        /\ row.publication = revisions[base].publication
                        /\ row.slug = revisions[base].slug
                        /\ row.no = revisions[base].no + 1
      /\ base = None =>
           \A r \in RevIds : Stored(r) => revisions[r].publication # row.publication
  BY HeldFacts
<1>2. revisions' \in [RevIds -> RevisionRows \cup {None}] /\ ops' \in [Actors -> Ops]
  BY <1>1, IdleType DEF IInv, TypeOK
<1>3. \A r \in RevIds : revisions'[r] = IF r = id THEN row ELSE revisions[r]
  BY <1>1 DEF IInv, TypeOK
<1>4. \A r \in RevIds : Stored(r)' <=> (Stored(r) \/ r = id)
  BY <1>1, <1>3 DEF Stored
<1>5. \A b \in Actors : ops'[b] = IF b = a THEN Idle ELSE ops[b]
  BY DEF IInv, TypeOK
<1>6. OpShape'
  <2> SUFFICES ASSUME NEW b \in Actors
               PROVE  /\ ops'[b].kind \in {"idle", "editing"} => ops'[b].id = None /\ ops'[b].row = None
                      /\ ops'[b].kind # "idle" => ops'[b].slug \in Slugs
                      /\ Holds(b)' =>
                           /\ ops'[b].id \in RevIds
                           /\ ops'[b].row \in RevisionRows
                           /\ ops'[b].row.slug = ops'[b].slug
                           /\ ops'[b].row.parent = ops'[b].base
                           /\ ops'[b].row.approvedAt = Publishable(ops'[b].slug, ops'[b].row.status)
                      /\ ops'[b].kind = "saving" => ops'[b].seen = ops'[b].base
                      /\ ops'[b].kind = "proposing" => ops'[b].base # None /\ ops'[b].row.status = "draft"
                      /\ ops'[b].kind = "adopting" => ops'[b].base = None
                      /\ ops'[b].kind = "approving" =>
                           /\ ops'[b].row = None
                           /\ ops'[b].id \in RevIds
                           /\ ops'[b].base \in RevIds
                           /\ revisions'[ops'[b].id] # None
                           /\ revisions'[ops'[b].id].slug = ops'[b].slug
                           /\ ops'[b].base = ops'[b].id \/ ops'[b].base = revisions'[ops'[b].id].parent
    BY DEF OpShape, Publishable, Stored
  <2>1. CASE b = a
    BY <1>5, <2>1, IdleType DEF Holds
  <2>2. CASE b # a
    <3>1. ops'[b] = ops[b] /\ (Holds(b)' <=> Holds(b))
      BY <1>5, <2>2 DEF Holds
    <3>2. ops[b].kind = "approving" =>
             /\ revisions'[ops[b].id] # None
             /\ revisions'[ops[b].id] = revisions[ops[b].id]
      BY <1>1, <1>3 DEF IInv, OpShape, Stored
    <3>3. ops[b].kind # "idle" => ops[b].slug \in Slugs
      BY DEF IInv, OpShape
    <3> QED
      BY <3>1, <3>2, <3>3 DEF IInv, OpShape
  <2> QED
    BY <2>1, <2>2
<1>7. OpContinues'
  <2> SUFFICES ASSUME NEW b \in Actors, Holds(b)'
               PROVE  /\ revisions'[ops'[b].id] = None
                      /\ \A c \in Actors : (Holds(c)' /\ ops'[c].id = ops'[b].id) => c = b
                      /\ ops'[b].base # None =>
                           /\ revisions'[ops'[b].base] # None
                           /\ ops'[b].row.publication = revisions'[ops'[b].base].publication
                           /\ ops'[b].row.slug = revisions'[ops'[b].base].slug
                           /\ ops'[b].row.no = revisions'[ops'[b].base].no + 1
                      /\ ops'[b].base = None =>
                           /\ \A r \in RevIds : revisions'[r] # None => revisions'[r].publication # ops'[b].row.publication
                           /\ \A c \in Actors :
                                (Holds(c)' /\ ops'[c].row.publication = ops'[b].row.publication) => c = b
    BY DEF OpContinues, Stored
  <2>1. \A c \in Actors : Holds(c)' => c # a /\ Holds(c) /\ ops'[c] = ops[c]
    BY <1>5, IdleType DEF Holds
  <2>2. /\ b # a /\ Holds(b) /\ ops'[b] = ops[b]
        /\ ops[b].id \in RevIds /\ ~Stored(ops[b].id) /\ ops[b].base \in RevIds \cup {None}
    BY <2>1, HeldFacts
  <2>3. ops[b].id # id
    BY <2>2 DEF IInv, OpContinues
  <2>4. ops[b].base # None => ops[b].base # id /\ Stored(ops[b].base)
    BY <1>1, <2>2 DEF IInv, OpContinues
  <2>5. ops[b].base = None => row.publication # ops[b].row.publication
    BY <1>1, <2>2 DEF IInv, OpContinues
  <2>6. ops[b].base # None =>
           /\ revisions'[ops[b].base] # None
           /\ ops[b].row.publication = revisions'[ops[b].base].publication
           /\ ops[b].row.slug = revisions'[ops[b].base].slug
           /\ ops[b].row.no = revisions'[ops[b].base].no + 1
    BY <1>3, <2>2, <2>4 DEF IInv, OpContinues, Stored
  <2>7. ops[b].base = None =>
           \A r \in RevIds : revisions'[r] # None => revisions'[r].publication # ops[b].row.publication
    BY <1>3, <2>2, <2>5 DEF IInv, OpContinues, Stored
  <2>8. \A c \in Actors : (Holds(c)' /\ ops'[c].id = ops'[b].id) => c = b
    BY <2>1, <2>2 DEF IInv, OpContinues
  <2>9. ops[b].base = None =>
           \A c \in Actors :
              (Holds(c)' /\ ops'[c].row.publication = ops'[b].row.publication) => c = b
    BY <2>1, <2>2 DEF IInv, OpContinues
  <2> QED
    BY <1>3, <2>2, <2>3, <2>6, <2>7, <2>8, <2>9 DEF Stored
<1>8. ParentsPrecede'
  <2>1. ASSUME NEW r \in RevIds, Stored(r)', revisions'[r].parent # None
        PROVE  /\ revisions'[revisions'[r].parent] # None
               /\ revisions'[revisions'[r].parent].publication = revisions'[r].publication
               /\ revisions'[revisions'[r].parent].no < revisions'[r].no
    <3>1. CASE r = id
      <4>1. base # None /\ base # id /\ revisions'[r] = row
        BY <1>1, <1>3, <2>1, <3>1
      <4>2. base \in RevIds /\ revisions'[base] = revisions[base] /\ revisions[base].no \in Nat
        BY <1>1, <1>3, <4>1 DEF IInv, TypeOK, RevisionRows, Stored
      <4> QED
        BY <1>1, <4>1, <4>2 DEF Stored
    <3>2. CASE r # id
      <4>1. Stored(r) /\ revisions'[r] = revisions[r] /\ revisions[r].parent \in RevIds
        BY <1>3, <1>4, <2>1, <3>2 DEF IInv, TypeOK, RevisionRows, Stored
      <4>2. Stored(revisions[r].parent) /\ revisions[r].parent # id
        BY <1>1, <2>1, <4>1 DEF IInv, ParentsPrecede
      <4>3. revisions'[revisions[r].parent] = revisions[revisions[r].parent]
        BY <1>3, <4>1, <4>2
      <4> QED
        BY <2>1, <4>1, <4>2, <4>3 DEF IInv, ParentsPrecede, Stored
    <3> QED
      BY <3>1, <3>2
  <2>2. ASSUME NEW r \in RevIds, NEW q \in RevIds, Stored(r)', Stored(q)',
               revisions'[r].publication = revisions'[q].publication
        PROVE  revisions'[r].slug = revisions'[q].slug
    <3>1. \A x \in RevIds : (Stored(x) /\ revisions[x].publication = row.publication)
             => revisions[x].slug = row.slug
      BY <1>1 DEF IInv, ParentsPrecede
    <3> QED
      BY <1>3, <1>4, <2>2, <3>1 DEF IInv, ParentsPrecede
  <2> QED
    BY <2>1, <2>2 DEF ParentsPrecede, Stored
<1> QED
  BY <1>2, <1>3, <1>4, <1>6, <1>7, <1>8

\* The chain stays a chain when the base is the head, or there is none, and the
\* revision number is free: this is where the UNIQUE constraint is needed.
LEMMA ChainKeeps ==
    ASSUME IInv, NEW a \in Actors, Holds(a),
           revisions' = [revisions EXCEPT ![ops[a].id] = ops[a].row],
           ops' = [ops EXCEPT ![a] = Idle],
           ops[a].base # None => HeadRevision(ops[a].slug) = ops[a].base,
           ~NumberTaken(ops[a].row)
    PROVE  HistoryIsAChain'
<1> DEFINE id == ops[a].id
           row == ops[a].row
           base == ops[a].base
<1>1. \A r \in RevIds : /\ revisions'[r] = IF r = id THEN row ELSE revisions[r]
                        /\ Stored(r)' <=> (Stored(r) \/ r = id)
  BY InsertKeeps
<1>2. ASSUME NEW c \in RevIds, Stored(c), revisions[c].publication = row.publication,
             revisions[c].parent = base
      PROVE  FALSE
  <2>1. base # None
    BY <1>2, HeldFacts
  <2>2. /\ base \in RevIds /\ Stored(base) /\ ops[a].slug \in Slugs
        /\ row.publication = revisions[base].publication
        /\ row.no = revisions[base].no + 1
    BY <2>1, HeldFacts
  <2>3. /\ HeadRevision(ops[a].slug) = base /\ pages[ops[a].slug] # None
        /\ pages[ops[a].slug].revision = base
    BY <2>1 DEF HeadRevision
  <2>4. /\ pages[ops[a].slug].publication = row.publication
        /\ pages[ops[a].slug].no = revisions[base].no
    BY <2>1, <2>2, <2>3 DEF IInv, HeadMatchesRevision
  <2>5. /\ revisions[base].no < revisions[c].no
        /\ revisions[base].no \in Nat /\ revisions[c].no \in Nat
    BY <1>2, <2>1, <2>2 DEF IInv, ParentsPrecede, TypeOK, RevisionRows, Stored
  <2>6. revisions[c].no = row.no
    BY <1>2, <2>1, <2>2, <2>3, <2>4, <2>5 DEF IInv, HeadIsNewest
  <2> QED
    BY <1>2, <2>6 DEF NumberTaken
<1>3. row.parent = base
  BY HeldFacts
<1> QED
  BY <1>1, <1>2, <1>3 DEF HistoryIsAChain, IInv, Stored

\* Two live pages with revisions are in two publications.
LEMMA LivePagesDisjoint ==
    ASSUME IInv, NEW s \in Slugs, NEW t \in Slugs, s # t,
           HeadRevision(s) # None, HeadRevision(t) # None
    PROVE  /\ pages[s].publication # pages[t].publication
           /\ revisions[HeadRevision(s)].publication = pages[s].publication
           /\ \A r \in RevIds : (Stored(r) /\ revisions[r].slug = s)
                => revisions[r].publication # pages[t].publication
<1>1. ASSUME NEW u \in {s, t}
      PROVE  /\ pages[u] # None /\ HeadRevision(u) = pages[u].revision
             /\ HeadRevision(u) \in RevIds /\ Stored(HeadRevision(u))
             /\ revisions[HeadRevision(u)].slug = u
             /\ revisions[HeadRevision(u)].publication = pages[u].publication
  BY <1>1 DEF IInv, TypeOK, HeadRows, HeadRevision, HeadMatchesRevision
<1> QED
  BY <1>1 DEF IInv, ParentsPrecede

\* A transaction that inserts the built revision and makes it the head.
LEMMA HeadInsertKeeps ==
    ASSUME IInv, NEW a \in Actors, Holds(a),
           revisions' = [revisions EXCEPT ![ops[a].id] = ops[a].row],
           pages' = [pages EXCEPT ![ops[a].slug] =
                       HeadFor(ops[a].id, ops[a].row, ops[a].row.status)],
           approvals' = IF ops[a].row.approvedAt THEN approvals \cup {ops[a].id} ELSE approvals,
           ops' = [ops EXCEPT ![a] = Idle],
           ops[a].base # None => HeadRevision(ops[a].slug) = ops[a].base,
           ~NumberTaken(ops[a].row)
    PROVE  IInv'
<1> DEFINE id == ops[a].id
           row == ops[a].row
           base == ops[a].base
           s == ops[a].slug
           head == HeadFor(id, row, row.status)
<1>1. /\ s \in Slugs /\ id \in RevIds /\ ~Stored(id) /\ row \in RevisionRows /\ row # None
      /\ row.slug = s /\ row.parent = base /\ row.approvedAt = Publishable(s, row.status)
      /\ base \in RevIds \cup {None}
      /\ base # None => /\ Stored(base)
                        /\ row.publication = revisions[base].publication
                        /\ row.slug = revisions[base].slug
                        /\ row.no = revisions[base].no + 1
      /\ base = None =>
           \A r \in RevIds : Stored(r) => revisions[r].publication # row.publication
  BY HeldFacts
<1>2. /\ revisions' \in [RevIds -> RevisionRows \cup {None}]
      /\ ops' \in [Actors -> Ops]
      /\ OpShape' /\ OpContinues' /\ ParentsPrecede'
      /\ \A r \in RevIds : /\ revisions'[r] = IF r = id THEN row ELSE revisions[r]
                           /\ Stored(r)' <=> (Stored(r) \/ r = id)
  BY InsertKeeps
<1>3. HistoryIsAChain'
  BY ChainKeeps
<1>4. /\ head \in HeadRows /\ head # None /\ head.revision = id
      /\ head.publication = row.publication /\ head.no = row.no /\ head.status = row.status
      /\ head.publication # None
  BY <1>1, RowsAssumption, NoneAssumption DEF HeadFor, HeadRows, RevisionRows
<1>5. \A t \in Slugs : pages'[t] = IF t = s THEN head ELSE pages[t]
  BY <1>1 DEF IInv, TypeOK
<1>6. TypeOK'
  <2>1. pages' \in [Slugs -> HeadRows \cup {None}]
    BY <1>4 DEF IInv, TypeOK
  <2>2. approvals' \in SUBSET RevIds
    BY <1>1 DEF IInv, TypeOK
  <2> QED
    BY <1>2, <2>1, <2>2 DEF TypeOK
<1> HIDE DEF head
<1>7. HeadMatchesRevision'
  <2> SUFFICES ASSUME NEW t \in Slugs, pages'[t] # None
               PROVE  /\ pages'[t].revision = None <=> pages'[t].publication = None
                      /\ pages'[t].revision # None =>
                           /\ revisions'[pages'[t].revision] # None
                           /\ revisions'[pages'[t].revision].slug = t
                           /\ revisions'[pages'[t].revision].publication = pages'[t].publication
                           /\ revisions'[pages'[t].revision].no = pages'[t].no
                           /\ Publishable(t, pages'[t].status) => pages'[t].revision \in approvals'
    BY DEF HeadMatchesRevision, Stored, Publishable
  <2>1. CASE t = s
    BY <1>1, <1>2, <1>4, <1>5, <2>1, NoneAssumption
  <2>2. CASE t # s
    <3>1. /\ pages'[t] = pages[t]
          /\ pages[t].revision # None => pages[t].revision \in RevIds
      BY <1>5, <2>2 DEF IInv, TypeOK, HeadRows
    <3>2. pages[t].revision # None =>
            /\ Stored(pages[t].revision) /\ pages[t].revision # id
            /\ revisions'[pages[t].revision] = revisions[pages[t].revision]
      BY <1>1, <1>2, <3>1 DEF IInv, HeadMatchesRevision
    <3>3. approvals \subseteq approvals'
      OBVIOUS
    <3>4. /\ pages[t].revision = None <=> pages[t].publication = None
          /\ pages[t].revision # None =>
               /\ revisions[pages[t].revision] # None
               /\ revisions[pages[t].revision].slug = t
               /\ revisions[pages[t].revision].publication = pages[t].publication
               /\ revisions[pages[t].revision].no = pages[t].no
               /\ Publishable(t, pages[t].status) => pages[t].revision \in approvals
      BY <3>1 DEF IInv, HeadMatchesRevision, Stored
    <3> QED
      BY <3>1, <3>2, <3>3, <3>4
  <2> QED
    BY <2>1, <2>2
<1>8. ApprovalsMatchRevisions'
  BY <1>1, <1>2 DEF IInv, TypeOK, ApprovalsMatchRevisions, Stored
<1>9. HeadIsNewest'
  <2> SUFFICES ASSUME NEW t \in Slugs, NEW r \in RevIds, HeadRevision(t)' # None,
                      Stored(r)', revisions'[r].publication = pages'[t].publication
               PROVE  \/ revisions'[r].no <= pages'[t].no
                      \/ /\ revisions'[r].parent = HeadRevision(t)'
                         /\ revisions'[r].no = pages'[t].no + 1
                         /\ r \notin approvals'
    BY DEF HeadIsNewest
  <2>1. CASE t = s
    <3>1. pages'[t].no = row.no /\ pages'[t].publication = row.publication /\ row.no \in Nat
      BY <1>1, <1>4, <1>5, <2>1 DEF RevisionRows
    <3>2. CASE r = id
      BY <1>2, <3>1, <3>2
    <3>3. CASE r # id
      <4>1. Stored(r) /\ revisions'[r] = revisions[r] /\ revisions[r].publication = row.publication
        BY <1>2, <3>1, <3>3
      <4>2. base # None /\ HeadRevision(s) = base
        BY <1>1, <4>1
      <4>3. /\ pages[s].publication = row.publication
            /\ row.no = pages[s].no + 1 /\ pages[s].no \in Nat
        BY <1>1, <4>2 DEF HeadRevision, IInv, TypeOK, HeadRows, HeadMatchesRevision
      <4>4. revisions[r].no # row.no
        BY <4>1 DEF NumberTaken
      <4>5. revisions[r].no <= pages[s].no
        BY <1>1, <4>1, <4>2, <4>3, <4>4 DEF IInv, HeadIsNewest
      <4>6. revisions[r].no \in Nat
        BY <4>1 DEF IInv, TypeOK, RevisionRows, Stored
      <4> QED
        BY <3>1, <4>1, <4>3, <4>5, <4>6
    <3> QED
      BY <3>2, <3>3
  <2>2. CASE t # s
    <3>1. /\ pages'[t] = pages[t] /\ HeadRevision(t)' = HeadRevision(t) /\ pages[t] # None
          /\ HeadRevision(t) \in RevIds /\ Stored(HeadRevision(t))
          /\ revisions[HeadRevision(t)].publication = pages[t].publication
          /\ revisions[HeadRevision(t)].slug = t
      BY <1>5, <2>2 DEF HeadRevision, IInv, TypeOK, HeadRows, HeadMatchesRevision
    <3>2. r # id
      <4>1. row.publication # pages[t].publication
        BY <1>1, <2>2, <3>1 DEF IInv, ParentsPrecede
      <4> QED
        BY <1>2, <3>1, <4>1
    <3>3. Stored(r) /\ revisions'[r] = revisions[r] /\ (r \in approvals' <=> r \in approvals)
      BY <1>2, <3>2
    <3> QED
      BY <3>1, <3>3 DEF IInv, HeadIsNewest
  <2> QED
    BY <2>1, <2>2
<1> QED
  BY <1>2, <1>3, <1>6, <1>7, <1>8, <1>9 DEF IInv

LEMMA CommitSaveKeeps ==
    ASSUME IInv, NEW a \in Actors, CommitSave(a)
    PROVE  IInv'
<1>1. Holds(a) /\ HeadRevision(ops[a].slug) = ops[a].base /\ ~NumberTaken(ops[a].row)
  BY DEF CommitSave, CanSave, Holds
<1> QED
  BY <1>1, HeadInsertKeeps DEF CommitSave

LEMMA CommitAdoptKeeps ==
    ASSUME IInv, NEW a \in Actors, CommitAdopt(a)
    PROVE  IInv'
<1>1. CASE Loaded(ops[a].slug)
  BY <1>1, DropKeeps DEF CommitAdopt
<1>2. CASE ~Loaded(ops[a].slug)
  <2>1. Holds(a) /\ ops[a].base = None
    BY DEF CommitAdopt, Holds, IInv, OpShape
  <2> QED
    BY <1>2, <2>1, HeadInsertKeeps DEF CommitAdopt
<1> QED
  BY <1>1, <1>2

LEMMA CommitProposeKeeps ==
    ASSUME IInv, NEW a \in Actors, CommitPropose(a)
    PROVE  IInv'
<1> DEFINE id == ops[a].id
           row == ops[a].row
           base == ops[a].base
           s == ops[a].slug
<1>1. /\ Holds(a) /\ HeadRevision(s) = base /\ base # None /\ ~NumberTaken(row)
      /\ row.status = "draft"
      /\ revisions' = [revisions EXCEPT ![id] = row]
      /\ ops' = [ops EXCEPT ![a] = Idle]
      /\ UNCHANGED <<pages, approvals>>
  BY DEF CommitPropose, CanPropose, Holds, IInv, OpShape
<1>2. /\ s \in Slugs /\ id \in RevIds /\ ~Stored(id) /\ row \in RevisionRows /\ row # None
      /\ row.slug = s /\ row.parent = base /\ row.approvedAt = Publishable(s, row.status)
      /\ base \in RevIds /\ Stored(base)
      /\ row.publication = revisions[base].publication
      /\ row.no = revisions[base].no + 1
  BY <1>1, HeldFacts
<1>3. /\ revisions' \in [RevIds -> RevisionRows \cup {None}]
      /\ ops' \in [Actors -> Ops]
      /\ OpShape' /\ OpContinues' /\ ParentsPrecede'
      /\ \A r \in RevIds : /\ revisions'[r] = IF r = id THEN row ELSE revisions[r]
                           /\ Stored(r)' <=> (Stored(r) \/ r = id)
  BY <1>1, InsertKeeps
<1>4. HistoryIsAChain'
  BY <1>1, ChainKeeps
<1>5. TypeOK'
  BY <1>1, <1>3 DEF IInv, TypeOK
<1>6. id \notin approvals
  BY <1>2 DEF IInv, ApprovalsMatchRevisions
<1>7. HeadMatchesRevision'
  <2>1. \A t \in Slugs : (pages[t] # None /\ pages[t].revision # None) =>
           /\ pages[t].revision \in RevIds
           /\ revisions'[pages[t].revision] = revisions[pages[t].revision]
    BY <1>2, <1>3 DEF IInv, TypeOK, HeadRows, HeadMatchesRevision
  <2> QED
    BY <1>1, <2>1 DEF IInv, HeadMatchesRevision, Stored
<1>8. ApprovalsMatchRevisions'
  BY <1>1, <1>2, <1>3 DEF IInv, TypeOK, ApprovalsMatchRevisions, Publishable
<1>9. HeadIsNewest'
  <2> SUFFICES ASSUME NEW t \in Slugs, NEW r \in RevIds, HeadRevision(t) # None,
                      Stored(r)', revisions'[r].publication = pages[t].publication
               PROVE  \/ revisions'[r].no <= pages[t].no
                      \/ /\ revisions'[r].parent = HeadRevision(t)
                         /\ revisions'[r].no = pages[t].no + 1
                         /\ r \notin approvals
    BY <1>1 DEF HeadIsNewest, HeadRevision
  <2>1. CASE r # id
    BY <1>3, <2>1 DEF IInv, HeadIsNewest
  <2>2. CASE r = id
    <3>1. row.publication = pages[t].publication /\ revisions'[r] = row
      BY <1>3, <2>2
    <3>2. /\ pages[t] # None /\ HeadRevision(t) \in RevIds /\ Stored(HeadRevision(t))
          /\ HeadRevision(t) = pages[t].revision
          /\ revisions[HeadRevision(t)].slug = t
          /\ revisions[HeadRevision(t)].publication = pages[t].publication
          /\ revisions[HeadRevision(t)].no = pages[t].no
      BY DEF HeadRevision, IInv, TypeOK, HeadRows, HeadMatchesRevision
    <3>3. revisions[base].slug = s
      BY <1>1, <1>2 DEF IInv, HeadRevision, HeadMatchesRevision
    <3>4. t = s
      <4>1. revisions[base].publication = revisions[HeadRevision(t)].publication
        BY <1>2, <3>1, <3>2
      <4>2. revisions[base].slug = revisions[HeadRevision(t)].slug
        BY <1>2, <3>2, <4>1 DEF IInv, ParentsPrecede
      <4> QED
        BY <3>2, <3>3, <4>2
    <3> QED
      BY <1>1, <1>2, <1>6, <2>2, <3>1, <3>2, <3>4
  <2> QED
    BY <2>1, <2>2
<1> QED
  BY <1>3, <1>4, <1>5, <1>7, <1>8, <1>9 DEF IInv

LEMMA CommitApproveKeeps ==
    ASSUME IInv, NEW a \in Actors, CommitApprove(a)
    PROVE  IInv'
<1> DEFINE id == ops[a].id
           base == ops[a].base
           s == ops[a].slug
           row == revisions[id]
           head == HeadFor(id, row, "published")
<1>1. /\ HeadRevision(s) = base /\ approvals' = approvals \cup {id}
      /\ pages' = [pages EXCEPT ![s] = head]
      /\ ops' = [ops EXCEPT ![a] = Idle] /\ UNCHANGED revisions
  BY DEF CommitApprove, CanApprove
<1>2. /\ s \in Slugs /\ id \in RevIds /\ Stored(id) /\ base \in RevIds
      /\ row.slug = s /\ (base = id \/ base = row.parent)
  BY DEF CommitApprove, IInv, OpShape
<1>3. row \in RevisionRows
  BY <1>2 DEF IInv, TypeOK, Stored
<1>4. /\ pages[s] # None /\ pages[s].revision = base /\ Stored(base)
      /\ revisions[base].publication = pages[s].publication
      /\ revisions[base].no = pages[s].no
  BY <1>1, <1>2, NoneAssumption DEF HeadRevision, IInv, HeadMatchesRevision
<1>5. row.publication = pages[s].publication
  BY <1>2, <1>4, NoneAssumption DEF IInv, ParentsPrecede
<1>6. /\ head \in HeadRows /\ head # None /\ head.revision = id
      /\ head.publication = row.publication /\ head.no = row.no
      /\ head.publication # None
  BY <1>2, <1>3, RowsAssumption, NoneAssumption
  DEF HeadFor, HeadRows, RevisionRows, Statuses
<1> HIDE DEF head
<1>7. \A t \in Slugs : pages'[t] = IF t = s THEN head ELSE pages[t]
  BY <1>1 DEF IInv, TypeOK
<1>8. \A b \in Actors : ops'[b] = IF b = a THEN Idle ELSE ops[b]
  BY <1>1 DEF IInv, TypeOK
<1>9. TypeOK'
  BY <1>1, <1>2, <1>6, IdleType DEF IInv, TypeOK
<1>10. OpShape'
  BY <1>1, <1>8, IdleType DEF IInv, OpShape, Holds, Stored
<1>11. OpContinues'
  BY <1>1, <1>8, IdleType DEF IInv, OpContinues, Holds, Stored
<1>12. ParentsPrecede' /\ HistoryIsAChain'
  BY <1>1 DEF IInv, ParentsPrecede, HistoryIsAChain, Stored
<1>13. ApprovalsMatchRevisions'
  BY <1>1, <1>2 DEF IInv, ApprovalsMatchRevisions, Stored
<1>14. HeadMatchesRevision'
  <2> SUFFICES ASSUME NEW t \in Slugs, pages'[t] # None
               PROVE  /\ pages'[t].revision = None <=> pages'[t].publication = None
                      /\ pages'[t].revision # None =>
                           /\ Stored(pages'[t].revision)
                           /\ revisions[pages'[t].revision].slug = t
                           /\ revisions[pages'[t].revision].publication = pages'[t].publication
                           /\ revisions[pages'[t].revision].no = pages'[t].no
                           /\ Publishable(t, pages'[t].status) => pages'[t].revision \in approvals'
    BY <1>1 DEF HeadMatchesRevision, Stored, Publishable
  <2>1. CASE t = s
    BY <1>1, <1>2, <1>6, <1>7, <2>1, NoneAssumption
  <2>2. CASE t # s
    <3>1. pages'[t] = pages[t]
      BY <1>7, <2>2
    <3> QED
      BY <1>1, <3>1 DEF IInv, HeadMatchesRevision
  <2> QED
    BY <2>1, <2>2
<1>15. HeadIsNewest'
  <2> SUFFICES ASSUME NEW t \in Slugs, NEW q \in RevIds, HeadRevision(t)' # None,
                      Stored(q), revisions[q].publication = pages'[t].publication
               PROVE  \/ revisions[q].no <= pages'[t].no
                      \/ /\ revisions[q].parent = HeadRevision(t)'
                         /\ revisions[q].no = pages'[t].no + 1
                         /\ q \notin approvals'
    BY <1>1 DEF HeadIsNewest, Stored
  <2>1. /\ revisions[q].no \in Nat /\ row.no \in Nat /\ pages[s].no \in Nat
        /\ base # None
    BY <1>2, <1>3, <1>4, NoneAssumption DEF IInv, TypeOK, RevisionRows, HeadRows, Stored
  <2>2. CASE t = s
    <3>1. /\ revisions[q].publication = row.publication
          /\ HeadRevision(t)' = id /\ pages'[t].no = row.no
      BY <1>6, <1>7, <2>2 DEF HeadRevision
    <3>2. \/ revisions[q].no <= pages[s].no
          \/ /\ revisions[q].parent = base /\ revisions[q].no = pages[s].no + 1
             /\ q \notin approvals
      BY <1>1, <1>2, <1>5, <2>1, <3>1 DEF IInv, HeadIsNewest
    <3>3. CASE base = id
      <4>1. q = id => revisions[q].no <= row.no
        BY <2>1
      <4> QED
        BY <1>1, <1>4, <3>1, <3>2, <3>3, <4>1
    <3>4. CASE base = row.parent
      <4>1. pages[s].no < row.no
        BY <1>2, <1>4, <2>1, <3>4 DEF IInv, ParentsPrecede
      <4>2. revisions[q].parent = base => q = id
        BY <1>2, <3>1, <3>4 DEF IInv, HistoryIsAChain
      <4> QED
        BY <2>1, <3>1, <3>2, <4>1, <4>2
    <3> QED
      BY <1>2, <3>3, <3>4
  <2>3. CASE t # s
    <3>1. HeadRevision(t)' = HeadRevision(t) /\ pages'[t] = pages[t]
      BY <1>7, <2>3 DEF HeadRevision
    <3>2. row.publication # pages[t].publication
      BY <1>1, <1>2, <2>1, <2>3, <3>1, LivePagesDisjoint
    <3> QED
      BY <1>1, <3>1, <3>2 DEF IInv, HeadIsNewest
  <2> QED
    BY <2>2, <2>3
<1> QED
  BY <1>9, <1>10, <1>11, <1>12, <1>13, <1>14, <1>15 DEF IInv

LEMMA RemoveKeeps ==
    ASSUME IInv, NEW s \in Slugs, Remove(s)
    PROVE  IInv'
<1>1. \A t \in Slugs : pages'[t] = IF t = s THEN None ELSE pages[t]
  BY DEF IInv, TypeOK, Remove
<1>2. TypeOK'
  BY DEF IInv, TypeOK, Remove
<1>3. OpShape' /\ OpContinues'
  BY DEF IInv, OpShape, OpContinues, Holds, Stored, Remove
<1>4. ApprovalsMatchRevisions' /\ ParentsPrecede' /\ HistoryIsAChain'
  BY DEF IInv, ApprovalsMatchRevisions, ParentsPrecede, HistoryIsAChain, Stored, Remove
<1>5. HeadMatchesRevision'
  BY <1>1 DEF IInv, HeadMatchesRevision, Stored, Remove
<1>6. HeadIsNewest'
  BY <1>1 DEF IInv, HeadIsNewest, HeadRevision, Stored, Remove
<1> QED
  BY <1>2, <1>3, <1>4, <1>5, <1>6 DEF IInv

\* Importing a history of fresh identities leaves everything else alone.
LEMMA ImportKeeps ==
    ASSUME IInv, NEW s \in Slugs, Import(s)
    PROVE  IInv'
<1>1. PICK p \in PubIds, R \in SUBSET {r \in RevIds : FreshRevision(r)} :
        /\ FreshPublication(p)
        /\ \E no \in [R -> ImportNos], parent \in [R -> R \cup {None}], latest \in R :
             LET row(r) == [publication |-> p, slug |-> s, no |-> no[r],
                            parent |-> parent[r], status |-> "published",
                            approvedAt |-> TRUE]
             IN /\ IsHistory(R, no, parent, latest)
                /\ revisions' = [r \in RevIds |-> IF r \in R THEN row(r) ELSE revisions[r]]
                /\ pages' = [pages EXCEPT ![s] = HeadFor(latest, row(latest), "published")]
        /\ approvals' = approvals \cup R
  BY DEF Import
<1>2. PICK no \in [R -> ImportNos], parent \in [R -> R \cup {None}], latest \in R :
        LET row(r) == [publication |-> p, slug |-> s, no |-> no[r],
                       parent |-> parent[r], status |-> "published",
                       approvedAt |-> TRUE]
        IN /\ IsHistory(R, no, parent, latest)
           /\ revisions' = [r \in RevIds |-> IF r \in R THEN row(r) ELSE revisions[r]]
           /\ pages' = [pages EXCEPT ![s] = HeadFor(latest, row(latest), "published")]
  BY <1>1
<1> DEFINE row(r) == [publication |-> p, slug |-> s, no |-> no[r],
                      parent |-> parent[r], status |-> "published", approvedAt |-> TRUE]
           head == HeadFor(latest, row(latest), "published")
<1>3. /\ IsHistory(R, no, parent, latest)
      /\ revisions' = [r \in RevIds |-> IF r \in R THEN row(r) ELSE revisions[r]]
      /\ pages' = [pages EXCEPT ![s] = head]
      /\ ops' = ops /\ approvals' = approvals \cup R
      /\ s \notin LegacyDraftSlugs
  BY <1>1, <1>2 DEF Import
<1>4. /\ R \subseteq RevIds
      /\ \A r \in R : ~Stored(r) /\ \A b \in Actors : ops[b].id # r
      /\ \A r \in RevIds : Stored(r) => revisions[r].publication # p
      /\ \A b \in Actors : ops[b].row # None => ops[b].row.publication # p
  BY <1>1 DEF FreshRevision, FreshPublication
<1>5. \A r \in R : no[r] \in Nat \ {0} /\ parent[r] \in RevIds \cup {None} /\ row(r) \in RevisionRows
  BY <1>4, ImportAssumption DEF RevisionRows, Statuses
<1>6. \A r \in R : /\ row(r).publication = p /\ row(r).slug = s /\ row(r).no = no[r]
                   /\ row(r).parent = parent[r] /\ row(r) # None
  BY <1>5, RowsAssumption
<1>7. /\ head \in HeadRows /\ head # None /\ head.revision = latest /\ head.publication = p
      /\ head.no = no[latest] /\ latest \in RevIds /\ head.publication # None
  <2>1. /\ head.revision = latest /\ head.publication = p
        /\ head.no = no[latest] /\ latest \in RevIds /\ p # None
    BY <1>4, NoneAssumption DEF HeadFor
  <2>2. head \in HeadRows
    BY <1>4, <1>5 DEF HeadFor, HeadRows, Statuses
  <2> QED
    BY <2>1, <2>2, RowsAssumption
<1> HIDE DEF row, head
<1>8. \A r \in RevIds : /\ revisions'[r] = IF r \in R THEN row(r) ELSE revisions[r]
                        /\ revisions'[r] # None <=> (Stored(r) \/ r \in R)
                        /\ Stored(r) => r \notin R
  BY <1>3, <1>4, <1>6 DEF Stored
<1>9. \A t \in Slugs : pages'[t] = IF t = s THEN head ELSE pages[t]
  BY <1>3 DEF IInv, TypeOK
<1>10. TypeOK'
  <2>1. revisions' \in [RevIds -> RevisionRows \cup {None}]
    BY <1>3, <1>5 DEF IInv, TypeOK
  <2>2. pages' \in [Slugs -> HeadRows \cup {None}]
    BY <1>3, <1>7 DEF IInv, TypeOK
  <2> QED
    BY <1>3, <1>4, <2>1, <2>2 DEF IInv, TypeOK
<1>11. OpShape'
  BY <1>3, <1>8 DEF IInv, OpShape, Holds, Stored
<1>12. OpContinues'
  <2> SUFFICES ASSUME NEW b \in Actors, Holds(b)
               PROVE  /\ revisions'[ops[b].id] = None
                      /\ \A c \in Actors : (Holds(c) /\ ops[c].id = ops[b].id) => c = b
                      /\ ops[b].base # None =>
                           /\ revisions'[ops[b].base] # None
                           /\ ops[b].row.publication = revisions'[ops[b].base].publication
                           /\ ops[b].row.slug = revisions'[ops[b].base].slug
                           /\ ops[b].row.no = revisions'[ops[b].base].no + 1
                      /\ ops[b].base = None =>
                           /\ \A r \in RevIds : revisions'[r] # None =>
                                revisions'[r].publication # ops[b].row.publication
                           /\ \A c \in Actors :
                                (Holds(c) /\ ops[c].row.publication = ops[b].row.publication) => c = b
    BY <1>3 DEF OpContinues, Stored, Holds
  <2>1. /\ ops[b].id \in RevIds /\ ~Stored(ops[b].id) /\ ops[b].row # None
        /\ ops[b].base \in RevIds \cup {None}
    BY HeldFacts
  <2>2. revisions'[ops[b].id] = None
    BY <1>4, <1>8, <2>1
  <2>3. ops[b].base # None =>
           revisions'[ops[b].base] = revisions[ops[b].base] /\ Stored(ops[b].base)
    BY <1>8, <2>1 DEF IInv, OpContinues
  <2>4. ASSUME ops[b].base = None, NEW r \in RevIds, revisions'[r] # None
        PROVE  revisions'[r].publication # ops[b].row.publication
    BY <1>4, <1>6, <1>8, <2>1, <2>4 DEF IInv, OpContinues
  <2> QED
    BY <2>2, <2>3, <2>4 DEF IInv, OpContinues, Stored
<1>13. ApprovalsMatchRevisions'
  BY <1>3, <1>4, <1>8 DEF IInv, TypeOK, ApprovalsMatchRevisions, Stored
<1>14. ParentsPrecede'
  <2>1. ASSUME NEW r \in RevIds, revisions'[r] # None, revisions'[r].parent # None
        PROVE  /\ revisions'[revisions'[r].parent] # None
               /\ revisions'[revisions'[r].parent].publication = revisions'[r].publication
               /\ revisions'[revisions'[r].parent].no < revisions'[r].no
    <3>1. CASE r \in R
      <4>1. revisions'[r] = row(r) /\ parent[r] \in R /\ no[parent[r]] < no[r]
        BY <1>3, <1>6, <1>8, <2>1, <3>1 DEF IsHistory
      <4> QED
        BY <1>4, <1>6, <1>8, <3>1, <4>1
    <3>2. CASE r \notin R
      <4>1. Stored(r) /\ revisions'[r] = revisions[r] /\ revisions[r].parent \in RevIds
        BY <1>8, <2>1, <3>2 DEF IInv, TypeOK, RevisionRows, Stored
      <4>2. Stored(revisions[r].parent)
        BY <2>1, <4>1 DEF IInv, ParentsPrecede
      <4> QED
        BY <1>8, <2>1, <4>1, <4>2 DEF IInv, ParentsPrecede
    <3> QED
      BY <3>1, <3>2
  <2>2. ASSUME NEW r \in RevIds, NEW q \in RevIds, revisions'[r] # None, revisions'[q] # None,
               revisions'[r].publication = revisions'[q].publication
        PROVE  revisions'[r].slug = revisions'[q].slug
    BY <1>4, <1>6, <1>8, <2>2 DEF IInv, ParentsPrecede
  <2> QED
    BY <2>1, <2>2 DEF ParentsPrecede, Stored
<1>15. HistoryIsAChain'
  <2>1. ASSUME NEW r \in R, NEW q \in R, parent[r] = parent[q]
        PROVE  r = q
    <3>1. no[r] \in Nat /\ no[q] \in Nat
      BY <1>5
    <3>2. CASE parent[r] = None
      <4>1. no[r] <= no[q] /\ no[q] <= no[r]
        BY <1>3, <1>4, <2>1, <3>2, NoneAssumption DEF IsHistory
      <4> QED
        BY <1>3, <3>1, <4>1 DEF IsHistory
    <3>3. CASE parent[r] # None
      <4>1. /\ parent[r] \in R /\ no[parent[r]] \in Nat
            /\ no[parent[r]] < no[r] /\ no[parent[r]] < no[q]
            /\ no[q] < no[r] => no[q] <= no[parent[r]]
            /\ no[r] < no[q] => no[r] <= no[parent[r]]
        BY <1>3, <1>5, <2>1, <3>3 DEF IsHistory
      <4>2. no[r] = no[q]
        BY <3>1, <4>1
      <4> QED
        BY <1>3, <4>2 DEF IsHistory
    <3> QED
      BY <3>2, <3>3
  <2>2. ASSUME NEW r \in RevIds, NEW q \in RevIds, revisions'[r] # None, revisions'[q] # None,
               revisions'[r].publication = revisions'[q].publication,
               revisions'[r].parent = revisions'[q].parent
        PROVE  r = q
    <3>1. (r \in R) <=> (q \in R)
      BY <1>4, <1>6, <1>8, <2>2
    <3>2. CASE r \in R
      BY <1>6, <1>8, <2>1, <2>2, <3>1, <3>2
    <3>3. CASE r \notin R
      BY <1>8, <2>2, <3>1, <3>3 DEF IInv, HistoryIsAChain
    <3> QED
      BY <3>2, <3>3
  <2> QED
    BY <2>2 DEF HistoryIsAChain, Stored
<1>16. HeadMatchesRevision'
  <2> SUFFICES ASSUME NEW t \in Slugs, pages'[t] # None
               PROVE  /\ pages'[t].revision = None <=> pages'[t].publication = None
                      /\ pages'[t].revision # None =>
                           /\ revisions'[pages'[t].revision] # None
                           /\ revisions'[pages'[t].revision].slug = t
                           /\ revisions'[pages'[t].revision].publication = pages'[t].publication
                           /\ revisions'[pages'[t].revision].no = pages'[t].no
                           /\ Publishable(t, pages'[t].status) => pages'[t].revision \in approvals'
    BY DEF HeadMatchesRevision, Stored, Publishable
  <2>1. CASE t = s
    BY <1>3, <1>6, <1>7, <1>8, <1>9, <2>1, NoneAssumption
  <2>2. CASE t # s
    <3>1. /\ pages'[t] = pages[t]
          /\ pages[t].revision # None => pages[t].revision \in RevIds
      BY <1>9, <2>2 DEF IInv, TypeOK, HeadRows
    <3>2. pages[t].revision # None =>
            /\ Stored(pages[t].revision)
            /\ revisions'[pages[t].revision] = revisions[pages[t].revision]
      BY <1>8, <3>1 DEF IInv, HeadMatchesRevision
    <3> QED
      BY <1>3, <3>1, <3>2 DEF IInv, HeadMatchesRevision, Stored
  <2> QED
    BY <2>1, <2>2
<1>17. HeadIsNewest'
  <2> SUFFICES ASSUME NEW t \in Slugs, NEW r \in RevIds, HeadRevision(t)' # None,
                      revisions'[r] # None, revisions'[r].publication = pages'[t].publication
               PROVE  \/ revisions'[r].no <= pages'[t].no
                      \/ /\ revisions'[r].parent = HeadRevision(t)'
                         /\ revisions'[r].no = pages'[t].no + 1
                         /\ r \notin approvals'
    BY DEF HeadIsNewest, Stored
  <2>1. CASE t = s
    <3>1. r \in R
      BY <1>4, <1>7, <1>8, <1>9, <2>1
    <3> QED
      BY <1>3, <1>6, <1>7, <1>8, <1>9, <2>1, <3>1 DEF IsHistory
  <2>2. CASE t # s
    <3>1. /\ pages'[t] = pages[t] /\ HeadRevision(t)' = HeadRevision(t) /\ pages[t] # None
          /\ HeadRevision(t) \in RevIds /\ Stored(HeadRevision(t))
          /\ revisions[HeadRevision(t)].publication = pages[t].publication
      BY <1>9, <2>2 DEF HeadRevision, IInv, TypeOK, HeadRows, HeadMatchesRevision
    <3>2. r \notin R
      BY <1>4, <1>6, <1>8, <3>1
    <3> QED
      BY <1>3, <1>8, <3>1, <3>2 DEF IInv, HeadIsNewest
  <2> QED
    BY <2>1, <2>2
<1> QED
  BY <1>10, <1>11, <1>12, <1>13, <1>14, <1>15, <1>16, <1>17 DEF IInv

-----------------------------------------------------------------------------

LEMMA InitIInv ==
    ASSUME Init
    PROVE  IInv
<1>1. \A status \in Statuses : /\ LegacyRow(status) \in HeadRows
                               /\ LegacyRow(status).revision = None
                               /\ LegacyRow(status).publication = None
  BY DEF LegacyRow, HeadRows
<1>2. \A s \in Slugs : /\ pages[s] \in HeadRows \cup {None}
                       /\ pages[s] # None => /\ pages[s].revision = None
                                             /\ pages[s].publication = None
  BY <1>1 DEF Init
<1>3. TypeOK
  BY <1>1, IdleType DEF Init, TypeOK
<1>4. \A r \in RevIds : ~Stored(r)
  BY DEF Init, Stored
<1>5. OpShape /\ OpContinues
  BY IdleType DEF Init, OpShape, OpContinues, Holds
<1>6. HeadMatchesRevision /\ HeadIsNewest
  BY <1>2, <1>4 DEF HeadMatchesRevision, HeadIsNewest
<1>7. ApprovalsMatchRevisions /\ ParentsPrecede /\ HistoryIsAChain
  BY <1>4 DEF Init, ApprovalsMatchRevisions, ParentsPrecede, HistoryIsAChain
<1> QED
  BY <1>3, <1>5, <1>6, <1>7 DEF IInv

\* Every step of the store, by any client, keeps the inductive invariant.
LEMMA NextIInv ==
    ASSUME IInv, [Next]_vars
    PROVE  IInv'
<1>1. CASE UNCHANGED vars
  <2>1. TypeOK' /\ OpShape' /\ OpContinues'
    BY <1>1 DEF vars, IInv, TypeOK, OpShape, OpContinues, Holds, Stored
  <2> QED
    BY <1>1, <2>1, StoreKept DEF vars, IInv, StoreInv
<1>2. ASSUME NEW a \in Actors, NEW s \in Slugs, OpenPage(a, s)
      PROVE  IInv'
  BY <1>2, OpenPageKeeps
<1>3. ASSUME NEW a \in Actors, NEW s \in Slugs, BeginAdopt(a, s)
      PROVE  IInv'
  BY <1>3, BeginAdoptKeeps
<1>4. ASSUME NEW a \in Actors, NEW s \in Slugs, NEW r \in RevIds, BeginApprove(a, s, r)
      PROVE  IInv'
  BY <1>4, BeginApproveKeeps
<1>5. ASSUME NEW a \in Actors, NEW status \in Statuses, BeginSave(a, status)
      PROVE  IInv'
  BY <1>5, BeginSaveKeeps
<1>6. ASSUME NEW a \in Actors, BeginPropose(a)
      PROVE  IInv'
  BY <1>6, BeginProposeKeeps
<1>7. ASSUME NEW a \in Actors, CommitAdopt(a)
      PROVE  IInv'
  BY <1>7, CommitAdoptKeeps
<1>8. ASSUME NEW a \in Actors, CommitSave(a)
      PROVE  IInv'
  BY <1>8, CommitSaveKeeps
<1>9. ASSUME NEW a \in Actors, CommitPropose(a)
      PROVE  IInv'
  BY <1>9, CommitProposeKeeps
<1>10. ASSUME NEW a \in Actors, CommitApprove(a)
       PROVE  IInv'
  BY <1>10, CommitApproveKeeps
<1>11. ASSUME NEW a \in Actors,
              RefuseSave(a) \/ RefusePropose(a) \/ RefuseApprove(a) \/ Abandon(a)
       PROVE  IInv'
  BY <1>11, DropKeeps DEF RefuseSave, RefusePropose, RefuseApprove, Abandon
<1>12. ASSUME NEW s \in Slugs, Remove(s)
       PROVE  IInv'
  BY <1>12, RemoveKeeps
<1>13. ASSUME NEW s \in Slugs, Import(s)
       PROVE  IInv'
  BY <1>13, ImportKeeps
<1> QED
  BY <1>1, <1>2, <1>3, <1>4, <1>5, <1>6, <1>7, <1>8, <1>9, <1>10, <1>11, <1>12, <1>13
  DEF Next

\* The inductive invariant holds in every state of the store.
THEOREM Invariance == Spec => []IInv
<1>1. Init => IInv
  BY InitIInv
<1>2. IInv /\ [Next]_vars => IInv'
  BY NextIInv
<1> QED
  BY <1>1, <1>2, PTL DEF Spec

\* Every table and every request keeps its shape.
THEOREM TypeCorrect == Spec => []TypeOK
<1>1. IInv => TypeOK
  BY DEF IInv
<1> QED
  BY <1>1, Invariance, PTL

\* However saves, proposals, approvals, adoptions, removals and imports
\* interleave, the revisions of a publication form one chain.
THEOREM ChainCorrect == Spec => []HistoryIsAChain
<1>1. IInv => HistoryIsAChain
  BY DEF IInv
<1> QED
  BY <1>1, Invariance, PTL

\* A page that visitors see shows the last approved revision of its publication.
THEOREM PublicHeadCorrect == Spec => []PublicHeadIsLastApproved
<1>1. ASSUME IInv, NEW s \in Slugs, pages[s] # None, pages[s].revision # None,
             Publishable(s, pages[s].status)
      PROVE  /\ pages[s].revision \in approvals
             /\ \A r \in approvals :
                  revisions[r].publication = pages[s].publication =>
                      revisions[r].no <= pages[s].no
  <2>1. pages[s].revision \in approvals
    BY <1>1 DEF IInv, HeadMatchesRevision
  <2>2. ASSUME NEW r \in approvals, revisions[r].publication = pages[s].publication
        PROVE  revisions[r].no <= pages[s].no
    <3>1. r \in RevIds /\ Stored(r) /\ HeadRevision(s) # None
      BY <1>1 DEF IInv, TypeOK, ApprovalsMatchRevisions, HeadRevision
    <3> QED
      BY <1>1, <2>2, <3>1 DEF IInv, HeadIsNewest
  <2> QED
    BY <2>1, <2>2
<1>2. IInv => PublicHeadIsLastApproved
  BY <1>1 DEF PublicHeadIsLastApproved
<1> QED
  BY <1>2, Invariance, PTL

\* Two live pages never share a publication.
THEOREM DisjointCorrect == Spec => []PublicationsAreDisjoint
<1>1. IInv => PublicationsAreDisjoint
  <2> SUFFICES ASSUME IInv, NEW s \in Slugs, NEW t \in Slugs, s # t,
                      pages[s] # None, pages[t] # None, pages[s].publication # None,
                      pages[s].publication = pages[t].publication
               PROVE  FALSE
    BY DEF PublicationsAreDisjoint
  <2>1. HeadRevision(s) # None /\ HeadRevision(t) # None
    BY DEF IInv, HeadMatchesRevision, HeadRevision
  <2> QED
    BY <2>1, LivePagesDisjoint
<1> QED
  BY <1>1, Invariance, PTL

-----------------------------------------------------------------------------

\* The ways the head of page s moves, with what each of them relies on.
SavesHead(a, s) ==
    /\ ops[a].kind = "saving"
    /\ HeadRevision(s) = ops[a].base
    /\ HeadRevision(s)' = ops[a].id
    /\ revisions' = [revisions EXCEPT ![ops[a].id] = ops[a].row]
    /\ pages'[s].publication = ops[a].row.publication

AdoptsHead(a, s) ==
    /\ ops[a].kind = "adopting"
    /\ HeadRevision(s) = None
    /\ HeadRevision(s)' = ops[a].id

ApprovesHead(a, s) ==
    /\ ops[a].kind = "approving"
    /\ HeadRevision(s) = revisions[ops[a].id].parent
    /\ HeadRevision(s)' = ops[a].id
    /\ pages'[s].publication = revisions[ops[a].id].publication
    /\ UNCHANGED revisions

ImportsHead(s) ==
    /\ HeadRevision(s) = None
    /\ \A a \in Actors : ops[a].id # HeadRevision(s)'

LEMMA HeadMoves ==
    ASSUME IInv, [Next]_vars, NEW s \in Slugs, HeadRevision(s)' # HeadRevision(s)
    PROVE  \/ \E a \in Actors : SavesHead(a, s) \/ AdoptsHead(a, s) \/ ApprovesHead(a, s)
           \/ HeadRevision(s)' = None
           \/ ImportsHead(s)
<1>1. pages' # pages
  BY DEF HeadRevision
<1>2. \/ \E a \in Actors : \/ CommitSave(a)
                           \/ CommitAdopt(a) /\ ~Loaded(ops[a].slug)
                           \/ CommitApprove(a)
      \/ \E t \in Slugs : Remove(t) \/ Import(t)
  BY <1>1 DEF Next, vars, OpenPage, BeginAdopt, BeginApprove, BeginSave, BeginPropose,
              CommitAdopt, CommitPropose, RefuseSave, RefusePropose, RefuseApprove, Abandon
<1>3. ASSUME NEW t \in Slugs, NEW head \in HeadRows, pages' = [pages EXCEPT ![t] = head]
      PROVE  s = t /\ pages'[s] = head /\ HeadRevision(s)' = head.revision
  BY <1>3, RowsAssumption DEF HeadRevision, IInv, TypeOK
<1>4. ASSUME NEW a \in Actors, CommitSave(a)
      PROVE  SavesHead(a, s)
  <2> DEFINE head == HeadFor(ops[a].id, ops[a].row, ops[a].row.status)
  <2>1. Holds(a)
    BY <1>4 DEF CommitSave, Holds
  <2>2. /\ ops[a].slug \in Slugs /\ head \in HeadRows /\ head.revision = ops[a].id
        /\ head.publication = ops[a].row.publication
    BY <2>1, HeldFacts DEF HeadFor, HeadRows, RevisionRows
  <2>3. pages' = [pages EXCEPT ![ops[a].slug] = head]
    BY <1>4 DEF CommitSave
  <2> HIDE DEF head
  <2>4. s = ops[a].slug /\ pages'[s] = head /\ HeadRevision(s)' = head.revision
    BY <1>3, <2>2, <2>3
  <2> QED
    BY <1>4, <2>2, <2>4 DEF SavesHead, CommitSave, CanSave
<1>5. ASSUME NEW a \in Actors, CommitAdopt(a), ~Loaded(ops[a].slug)
      PROVE  AdoptsHead(a, s)
  <2> DEFINE head == HeadFor(ops[a].id, ops[a].row, ops[a].row.status)
  <2>1. Holds(a)
    BY <1>5 DEF CommitAdopt, Holds
  <2>2. ops[a].slug \in Slugs /\ head \in HeadRows /\ head.revision = ops[a].id
    BY <2>1, HeldFacts DEF HeadFor, HeadRows, RevisionRows
  <2>3. pages' = [pages EXCEPT ![ops[a].slug] = head]
    BY <1>5 DEF CommitAdopt
  <2> HIDE DEF head
  <2>4. s = ops[a].slug /\ HeadRevision(s)' = head.revision
    BY <1>3, <2>2, <2>3
  <2> QED
    BY <1>5, <2>2, <2>4 DEF AdoptsHead, CommitAdopt, Loaded, HeadRevision
<1>6. ASSUME NEW a \in Actors, CommitApprove(a)
      PROVE  ApprovesHead(a, s)
  <2> DEFINE row == revisions[ops[a].id]
             head == HeadFor(ops[a].id, row, "published")
  <2>1. /\ ops[a].slug \in Slugs /\ ops[a].id \in RevIds /\ Stored(ops[a].id)
        /\ ops[a].base = ops[a].id \/ ops[a].base = row.parent
    BY <1>6 DEF CommitApprove, IInv, OpShape
  <2>2. row \in RevisionRows
    BY <2>1 DEF IInv, TypeOK, Stored
  <2>3. /\ head \in HeadRows /\ head.revision = ops[a].id
        /\ head.publication = row.publication
    BY <2>1, <2>2 DEF HeadFor, HeadRows, RevisionRows, Statuses
  <2>4. pages' = [pages EXCEPT ![ops[a].slug] = head]
    BY <1>6 DEF CommitApprove
  <2> HIDE DEF head
  <2>5. s = ops[a].slug /\ pages'[s] = head /\ HeadRevision(s)' = head.revision
    BY <1>3, <2>1, <2>3, <2>4
  <2> QED
    BY <1>6, <2>1, <2>3, <2>5 DEF ApprovesHead, CommitApprove, CanApprove
<1>7. ASSUME NEW t \in Slugs, Remove(t)
      PROVE  HeadRevision(s)' = None
  BY <1>7 DEF Remove, HeadRevision, IInv, TypeOK
<1>8. ASSUME NEW t \in Slugs, Import(t)
      PROVE  ImportsHead(s)
  <2>1. PICK p \in PubIds, r \in RevIds :
          /\ FreshRevision(r)
          /\ \E row : pages' = [pages EXCEPT ![t] = HeadFor(r, row, "published")]
    BY <1>8 DEF Import
  <2>2. s = t /\ HeadRevision(s)' \in {r, None}
    BY <2>1 DEF HeadRevision, HeadFor, IInv, TypeOK
  <2>3. HeadRevision(s) = None
    BY <1>8, <2>2 DEF Import, HeadRevision
  <2> QED
    BY <2>1, <2>2, <2>3 DEF ImportsHead, FreshRevision
<1> QED
  BY <1>2, <1>4, <1>5, <1>6, <1>7, <1>8

\* A save only ever replaces the revision its client had opened.
THEOREM NoLostUpdateCorrect == Spec => NoLostUpdate
<1> DEFINE A == \A a \in Actors, s \in Slugs :
                  (/\ ops[a].kind = "saving"
                   /\ HeadRevision(s) # ops[a].id
                   /\ HeadRevision(s)' = ops[a].id) =>
                      /\ HeadRevision(s) = ops[a].seen
                      /\ revisions'[ops[a].id].parent = ops[a].seen
<1>1. IInv /\ [Next]_vars => A
  <2> SUFFICES ASSUME IInv, [Next]_vars, NEW a \in Actors, NEW s \in Slugs,
                      ops[a].kind = "saving", HeadRevision(s) # ops[a].id,
                      HeadRevision(s)' = ops[a].id
               PROVE  /\ HeadRevision(s) = ops[a].seen
                      /\ revisions'[ops[a].id].parent = ops[a].seen
    OBVIOUS
  <2>1. Holds(a)
    BY DEF Holds
  <2>2. /\ ops[a].id \in RevIds /\ ~Stored(ops[a].id) /\ ops[a].id # None
        /\ ops[a].row.parent = ops[a].base /\ ops[a].seen = ops[a].base
    BY <2>1, HeldFacts, NoneAssumption DEF IInv, OpShape
  <2>3. ~ImportsHead(s)
    BY DEF ImportsHead
  <2>4. PICK b \in Actors : SavesHead(b, s) \/ AdoptsHead(b, s) \/ ApprovesHead(b, s)
    BY <2>2, <2>3, HeadMoves
  <2>5. ops[b].id = ops[a].id
    BY <2>4 DEF SavesHead, AdoptsHead, ApprovesHead
  <2>6. ~ApprovesHead(b, s)
    BY <2>2, <2>5 DEF ApprovesHead, IInv, OpShape
  <2>7. Holds(b)
    BY <2>4, <2>6 DEF Holds, SavesHead, AdoptsHead
  <2>8. b = a
    BY <2>1, <2>5, <2>7 DEF IInv, OpContinues
  <2>9. SavesHead(a, s)
    BY <2>4, <2>6, <2>8 DEF AdoptsHead
  <2> QED
    BY <2>2, <2>9 DEF SavesHead, IInv, TypeOK
<1>2. IInv /\ [Next]_vars => [A]_vars
  BY <1>1
<1> QED
  BY <1>2, Invariance, PTL DEF Spec, NoLostUpdate

\* The head of a live page only moves to one of its children.
THEOREM HeadForwardCorrect == Spec => HeadOnlyMovesForward
<1> DEFINE A == \A s \in Slugs :
                  LET h == HeadRevision(s)
                      k == HeadRevision(s)'
                  IN (h # None /\ k # None /\ k # h) =>
                         /\ revisions'[k].parent = h
                         /\ pages[s]'.publication = pages[s].publication
<1>1. IInv /\ [Next]_vars => A
  <2> SUFFICES ASSUME IInv, [Next]_vars, NEW s \in Slugs,
                      HeadRevision(s) # None, HeadRevision(s)' # None,
                      HeadRevision(s)' # HeadRevision(s)
               PROVE  /\ revisions'[HeadRevision(s)'].parent = HeadRevision(s)
                      /\ pages'[s].publication = pages[s].publication
    OBVIOUS
  <2>1. PICK b \in Actors : SavesHead(b, s) \/ ApprovesHead(b, s)
    BY HeadMoves DEF AdoptsHead, ImportsHead
  <2>2. /\ HeadRevision(s) \in RevIds /\ Stored(HeadRevision(s))
        /\ revisions[HeadRevision(s)].publication = pages[s].publication
    BY DEF HeadRevision, IInv, TypeOK, HeadRows, HeadMatchesRevision
  <2>3. CASE SavesHead(b, s)
    <3>1. Holds(b)
      BY <2>3 DEF SavesHead, Holds
    <3>2. /\ ops[b].id \in RevIds /\ ops[b].row.parent = ops[b].base
          /\ ops[b].row.publication = revisions[ops[b].base].publication
      BY <2>3, <3>1, HeldFacts DEF SavesHead
    <3> QED
      BY <2>2, <2>3, <3>2 DEF SavesHead, IInv, TypeOK
  <2>4. CASE ApprovesHead(b, s)
    <3>1. ops[b].id \in RevIds /\ Stored(ops[b].id)
      BY <2>4 DEF ApprovesHead, IInv, OpShape
    <3> QED
      BY <2>2, <2>4, <3>1 DEF ApprovesHead, IInv, ParentsPrecede
  <2> QED
    BY <2>1, <2>3, <2>4
<1>2. IInv /\ [Next]_vars => [A]_vars
  BY <1>1
<1> QED
  BY <1>2, Invariance, PTL DEF Spec, HeadOnlyMovesForward

\* A pending proposal lets only itself follow the head it was made on.
THEOREM ProposalPinsCorrect == Spec => PendingProposalPinsHead
<1> DEFINE A == \A s \in Slugs, r \in RevIds :
                  (/\ Stored(r) /\ HeadRevision(s) # None
                   /\ revisions[r].parent = HeadRevision(s)
                   /\ HeadRevision(s)' # HeadRevision(s)) =>
                      HeadRevision(s)' \in {r, None}
<1>1. IInv /\ [Next]_vars => A
  <2> SUFFICES ASSUME IInv, [Next]_vars, NEW s \in Slugs, NEW r \in RevIds,
                      Stored(r), HeadRevision(s) # None,
                      revisions[r].parent = HeadRevision(s),
                      HeadRevision(s)' # HeadRevision(s), HeadRevision(s)' # None
               PROVE  HeadRevision(s)' = r
    OBVIOUS
  <2>1. PICK b \in Actors : SavesHead(b, s) \/ ApprovesHead(b, s)
    BY HeadMoves DEF AdoptsHead, ImportsHead
  <2>2. revisions[r].publication = revisions[HeadRevision(s)].publication
    BY DEF IInv, ParentsPrecede
  <2>3. CASE SavesHead(b, s)
    <3>1. Holds(b)
      BY <2>3 DEF SavesHead, Holds
    <3>2. /\ ops[b].id \in RevIds /\ ~Stored(ops[b].id) /\ ops[b].row # None
          /\ ops[b].row.parent = HeadRevision(s)
          /\ ops[b].row.publication = revisions[HeadRevision(s)].publication
      BY <2>3, <3>1, HeldFacts DEF SavesHead
    <3>3. /\ revisions'[ops[b].id] = ops[b].row /\ revisions'[ops[b].id] # None
          /\ revisions'[r] = revisions[r] /\ revisions'[r] # None
      BY <2>3, <3>2 DEF SavesHead, IInv, TypeOK, Stored
    <3>4. HistoryIsAChain'
      BY NextIInv DEF IInv
    <3>5. r = ops[b].id
      BY <2>2, <3>2, <3>3, <3>4 DEF HistoryIsAChain, Stored
    <3> QED
      BY <3>2, <3>5
  <2>4. CASE ApprovesHead(b, s)
    <3>1. ops[b].id \in RevIds /\ Stored(ops[b].id)
      BY <2>4 DEF ApprovesHead, IInv, OpShape
    <3>2. revisions[ops[b].id].publication = revisions[HeadRevision(s)].publication
      BY <2>4, <3>1 DEF ApprovesHead, IInv, ParentsPrecede
    <3> QED
      BY <2>2, <2>4, <3>1, <3>2 DEF ApprovesHead, IInv, HistoryIsAChain
  <2> QED
    BY <2>1, <2>3, <2>4
<1>2. IInv /\ [Next]_vars => [A]_vars
  BY <1>1
<1> QED
  BY <1>2, Invariance, PTL DEF Spec, PendingProposalPinsHead

-----------------------------------------------------------------------------

\* What the tables show of a page after its head row was replaced.
LEMMA HeadShows ==
    ASSUME IInv, NEW t \in Slugs, NEW head \in HeadRows,
           pages' = [pages EXCEPT ![t] = head], head.revision # None
    PROVE  [s \in Slugs |-> ShownRevision(s)]' =
             [[s \in Slugs |-> ShownRevision(s)] EXCEPT ![t] =
                IF Publishable(t, head.status) THEN head.revision ELSE None]
<1>1. pages'[t] = head /\ head # None /\ (\A s \in Slugs : s # t => pages'[s] = pages[s])
  BY RowsAssumption DEF IInv, TypeOK
<1>2. ShownRevision(t)' = IF Publishable(t, head.status) THEN head.revision ELSE None
  BY <1>1 DEF ShownRevision, HeadRevision
<1>3. \A s \in Slugs : s # t => ShownRevision(s)' = ShownRevision(s)
  BY <1>1 DEF ShownRevision, HeadRevision
<1> QED
  BY <1>2, <1>3

\* A page that gets a revision that was never approved before shows it, with
\* its history, or shows nothing.
LEMMA HeadPromised ==
    ASSUME IInv, NEW t \in Slugs, NEW head \in HeadRows, NEW R \in SUBSET RevIds,
           pages' = [pages EXCEPT ![t] = head], head.revision \in R,
           R \cap approvals = {},
           approvals' = approvals \cup R,
           \A r \in approvals : revisions'[r].slug = revisions[r].slug,
           \A r \in R : revisions'[r].slug = t,
           head.status = "published"
    PROVE  PP!Showing
<1>1. head.revision # None
  BY NoneAssumption
<1>2. CASE t \notin LegacyDraftSlugs
  <2>1. \A r \in RevIds : HomePage(r)' = IF r \in R THEN t ELSE HomePage(r)
    BY <1>2 DEF HomePage
  <2>2. \A r \in R : HomePage(r) = None
    BY DEF HomePage
  <2>3. [s \in Slugs |-> ShownRevision(s)]' =
          [[s \in Slugs |-> ShownRevision(s)] EXCEPT ![t] = head.revision]
    BY <1>1, <1>2, HeadShows DEF Publishable
  <2>4. PP!Show(t, head.revision, R)
    BY <2>1, <2>2, <2>3 DEF PP!Show
  <2> QED
    BY <2>4 DEF PP!Showing
<1>3. CASE t \in LegacyDraftSlugs
  <2>1. \A r \in RevIds : HomePage(r)' = HomePage(r)
    BY <1>3 DEF HomePage
  <2>2. [s \in Slugs |-> ShownRevision(s)]' =
          [[s \in Slugs |-> ShownRevision(s)] EXCEPT ![t] = None]
    BY <1>1, <1>3, HeadShows DEF Publishable
  <2>3. PP!Hide(t)
    BY <2>1, <2>2 DEF PP!Hide
  <2> QED
    BY <2>3 DEF PP!Showing
<1> QED
  BY <1>2, <1>3

\* So does the built revision that a save or an adoption inserts.
LEMMA InsertPromised ==
    ASSUME IInv, NEW a \in Actors, Holds(a),
           revisions' = [revisions EXCEPT ![ops[a].id] = ops[a].row],
           pages' = [pages EXCEPT ![ops[a].slug] =
                       HeadFor(ops[a].id, ops[a].row, ops[a].row.status)],
           approvals' = IF ops[a].row.approvedAt THEN approvals \cup {ops[a].id} ELSE approvals
    PROVE  PP!Showing
<1> DEFINE id == ops[a].id
           row == ops[a].row
           t == ops[a].slug
           head == HeadFor(id, row, row.status)
<1>1. /\ t \in Slugs /\ id \in RevIds /\ ~Stored(id) /\ row \in RevisionRows
      /\ row.slug = t /\ row.approvedAt = Publishable(t, row.status)
  BY HeldFacts
<1>2. head \in HeadRows /\ head.revision = id /\ head.status = row.status /\ id # None
  BY <1>1, NoneAssumption DEF HeadFor, HeadRows, RevisionRows
<1>3. id \notin approvals /\ (\A r \in approvals : revisions'[r].slug = revisions[r].slug)
  BY <1>1 DEF IInv, TypeOK, ApprovalsMatchRevisions
<1>4. revisions'[id].slug = t
  BY <1>1 DEF IInv, TypeOK
<1> HIDE DEF head
<1>5. pages' = [pages EXCEPT ![t] = head]
  BY DEF head
<1>6. CASE row.approvedAt
  <2>1. row.status = "published"
    BY <1>1, <1>6 DEF Publishable
  <2> DEFINE R == {id}
  <2>2. /\ R \in SUBSET RevIds /\ R \cap approvals = {} /\ approvals' = approvals \cup R
        /\ head.revision \in R /\ (\A r \in R : revisions'[r].slug = t)
    BY <1>1, <1>2, <1>3, <1>4, <1>6
  <2>3. head.status = "published" /\ head \in HeadRows /\ t \in Slugs
    BY <1>1, <1>2, <2>1
  <2>4. \A r \in approvals : revisions'[r].slug = revisions[r].slug
    BY <1>3
  <2> HIDE DEF R, id, row, t
  <2> QED
    BY <1>5, <2>2, <2>3, <2>4, HeadPromised
<1>7. CASE ~row.approvedAt
  <2>1. \A r \in RevIds : HomePage(r)' = HomePage(r)
    BY <1>3, <1>7 DEF HomePage
  <2>2. [s \in Slugs |-> ShownRevision(s)]' =
          [[s \in Slugs |-> ShownRevision(s)] EXCEPT ![t] = None]
    BY <1>1, <1>2, <1>5, <1>7, HeadShows
  <2>3. PP!Hide(t)
    BY <2>1, <2>2 DEF PP!Hide
  <2> QED
    BY <1>1, <2>3 DEF PP!Showing
<1> QED
  BY <1>6, <1>7

\* A step that leaves heads and approvals alone shows nothing new.
LEMMA StillShown ==
    ASSUME UNCHANGED <<pages, approvals>>,
           \A r \in approvals : revisions'[r].slug = revisions[r].slug
    PROVE  UNCHANGED PP!public
BY DEF PP!public, ShownRevision, HeadRevision, HomePage

LEMMA ApprovePromised ==
    ASSUME IInv, NEW a \in Actors, CommitApprove(a)
    PROVE  PP!Showing
<1> DEFINE id == ops[a].id
           row == revisions[id]
           head == HeadFor(id, row, "published")
<1>1. /\ ops[a].slug \in Slugs /\ id \in RevIds /\ Stored(id) /\ row.slug = ops[a].slug
      /\ id \notin approvals
  BY DEF CommitApprove, CanApprove, IInv, OpShape
<1>2. row \in RevisionRows
  BY <1>1 DEF IInv, TypeOK, Stored
<1>3. head \in HeadRows /\ head.revision = id /\ head.status = "published"
  BY <1>1, <1>2 DEF HeadFor, HeadRows, RevisionRows, Statuses
<1>4. /\ pages' = [pages EXCEPT ![ops[a].slug] = head]
      /\ approvals' = approvals \cup {id}
      /\ revisions' = revisions
  BY DEF CommitApprove
<1> HIDE DEF head
<1> DEFINE R == {id}
<1>5. /\ R \in SUBSET RevIds /\ R \cap approvals = {} /\ head.revision \in R
      /\ approvals' = approvals \cup R
      /\ \A r \in R : revisions'[r].slug = ops[a].slug
  BY <1>1, <1>3, <1>4
<1>6. \A r \in approvals : revisions'[r].slug = revisions[r].slug
  BY <1>4
<1> HIDE DEF R, id, row
<1> QED
  BY <1>1, <1>3, <1>4, <1>5, <1>6, HeadPromised

LEMMA ImportPromised ==
    ASSUME IInv, NEW t \in Slugs, Import(t)
    PROVE  PP!Showing
<1>1. PICK p \in PubIds, R \in SUBSET {r \in RevIds : FreshRevision(r)} :
        /\ \E no \in [R -> ImportNos], parent \in [R -> R \cup {None}], latest \in R :
             LET row(r) == [publication |-> p, slug |-> t, no |-> no[r],
                            parent |-> parent[r], status |-> "published",
                            approvedAt |-> TRUE]
             IN /\ revisions' = [r \in RevIds |-> IF r \in R THEN row(r) ELSE revisions[r]]
                /\ pages' = [pages EXCEPT ![t] = HeadFor(latest, row(latest), "published")]
        /\ approvals' = approvals \cup R
  BY DEF Import
<1>2. PICK no \in [R -> ImportNos], parent \in [R -> R \cup {None}], latest \in R :
        LET row(r) == [publication |-> p, slug |-> t, no |-> no[r],
                       parent |-> parent[r], status |-> "published",
                       approvedAt |-> TRUE]
        IN /\ revisions' = [r \in RevIds |-> IF r \in R THEN row(r) ELSE revisions[r]]
           /\ pages' = [pages EXCEPT ![t] = HeadFor(latest, row(latest), "published")]
  BY <1>1
<1> DEFINE head == [publication |-> p, revision |-> latest, no |-> no[latest],
                    status |-> "published"]
<1>3. pages' = [pages EXCEPT ![t] = head]
  BY <1>2 DEF HeadFor
<1>4. head \in HeadRows /\ head.revision \in R /\ head.status = "published"
  BY ImportAssumption DEF HeadRows, Statuses
<1>5. \A r \in R : r \in RevIds /\ revisions'[r].slug = t
  BY <1>2
<1>6. \A r \in RevIds : r \notin R => revisions'[r] = revisions[r]
  BY <1>2
<1>7. R \cap approvals = {}
  BY DEF FreshRevision, IInv, ApprovalsMatchRevisions
<1>8. \A r \in approvals : r \in RevIds /\ r \notin R
  BY <1>7 DEF IInv, TypeOK
<1>9. \A r \in approvals : revisions'[r].slug = revisions[r].slug
  BY <1>6, <1>8
<1>10. R \in SUBSET RevIds /\ approvals' = approvals \cup R
  BY <1>1
<1>11. \A r \in R : revisions'[r].slug = t
  BY <1>5
<1> HIDE DEF head
<1> QED
  BY <1>3, <1>4, <1>7, <1>9, <1>10, <1>11, HeadPromised

LEMMA RemovePromised ==
    ASSUME IInv, NEW t \in Slugs, Remove(t)
    PROVE  PP!Showing
<1>1. /\ pages'[t] = None /\ (\A s \in Slugs : s # t => pages'[s] = pages[s])
      /\ UNCHANGED <<revisions, approvals>>
  BY DEF Remove, IInv, TypeOK
<1>2. \A r \in RevIds : HomePage(r)' = HomePage(r)
  BY <1>1 DEF HomePage
<1>3. [s \in Slugs |-> ShownRevision(s)]' =
        [[s \in Slugs |-> ShownRevision(s)] EXCEPT ![t] = None]
  BY <1>1 DEF ShownRevision, HeadRevision
<1>4. PP!Hide(t)
  BY <1>2, <1>3 DEF PP!Hide
<1> QED
  BY <1>4 DEF PP!Showing

\* A step of the store changes the public pages by the rules of PublicPages.
LEMMA StoreStepShows ==
    ASSUME IInv, [Next]_vars
    PROVE  PP!Showing \/ UNCHANGED PP!public
<1>1. CASE UNCHANGED <<pages, revisions, approvals>>
  BY <1>1, StillShown
<1>2. ASSUME NEW a \in Actors, CommitSave(a)
      PROVE  PP!Showing
  <2>1. Holds(a)
    BY <1>2 DEF CommitSave, Holds
  <2> QED
    BY <1>2, <2>1, InsertPromised DEF CommitSave
<1>3. ASSUME NEW a \in Actors, CommitAdopt(a), ~Loaded(ops[a].slug)
      PROVE  PP!Showing
  <2>1. Holds(a)
    BY <1>3 DEF CommitAdopt, Holds
  <2> QED
    BY <1>3, <2>1, InsertPromised DEF CommitAdopt
<1>4. ASSUME NEW a \in Actors, CommitPropose(a)
      PROVE  UNCHANGED PP!public
  <2>1. Holds(a)
    BY <1>4 DEF CommitPropose, Holds
  <2>2. \A r \in approvals : revisions'[r].slug = revisions[r].slug
    BY <1>4, <2>1, HeldFacts DEF CommitPropose, IInv, TypeOK, ApprovalsMatchRevisions
  <2> QED
    BY <1>4, <2>2, StillShown DEF CommitPropose
<1>5. ASSUME NEW a \in Actors, CommitApprove(a)
      PROVE  PP!Showing
  BY <1>5, ApprovePromised
<1>6. ASSUME NEW t \in Slugs, Remove(t) \/ Import(t)
      PROVE  PP!Showing
  BY <1>6, RemovePromised, ImportPromised
<1>7. \/ UNCHANGED <<pages, revisions, approvals>>
      \/ \E a \in Actors : \/ CommitSave(a)
                           \/ CommitAdopt(a) /\ ~Loaded(ops[a].slug)
                           \/ CommitPropose(a)
                           \/ CommitApprove(a)
      \/ \E t \in Slugs : Remove(t) \/ Import(t)
  BY DEF Next, vars, OpenPage, BeginAdopt, BeginApprove, BeginSave, BeginPropose,
         CommitAdopt, RefuseSave, RefusePropose, RefuseApprove, Abandon
<1> QED
  BY <1>1, <1>2, <1>3, <1>4, <1>5, <1>6, <1>7

\* The page store implements PublicPages: a revision becomes public once, and
\* once it is withdrawn or replaced visitors never see it again.
THEOREM PublicPagesKept == Spec => ImplementsPublicPages
<1>1. Init => PP!Nobody
  <2> SUFFICES ASSUME Init
               PROVE  PP!Nobody
    OBVIOUS
  <2>1. \A s \in Slugs : ShownRevision(s) = None
    BY DEF Init, ShownRevision, HeadRevision, LegacyRow
  <2>2. \A r \in RevIds : HomePage(r) = None
    BY DEF Init, HomePage
  <2> QED
    BY <2>1, <2>2 DEF PP!Nobody
<1>2. IInv /\ [Next]_vars => [PP!Showing]_PP!public
  BY StoreStepShows
<1> QED
  BY <1>1, <1>2, Invariance, PTL DEF Spec, ImplementsPublicPages, PP!Shown

-----------------------------------------------------------------------------

\* The publisher of PublishedSite, with what is proved about it.
Pub == INSTANCE PublicationProofs WITH shown <- [s \in Slugs |-> ShownRevision(s)],
                                       home <- [r \in RevIds |-> HomePage(r)]

\* The store keeps its invariant whatever the publisher does.
LEMMA SiteInvariance == SiteSpec => []IInv
<1>1. SiteInit => IInv
  BY InitIInv DEF SiteInit
<1>2. IInv /\ [SiteNext]_siteVars => IInv'
  <2>1. [SiteNext]_siteVars => [Next]_vars
    BY DEF SiteNext, siteVars, vars
  <2> QED
    BY <2>1, NextIInv
<1> QED
  BY <1>1, <1>2, PTL DEF SiteSpec

\* A step of the store is one of the public pages' steps of Publication.
LEMMA StoreStepIsPageStep ==
    ASSUME IInv, Next, UNCHANGED <<runs, branch, jobs>>
    PROVE  (\E s \in Slugs : Site!Approve(s) \/ Site!Withdraw(s)) \/ UNCHANGED Site!vars
<1>1. PP!Showing \/ UNCHANGED PP!public
  BY StoreStepShows
<1>2. CASE UNCHANGED PP!public
  BY <1>2 DEF PP!public, Site!vars
<1>3. ASSUME NEW s \in Slugs, NEW history \in SUBSET RevIds, NEW r \in history,
             PP!Show(s, r, history)
      PROVE  Site!Approve(s)
  <2>1. Site!Show(s, r, history)
    BY <1>3 DEF PP!Show, Site!Show
  <2> QED
    BY <2>1 DEF Site!Approve
<1>4. ASSUME NEW s \in Slugs, PP!Hide(s)
      PROVE  Site!Withdraw(s) \/ UNCHANGED Site!vars
  BY <1>4 DEF PP!Hide, Site!Hide, Site!Withdraw, Site!vars
<1> QED
  BY <1>1, <1>2, <1>3, <1>4 DEF PP!Showing

\* The page store and the publisher together behave as Publication, whose pages
\* are whatever PublicPages allows: what is proved of it holds of this site.
THEOREM SiteImplements == SiteSpec => ImplementsPublication
<1>1. SiteInit => Site!Init
  <2> SUFFICES ASSUME SiteInit
               PROVE  Site!Init
    OBVIOUS
  <2>1. \A s \in Slugs : ShownRevision(s) = None
    BY DEF SiteInit, Init, ShownRevision, HeadRevision, LegacyRow
  <2>2. \A r \in RevIds : HomePage(r) = None
    BY DEF SiteInit, Init, HomePage
  <2> QED
    BY <2>1, <2>2 DEF SiteInit, Site!Init, Site!Nobody
<1>2. IInv /\ [SiteNext]_siteVars => [Site!Next]_(Site!vars)
  <2> SUFFICES ASSUME IInv, [SiteNext]_siteVars
               PROVE  Site!Next \/ UNCHANGED Site!vars
    OBVIOUS
  <2>1. CASE UNCHANGED siteVars
    BY <2>1 DEF siteVars, Site!vars, ShownRevision, HeadRevision, HomePage
  <2>2. CASE Next /\ UNCHANGED <<runs, branch, jobs>>
    BY <2>2, StoreStepIsPageStep DEF Site!Next
  <2>3. CASE Site!Publish
    BY <2>3 DEF Site!Next
  <2> QED
    BY <2>1, <2>2, <2>3 DEF SiteNext
<1> QED
  BY <1>1, <1>2, SiteInvariance, PTL DEF SiteSpec, ImplementsPublication, Site!Spec

\* The assumption of Publication holds of the store's constants.
LEMMA PubAssumption == None \notin RevIds \cup Slugs
BY NoneAssumption

\* Pub is Site under the name its theorems have.
LEMMA SiteIsPub == Site!Spec => Pub!Spec
<1>1. Site!Init => Pub!Init
  BY DEF Site!Init, Pub!Init, Site!Nobody, Pub!Nobody, Site!NewJob, Pub!NewJob,
         Site!Empty, Pub!Empty
<1>2. ASSUME NEW p, Site!Step(p)
      PROVE  Pub!Step(p)
  BY <1>2
  DEF Site!Step, Pub!Step, Site!ReadPage, Pub!ReadPage, Site!KeepsExisting,
      Pub!KeepsExisting, Site!StartRun, Pub!StartRun, Site!RefuseRetry,
      Pub!RefuseRetry, Site!StartRetry, Pub!StartRetry, Site!FilesAfter,
      Pub!FilesAfter, Site!ChildLists,
      Pub!ChildLists, Site!CheckBefore, Pub!CheckBefore, Site!EndBuild,
      Pub!EndBuild, Site!CheckAfter, Pub!CheckAfter, Site!ReadParent,
      Pub!ReadParent, Site!Push, Pub!Push, Site!Finish, Pub!Finish, Site!Fail,
      Pub!Fail, Site!Empty, Pub!Empty, Site!Tombstone, Pub!Tombstone,
      Site!Active, Pub!Active, Site!Settles, Pub!Settles, Site!IsLatestOf,
      Pub!IsLatestOf, Site!IsLatestPublished, Pub!IsLatestPublished,
      Site!ChildSteps, Pub!ChildSteps, Site!HasChild, Pub!HasChild, Site!NewJob,
      Pub!NewJob, Site!DoneJob, Pub!DoneJob, Site!Report, Pub!Report, Site!Goes,
      Pub!Goes, Site!Ends, Pub!Ends, Site!Lists, Pub!Lists, Site!HasRead,
      Pub!HasRead, Site!CanRetry, Pub!CanRetry, Site!Projection, Pub!Projection
<1>3. ASSUME NEW p,
             \/ Site!ArrivePublish(p)
             \/ \E i \in DOMAIN runs : Site!ArriveRetry(p, i)
             \/ Site!StartUnpublish(p)
             \/ Site!RefuseUnpublish(p) \/ Site!StoreFails(p)
      PROVE  \/ Pub!ArrivePublish(p)
             \/ \E i \in DOMAIN runs : Pub!ArriveRetry(p, i)
             \/ Pub!StartUnpublish(p)
             \/ Pub!RefuseUnpublish(p) \/ Pub!StoreFails(p)
  BY <1>3
  DEF Site!ArrivePublish, Pub!ArrivePublish, Site!ArriveRetry, Pub!ArriveRetry,
      Site!StartUnpublish, Pub!StartUnpublish, Site!RefuseUnpublish,
      Pub!RefuseUnpublish, Site!StoreFails, Pub!StoreFails, Site!Empty,
      Pub!Empty, Site!Tombstone, Pub!Tombstone,
      Site!Active, Pub!Active, Site!Settles, Pub!Settles, Site!IsLatestOf,
      Pub!IsLatestOf, Site!IsLatestPublished, Pub!IsLatestPublished,
      Site!ChildSteps, Pub!ChildSteps, Site!HasChild, Pub!HasChild, Site!NewJob,
      Pub!NewJob, Site!DoneJob, Pub!DoneJob, Site!Report, Pub!Report, Site!Goes,
      Pub!Goes, Site!Ends, Pub!Ends, Site!Lists, Pub!Lists, Site!HasRead,
      Pub!HasRead, Site!CanRetry, Pub!CanRetry, Site!Projection, Pub!Projection
<1>4. Site!ServerStop => Pub!ServerStop
  BY DEF Site!ServerStop, Pub!ServerStop, Site!HasChild, Pub!HasChild,
      Site!ChildSteps, Pub!ChildSteps, Site!DoneJob, Pub!DoneJob, Site!NewJob,
      Pub!NewJob, Site!Empty, Pub!Empty
<1>5. ASSUME NEW s, Site!Approve(s) \/ Site!Withdraw(s)
      PROVE  Pub!Approve(s) \/ Pub!Withdraw(s)
  BY <1>5
  DEF Site!Approve, Pub!Approve, Site!Withdraw, Pub!Withdraw, Site!Show,
      Pub!Show, Site!Hide, Pub!Hide
<1>6. [Site!Next]_(Site!vars) => [Pub!Next]_(Pub!vars)
  BY <1>2, <1>3, <1>4, <1>5
  DEF Site!Next, Pub!Next, Site!Publish, Pub!Publish, Site!vars, Pub!vars
<1> QED
  BY <1>1, <1>6, PTL DEF Site!Spec, Pub!Spec

\* Whatever editors, agents, reviewers, importers and administrators do at once,
\* the only revisions of the store the static host ever gets are approved ones of
\* the pages they are served as.
THEOREM HostApprovedCorrect == SiteSpec => []HostShowsApprovedRevisions
<1>1. Pub!Spec => []Pub!HostShowsItsPages /\ []Pub!TypeOK
  BY PubAssumption, Pub!HostCorrect, Pub!TypeCorrect, PTL
<1>2. IInv /\ Pub!HostShowsItsPages /\ Pub!TypeOK => HostShowsApprovedRevisions
  <2> SUFFICES ASSUME IInv, Pub!HostShowsItsPages, Pub!TypeOK, NEW k \in DOMAIN branch,
                      NEW s \in Slugs, branch[k].pages[s] # None
               PROVE  /\ s \notin LegacyDraftSlugs
                      /\ branch[k].pages[s] \in approvals
                      /\ Stored(branch[k].pages[s])
                      /\ revisions[branch[k].pages[s]].slug = s
    BY DEF HostShowsApprovedRevisions
  <2>0. branch[k] \in Pub!Trees
    BY DEF Pub!TypeOK
  <2>1. branch[k].pages \in [Slugs -> RevIds \cup {None}]
    BY <2>0 DEF Pub!Trees, Pub!Snapshots
  <2>2. HomePage(branch[k].pages[s]) = s
    BY <2>1 DEF Pub!HostShowsItsPages, Pub!OfItsPages
  <2> QED
    BY <2>1, <2>2, NoneAssumption DEF HomePage, IInv, ApprovalsMatchRevisions
<1> QED
  BY <1>1, <1>2, SiteImplements, SiteIsPub, SiteInvariance, PTL DEF ImplementsPublication

=============================================================================
