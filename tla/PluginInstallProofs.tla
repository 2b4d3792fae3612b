------------------------- MODULE PluginInstallProofs -------------------------
(* Proofs about PluginInstall, for every value of its constants: the         *)
(* inductive invariant, and that every step keeps the promise of             *)
(* PluginPromise or leaves all it speaks of alone.                            *)
EXTENDS PluginInstall, TLAPS

Steps == {"new", "clear", "meta", "part", "register", "grants", "dropparts", "dropmeta",
          "deactivate", "list", "revoke", "load", "parts", "start", "done"}

\* What the steps below know of a request.
Is(n, at, kind, rel, build, code, seq, caps, known, late, answer) ==
    /\ n.at = at /\ n.kind = kind /\ n.rel = rel /\ n.build = build /\ n.code = code
    /\ n.seq = seq /\ n.caps = caps /\ n.known = known /\ n.late = late /\ n.answer = answer

\* All that the invariant says of one request and its stores.
Fine(q) ==
    /\ Begun(q)
    /\ ~q.late => InstallGoes(q) /\ RemovalGoes(q)
    /\ q.answer = "ok" /\ ~q.late => AnswerIsTrue(q)

\* Request x is the same after a step, but for having been overtaken.
Alike(x) ==
    /\ req'[x].at = req[x].at /\ req'[x].kind = req[x].kind /\ req'[x].rel = req[x].rel
    /\ req'[x].build = req[x].build /\ req'[x].code = req[x].code /\ req'[x].seq = req[x].seq
    /\ req'[x].caps = req[x].caps /\ req'[x].known = req[x].known /\ req'[x].answer = req[x].answer

\* n is an install of the same build if q is one, and only then.
SameInstall(n, q) ==
    /\ n.kind = "install" <=> q.kind = "install"
    /\ q.kind = "install" => n.rel = q.rel /\ n.build = q.build

\* What q grants and prunes, when it is the request that registered the release.
Prunes(q, row, caps) ==
    /\ q.kind = "install"
    /\ q.at \notin {"new", "clear", "meta", "part", "register"}
    /\ q.at = "revoke" => caps \subseteq CapsOf[q.build] \cup row.given \cup q.caps
    /\ q.answer = "ok" => caps \subseteq CapsOf[q.build] \cup row.given

Rows == [rel : Releases \cup {None}, active : BOOLEAN, by : Requests \cup {None}, given : SUBSET Caps]

\* The step keeps the promise.
Simulates == [Promised!Keeping]_(Promised!promised)

----------------------------------------------------------------------------
(* The records of requests *)

LEMMA NewShape ==
    New \in Requested /\ Is(New, "new", "none", None, None, None, 0, {}, FALSE, FALSE, "none")
<1>1. 0 \in 0..MaxParts BY PartsAssumption
<1>. QED BY <1>1 DEF New, Requested, Is

LEMMA GoShape ==
    ASSUME NEW q \in Requested, NEW at \in Steps, NEW n, n = [q EXCEPT !.at = at]
    PROVE  n \in Requested /\ Is(n, at, q.kind, q.rel, q.build, q.code, q.seq, q.caps, q.known, q.late, q.answer)
<1>1. n \in Requested /\ n.at = at /\ n.kind = q.kind /\ n.rel = q.rel /\ n.build = q.build /\ n.code = q.code
  BY DEF Requested, Steps
<1>2. n.seq = q.seq /\ n.caps = q.caps /\ n.answer = q.answer BY DEF Requested
<1>3. n.known = q.known BY Zenon DEF Requested
<1>4. n.late = q.late BY Zenon DEF Requested
<1>. QED BY <1>1, <1>2, <1>3, <1>4 DEF Is

LEMMA EndShape ==
    ASSUME NEW q \in Requested, NEW answer \in {"refused", "ok", "failed"}, NEW n,
           n = [q EXCEPT !.at = "done", !.answer = answer]
    PROVE  n \in Requested /\ Is(n, "done", q.kind, q.rel, q.build, q.code, q.seq, q.caps, q.known, q.late, answer)
<1>1. n \in Requested /\ n.at = "done" /\ n.kind = q.kind /\ n.rel = q.rel /\ n.build = q.build /\ n.code = q.code
  BY DEF Requested
<1>2. n.seq = q.seq /\ n.caps = q.caps /\ n.answer = answer BY DEF Requested
<1>3. n.known = q.known BY Zenon DEF Requested
<1>4. n.late = q.late BY Zenon DEF Requested
<1>. QED BY <1>1, <1>2, <1>3, <1>4 DEF Is

LEMMA CapsShape ==
    ASSUME NEW q \in Requested, NEW caps \in SUBSET Caps, NEW n, n = [q EXCEPT !.caps = caps]
    PROVE  n \in Requested /\ Is(n, q.at, q.kind, q.rel, q.build, q.code, q.seq, caps, q.known, q.late, q.answer)
<1>1. n \in Requested /\ n.at = q.at /\ n.kind = q.kind /\ n.rel = q.rel /\ n.build = q.build /\ n.code = q.code
  BY DEF Requested
<1>2. n.seq = q.seq /\ n.caps = caps /\ n.answer = q.answer BY DEF Requested
<1>3. n.known = q.known BY Zenon DEF Requested
<1>4. n.late = q.late BY Zenon DEF Requested
<1>. QED BY <1>1, <1>2, <1>3, <1>4 DEF Is

LEMMA FindShape ==
    ASSUME NEW q \in Requested, NEW caps \in SUBSET Caps, NEW n, n = [q EXCEPT !.caps = caps, !.at = "revoke"]
    PROVE  n \in Requested /\ Is(n, "revoke", q.kind, q.rel, q.build, q.code, q.seq, caps, q.known, q.late, q.answer)
<1>1. n \in Requested /\ n.at = "revoke" /\ n.kind = q.kind /\ n.rel = q.rel /\ n.build = q.build /\ n.code = q.code
  BY DEF Requested
<1>2. n.seq = q.seq /\ n.caps = caps /\ n.answer = q.answer BY DEF Requested
<1>3. n.known = q.known BY Zenon DEF Requested
<1>4. n.late = q.late BY Zenon DEF Requested
<1>. QED BY <1>1, <1>2, <1>3, <1>4 DEF Is

LEMMA PartShape ==
    ASSUME NEW q \in Requested, NEW seq \in 0..MaxParts, NEW at \in Steps, NEW n, n = [q EXCEPT !.seq = seq, !.at = at]
    PROVE  n \in Requested /\ Is(n, at, q.kind, q.rel, q.build, q.code, seq, q.caps, q.known, q.late, q.answer)
<1>1. n \in Requested /\ n.at = at /\ n.kind = q.kind /\ n.rel = q.rel /\ n.build = q.build /\ n.code = q.code
  BY DEF Requested, Steps
<1>2. n.seq = seq /\ n.caps = q.caps /\ n.answer = q.answer BY DEF Requested
<1>3. n.known = q.known BY Zenon DEF Requested
<1>4. n.late = q.late BY Zenon DEF Requested
<1>. QED BY <1>1, <1>2, <1>3, <1>4 DEF Is

\* Whatever a step makes of request r, the others are alike afterwards.
LEMMA BecomesShape ==
    ASSUME TypeOK, NEW r \in Requests, NEW n \in Requested, req' = [req EXCEPT ![r] = n]
    PROVE  /\ req' \in [Requests -> Requested] /\ req'[r] = n
           /\ \A x \in Requests \ {r} : req'[x] = req[x] /\ Alike(x)
  BY DEF TypeOK, Alike

LEMMA LateShape ==
    ASSUME NEW q \in Requested, NEW B \in BOOLEAN, NEW n, n = [q EXCEPT !.late = B]
    PROVE  /\ n \in Requested /\ Is(n, q.at, q.kind, q.rel, q.build, q.code, q.seq, q.caps, q.known, B, q.answer)
           /\ B = q.late => n = q
<1>0. ASSUME B = q.late PROVE n = q BY <1>0, Zenon DEF Requested
<1>1. n \in Requested /\ n.at = q.at /\ n.kind = q.kind /\ n.rel = q.rel /\ n.build = q.build /\ n.code = q.code
  BY DEF Requested
<1>2. n.seq = q.seq /\ n.caps = q.caps /\ n.answer = q.answer BY DEF Requested
<1>3. n.known = q.known BY Zenon DEF Requested
<1>4. n.late = B BY Zenon DEF Requested
<1>. QED BY <1>0, <1>1, <1>2, <1>3, <1>4 DEF Is

LEMMA WritesShape ==
    ASSUME TypeOK, RequestsGoOn, NEW r, NEW n \in Requested, Writes(r, n)
    PROVE  /\ req' \in [Requests -> Requested] /\ (r \in Requests => req'[r] = n)
           /\ \A x \in Requests \ {r} : /\ Alike(x)
                                        /\ req[x].kind \in {"install", "uninstall"} => req'[x].late
                                        /\ req[x].kind \notin {"install", "uninstall"} => req'[x] = req[x]
<1>0. req \in [Requests -> Requested] BY DEF TypeOK
<1>1. ASSUME NEW x \in Requests \ {r}
      PROVE  /\ req'[x] \in Requested /\ Alike(x)
             /\ req[x].kind \in {"install", "uninstall"} => req'[x].late
             /\ req[x].kind \notin {"install", "uninstall"} => req'[x] = req[x]
  <2>. DEFINE B == req[x].late \/ req[x].kind \in {"install", "uninstall"}
  <2>1. req[x].late \in BOOLEAN /\ req[x] \in Requested BY <1>0 DEF Requested
  <2>2. B \in BOOLEAN BY <2>1
  <2>3. req'[x] = [req[x] EXCEPT !.late = B] BY <1>0 DEF Writes
  <2>4. /\ req[x].kind \in {"install", "uninstall"} => B
        /\ req[x].kind \notin {"install", "uninstall"} => (B <=> req[x].late)
    OBVIOUS
  <2>. HIDE DEF B
  <2>5. /\ req'[x] \in Requested
        /\ Is(req'[x], req[x].at, req[x].kind, req[x].rel, req[x].build, req[x].code, req[x].seq,
              req[x].caps, req[x].known, B, req[x].answer)
        /\ B = req[x].late => req'[x] = req[x]
    BY <2>1, <2>2, <2>3, LateShape
  <2>6. req[x].kind \notin {"install", "uninstall"} => B = req[x].late
    BY <2>1, <2>2, <2>4
  <2>. QED BY <2>4, <2>5, <2>6 DEF Alike, Is
<1>2. r \in Requests => req'[r] = n BY DEF Writes
<1>3. req' \in [Requests -> Requested] BY <1>1, <1>2 DEF Writes
<1>. QED BY <1>1, <1>2, <1>3

\* The number of the part that an install stores next.
LEMMA PartIsNext ==
    ASSUME IInv, NEW r \in Requests, req[r].at = "part"
    PROVE  /\ req[r].seq \in 0..(MaxParts - 1) /\ req[r].seq + 1 \in 0..MaxParts
           /\ PartsOf[CodeOf[req[r].build]] \in 1..MaxParts /\ req[r].build \in Builds
           /\ CodeOf[req[r].build] \in Codes /\ req[r].seq < PartsOf[CodeOf[req[r].build]]
<1>1. req[r] \in Requested BY DEF IInv, TypeOK
<1>2. Begun(req[r]) BY DEF IInv, RequestsGoOn
<1>3. req[r].seq \in 0..MaxParts BY <1>1 DEF Requested
<1>4. req[r].build \in Builds /\ req[r].seq < PartsOf[CodeOf[req[r].build]]
  BY <1>2 DEF Begun, InstallSteps
<1>5. CodeOf[req[r].build] \in Codes BY <1>4 DEF Codes
<1>. QED BY <1>3, <1>4, <1>5, PartsAssumption

----------------------------------------------------------------------------
(* What was accepted *)

LEMMA AcceptedGrows ==
    ASSUME \A x \in Requests : req[x].kind = "install" =>
               req'[x].kind = "install" /\ req'[x].rel = req[x].rel /\ req'[x].build = req[x].build
    PROVE  Accepted \subseteq Accepted'
  BY DEF Accepted

LEMMA AcceptedStays ==
    ASSUME NEW r \in Requests, SameInstall(req'[r], req[r]), \A x \in Requests \ {r} : Alike(x)
    PROVE  Accepted' = Accepted
<1>1. \A x \in Requests : SameInstall(req'[x], req[x])
  BY DEF SameInstall, Alike
<1>. QED BY <1>1 DEF Accepted, SameInstall

\* A step that runs nothing, accepts nothing and grants nothing is none of the promise.
LEMMA SilentStep ==
    ASSUME NEW r \in Requests, NEW n, req'[r] = n, SameInstall(n, req[r]), grants' = grants,
           \A x \in Requests \ {r} : Alike(x), Ran(n) = Ran(req[r])
    PROVE  Simulates
<1>1. Accepted' = Accepted BY AcceptedStays
<1>2. \A x \in Requests : Ran(req'[x]) = Ran(req[x])
  BY DEF Alike, Ran
<1>3. [x \in Requests |-> Ran(req[x])]' = [x \in Requests |-> Ran(req[x])]
  BY <1>2
<1>. QED BY <1>1, <1>3 DEF Simulates, Promised!promised

LEMMA RevokeStep ==
    ASSUME NEW r \in Requests, NEW n, req'[r] = n, SameInstall(n, req[r]),
           \A x \in Requests \ {r} : Alike(x), Ran(n) = Ran(req[r]), NEW c \in Caps, grants' = grants \ {c}
    PROVE  Simulates
<1>1. Accepted' = Accepted BY AcceptedStays
<1>2. \A x \in Requests : Ran(req'[x]) = Ran(req[x])
  BY DEF Alike, Ran
<1>3. [x \in Requests |-> Ran(req[x])]' = [x \in Requests |-> Ran(req[x])]
  BY <1>2
<1>4. Promised!Take(c) BY <1>1, <1>3 DEF Promised!Take
<1>. QED BY <1>4 DEF Simulates, Promised!Keeping

----------------------------------------------------------------------------
(* The rest of the invariant, once request r is fine *)

LEMMA Parts == IInv <=> /\ TypeOK /\ StoredWasAccepted
                        /\ \A r \in Requests : Fine(req[r])
                        /\ registry.by # None => Prunes(req[registry.by], registry, grants)
                        /\ registry.by = None => registry.rel = None /\ ~registry.active
                        /\ registry.active => registry.rel \in Releases
  BY DEF IInv, RequestsGoOn, SettledIsTrue, Fine, PruningIsUnderWay, GrantsArePruned, Prunes

\* A step that writes nothing but request r and, if r has registered the release, the
\* capabilities given since.
LEMMA CalmKeeps ==
    ASSUME IInv, NEW r \in Requests, NEW n \in Requested, req' = [req EXCEPT ![r] = n],
           UNCHANGED <<backend, meta, parts, grants>>, registry' \in Rows,
           registry'.rel = registry.rel, registry'.active = registry.active, registry'.by = registry.by,
           registry.by # r => registry' = registry,
           req[r].kind = "install" => SameInstall(n, req[r]),
           Fine(req[r])',
           n.at \in {"parts", "start"} => <<n.rel, n.build>> \in Accepted,
           n.at = "start" => n.code = CodeOf[n.build],
           registry.by = r => Prunes(n, registry', grants)
    PROVE  IInv'
<1>1. req' \in [Requests -> Requested] /\ req'[r] = n /\ \A x \in Requests \ {r} : req'[x] = req[x] /\ Alike(x)
  BY BecomesShape DEF IInv
<1>2. Accepted \subseteq Accepted'
  <2>1. \A x \in Requests : req[x].kind = "install" =>
          req'[x].kind = "install" /\ req'[x].rel = req[x].rel /\ req'[x].build = req[x].build
    BY <1>1 DEF SameInstall
  <2>. QED BY <2>1, AcceptedGrows
<1>3. TypeOK' BY <1>1 DEF IInv, TypeOK, Rows
<1>4. StoredWasAccepted' BY <1>1, <1>2 DEF IInv, StoredWasAccepted
<1>5. ASSUME NEW x \in Requests \ {r} PROVE Fine(req[x])'
  <2>1. Fine(req[x]) BY Parts
  <2>2. req'[x] = req[x] /\ UNCHANGED <<meta, parts, grants, registry.rel, registry.active>>
    BY <1>1
  <2>3. Begun(req[x])' <=> Begun(req[x])
    BY <2>2 DEF Begun
  <2>4. InstallGoes(req[x])' <=> InstallGoes(req[x])
    BY <2>2 DEF InstallGoes, Agrees, Whole, Joined
  <2>5. RemovalGoes(req[x])' <=> RemovalGoes(req[x])
    BY <2>2 DEF RemovalGoes
  <2>6. AnswerIsTrue(req[x])' <=> AnswerIsTrue(req[x])
    BY <2>2 DEF AnswerIsTrue, Whole, Joined
  <2>. QED
    BY <2>1, <2>2, <2>3, <2>4, <2>5, <2>6 DEF Fine
<1>6. registry'.by # None => Prunes(req'[registry'.by], registry', grants')
  BY <1>1, Parts DEF IInv, TypeOK
<1>7. (registry'.by = None => registry'.rel = None /\ ~registry'.active) /\ (registry'.active => registry'.rel \in Releases)
  BY Parts
<1>8. (\A x \in Requests : Fine(req[x]))' BY <1>5
<1>. QED BY <1>3, <1>4, <1>6, <1>7, <1>8 DEF IInv, RequestsGoOn, SettledIsTrue, Fine, PruningIsUnderWay,
     GrantsArePruned, Prunes

\* A write: every other install and removal has been overtaken.
LEMMA WriteKeeps ==
    ASSUME IInv, NEW r \in Requests, NEW n \in Requested, Writes(r, n), UNCHANGED backend,
           meta' \in [Releases -> Builds \cup {None}],
           parts' \in [Releases -> [0..(MaxParts - 1) -> Codes \cup {None}]],
           registry' \in Rows, grants' \in SUBSET Caps,
           SameInstall(n, req[r]), n.at \notin {"parts", "start"},
           Fine(req[r])',
           \A rel \in Releases : meta'[rel] # None => meta'[rel] = meta[rel] \/ <<rel, meta'[rel]>> \in Accepted,
           registry'.by # r => registry'.by = registry.by,
           \A d \in grants' : d \in grants /\ (d \in registry.given => registry'.by = r \/ d \in registry'.given),
           registry'.by = None => registry'.rel = None /\ ~registry'.active,
           registry'.active => registry'.rel \in Releases,
           registry'.by = r => Prunes(n, registry', grants')
    PROVE  IInv'
<1>1. /\ req' \in [Requests -> Requested] /\ req'[r] = n
      /\ \A x \in Requests \ {r} : /\ Alike(x)
                                   /\ req[x].kind \in {"install", "uninstall"} => req'[x].late
                                   /\ req[x].kind \notin {"install", "uninstall"} => req'[x] = req[x]
  BY WritesShape DEF IInv
<1>2. Accepted' = Accepted BY <1>1, AcceptedStays
<1>3. TypeOK' BY <1>1 DEF IInv, TypeOK, Rows
<1>4. StoredWasAccepted' BY <1>1, <1>2 DEF IInv, StoredWasAccepted, Alike
<1>5. ASSUME NEW x \in Requests \ {r} PROVE Fine(req[x])'
  <2>1. Fine(req[x]) BY Parts
  <2>2. Begun(req'[x])
    <3>1. CASE req[x].at # "new"
      BY <3>1, <1>1, <2>1 DEF Alike, Fine, Begun
    <3>2. CASE req[x].at = "new"
      BY <3>2, <1>1, <2>1, NewShape DEF Fine, Begun, Is
    <3>. QED BY <3>1, <3>2
  <2>3. CASE req[x].kind \in {"install", "uninstall"}
    BY <2>3, <2>2, <1>1 DEF Fine, Begun
  <2>4. CASE req[x].kind \notin {"install", "uninstall"}
    BY <2>4, <2>2, <1>1 DEF Fine, Begun, InstallGoes, RemovalGoes, AnswerIsTrue
  <2>. QED BY <2>3, <2>4
<1>6. registry'.by # None => Prunes(req'[registry'.by], registry', grants')
  <2>1. CASE registry'.by = r
    BY <2>1, <1>1
  <2>2. ASSUME registry'.by # r, registry'.by # None
        PROVE  Prunes(req'[registry'.by], registry', grants')
    <3>. DEFINE x == registry.by
    <3>1. x \in Requests \ {r} /\ registry'.by = x
      <4>1. registry'.by = registry.by BY <2>2
      <4>2. registry \in Rows BY DEF IInv, TypeOK, Rows
      <4>. QED BY <4>1, <4>2, <2>2 DEF Rows
    <3>2. Prunes(req[x], registry, grants) /\ Alike(x) BY <3>1, <1>1, Parts, NoneAssumption
    <3>3. \A d \in grants' : d \in grants /\ (d \in registry.given => d \in registry'.given) BY <3>1
    <3>. QED BY <3>1, <3>2, <3>3 DEF Prunes, Alike
  <2>. QED BY <2>1, <2>2
<1>7. (\A x \in Requests : Fine(req[x]))' BY <1>5
<1>. QED BY <1>3, <1>4, <1>6, <1>7 DEF IInv, RequestsGoOn, SettledIsTrue, Fine, PruningIsUnderWay,
     GrantsArePruned, Prunes

----------------------------------------------------------------------------
(* Each action keeps the invariant and the promise *)


LEMMA BeginInstallKeeps ==
    ASSUME IInv, NEW r \in Requests, NEW rel \in Releases, NEW b \in Builds, BeginInstall(r, rel, b), UNCHANGED backend
    PROVE  IInv' /\ Simulates
<1>1. CASE Agrees(rel, b)
  <2>. DEFINE n == [New EXCEPT !.at = "clear", !.kind = "install", !.rel = rel, !.build = b]
  <2>1. n \in Requested /\ Is(n, "clear", "install", rel, b, None, 0, {}, FALSE, FALSE, "none")
    <3>1. 0 \in 0..MaxParts BY PartsAssumption
    <3>2. n \in Requested /\ n.at = "clear" /\ n.kind = "install" /\ n.rel = rel /\ n.build = b /\ n.code = None
      BY <1>1, <3>1 DEF New, Requested, IInv, TypeOK
    <3>3. n.seq = 0 /\ n.caps = {} /\ n.answer = "none" BY DEF New
    <3>4. n.known = (FALSE) /\ n.late = FALSE BY Zenon DEF New
    <3>. QED BY <3>2, <3>3, <3>4 DEF Is
  <2>2. req' = [req EXCEPT ![r] = n] /\ req[r].at = "new"
    BY <1>1, Zenon DEF BeginInstall, At, Becomes, Ended
  <2>. HIDE DEF n
  <2>3. req'[r] = n /\ \A x \in Requests \ {r} : Alike(x)
    BY <2>1, <2>2, BecomesShape DEF IInv
  <2>4. Fine(req[r]) /\ req[r] \in Requested
    BY Parts DEF IInv, TypeOK
  <2>5. Fine(req[r])'
    BY <1>1, <2>1, <2>2, <2>3, <2>4, NewShape, NoneAssumption
       DEF Is, BeginInstall, Fine, Begun, InstallGoes, RemovalGoes, AnswerIsTrue, InstallSteps, RemoveSteps,
         RunSteps, Agrees
  <2>6. IInv'
    <3>1. req[r].kind = "install" => SameInstall(n, req[r])
      BY <1>1, <2>1, <2>2, <2>3, <2>4, NewShape DEF Is, Fine, Begun, InstallSteps, RemoveSteps, RunSteps,
           SameInstall
    <3>2. UNCHANGED <<backend, meta, parts, grants>>
      BY <1>1, Zenon DEF BeginInstall
    <3>3. registry \in Rows
      BY DEF IInv, TypeOK, Rows
    <3>4. registry' \in Rows /\ registry'.rel = registry.rel /\ registry'.by = registry.by
      BY <3>3, <1>1, Zenon DEF BeginInstall
    <3>5. registry'.active = registry.active /\ (registry.by # r => registry' = registry)
      BY <3>3, Zenon DEF BeginInstall, Rows
    <3>6. n.at \in {"parts", "start"} => <<n.rel, n.build>> \in Accepted
      BY <1>1, <2>1, <2>2, <2>3, <2>4 DEF Is, Fine, Begun, InstallSteps, RemoveSteps, RunSteps,
           StoredWasAccepted, IInv
    <3>7. n.at = "start" => n.code = CodeOf[n.build]
      BY <1>1, <2>1, <2>2, <2>3, <2>4 DEF Is, Fine, Begun, InstallSteps, RemoveSteps, RunSteps,
           StoredWasAccepted, IInv
    <3>8. registry.by = r => Prunes(n, registry', grants)
      BY <1>1, <2>1, <2>2, <2>3, <2>4, <3>3, Parts, NoneAssumption, NewShape
         DEF Is, Fine, Begun, InstallSteps, RemoveSteps, RunSteps, Prunes, BeginInstall, Rows
    <3>. QED BY <2>1, <2>2, <2>3, <2>4, <2>5, <3>1, <3>2, <3>3, <3>4, <3>5, <3>6, <3>7, <3>8, CalmKeeps
  <2>7. \A x \in Requests : Ran(req'[x]) = Ran(req[x])
    BY <1>1, <2>1, <2>2, <2>3, <2>4, NewShape DEF Is, Fine, Begun, Ran, Alike
  <2>8. [x \in Requests |-> Ran(req[x])]' = [x \in Requests |-> Ran(req[x])]
    BY <2>7
  <2>9. Accepted' = Accepted \cup {<<rel, b>>}
    <3>1. req'[r].kind = "install" /\ req'[r].rel = rel /\ req'[r].build = b /\ req[r].kind # "install"
      BY <2>1, <2>2, <2>3, <2>4, NewShape DEF Is, Fine, Begun
    <3>. QED BY <3>1, <2>3 DEF Accepted, Alike
  <2>10. Promised!Accept(rel, b)
    BY <1>1, <2>8, <2>9 DEF Promised!Accept, BeginInstall
  <2>. QED BY <2>6, <2>10 DEF Simulates, Promised!Keeping
<1>2. CASE ~Agrees(rel, b)
  <2>. DEFINE n == [req[r] EXCEPT !.at = "done", !.answer = "refused"]
  <2>1. n \in Requested /\ Is(n, "done", req[r].kind, req[r].rel, req[r].build, req[r].code, req[r].seq, req[r].caps, req[r].known, req[r].late, "refused")
    BY <1>2, EndShape DEF Requested, Steps, IInv, TypeOK, BeginInstall
  <2>2. req' = [req EXCEPT ![r] = n] /\ req[r].at = "new"
    BY <1>2, Zenon DEF BeginInstall, At, Becomes, Ended
  <2>. HIDE DEF n
  <2>3. req'[r] = n /\ \A x \in Requests \ {r} : Alike(x)
    BY <2>1, <2>2, BecomesShape DEF IInv
  <2>4. Fine(req[r]) /\ req[r] \in Requested
    BY Parts DEF IInv, TypeOK
  <2>5. Fine(req[r])'
    BY <1>2, <2>1, <2>2, <2>3, <2>4, NewShape, NoneAssumption
       DEF Is, BeginInstall, Fine, Begun, InstallGoes, RemovalGoes, AnswerIsTrue, InstallSteps, RemoveSteps,
         RunSteps
  <2>6. IInv'
    <3>1. req[r].kind = "install" => SameInstall(n, req[r])
      BY <1>2, <2>1, <2>2, <2>3, <2>4, NewShape DEF Is, Fine, Begun, InstallSteps, RemoveSteps, RunSteps,
           SameInstall
    <3>2. UNCHANGED <<backend, meta, parts, grants>>
      BY <1>2, Zenon DEF BeginInstall
    <3>3. registry \in Rows
      BY DEF IInv, TypeOK, Rows
    <3>4. registry' \in Rows /\ registry'.rel = registry.rel /\ registry'.by = registry.by
      BY <3>3, <1>2, Zenon DEF BeginInstall
    <3>5. registry'.active = registry.active /\ (registry.by # r => registry' = registry)
      BY <3>3, Zenon DEF BeginInstall, Rows
    <3>6. n.at \in {"parts", "start"} => <<n.rel, n.build>> \in Accepted
      BY <1>2, <2>1, <2>2, <2>3, <2>4 DEF Is, Fine, Begun, InstallSteps, RemoveSteps, RunSteps,
           StoredWasAccepted, IInv
    <3>7. n.at = "start" => n.code = CodeOf[n.build]
      BY <1>2, <2>1, <2>2, <2>3, <2>4 DEF Is, Fine, Begun, InstallSteps, RemoveSteps, RunSteps,
           StoredWasAccepted, IInv
    <3>8. registry.by = r => Prunes(n, registry', grants)
      BY <1>2, <2>1, <2>2, <2>3, <2>4, <3>3, Parts, NoneAssumption, NewShape
         DEF Is, Fine, Begun, InstallSteps, RemoveSteps, RunSteps, Prunes, BeginInstall, Rows
    <3>. QED BY <2>1, <2>2, <2>3, <2>4, <2>5, <3>1, <3>2, <3>3, <3>4, <3>5, <3>6, <3>7, <3>8, CalmKeeps
  <2>7. SameInstall(n, req[r]) /\ Ran(n) = Ran(req[r])
    BY <1>2, <2>1, <2>2, <2>4, NewShape DEF Is, Fine, Begun, InstallSteps, RemoveSteps, RunSteps, SameInstall,
         Ran, BeginInstall
  <2>8. Simulates
    BY <1>2, <2>3, <2>7, SilentStep DEF BeginInstall
  <2>. QED BY <2>6, <2>8
<1>. QED BY <1>1, <1>2

LEMMA ClearPartsKeeps ==
    ASSUME IInv, NEW r \in Requests, ClearParts(r), UNCHANGED backend
    PROVE  IInv' /\ Simulates
<1>. DEFINE n == [req[r] EXCEPT !.at = "meta"]
<1>1. n \in Requested /\ Is(n, "meta", req[r].kind, req[r].rel, req[r].build, req[r].code, req[r].seq, req[r].caps, req[r].known, req[r].late, req[r].answer)
  BY GoShape DEF Requested, Steps, IInv, TypeOK, ClearParts
<1>2. Writes(r, n) /\ req[r].at = "clear"
  BY Zenon DEF ClearParts, At, Becomes, Ended
<1>. HIDE DEF n
<1>3. req'[r] = n /\ \A x \in Requests \ {r} : Alike(x)
  BY <1>1, <1>2, WritesShape DEF IInv
<1>4. Fine(req[r]) /\ req[r] \in Requested
  BY Parts DEF IInv, TypeOK
<1>5. Fine(req[r])'
  BY <1>1, <1>2, <1>3, <1>4, NoneAssumption DEF Is, ClearParts, Fine, Begun, InstallGoes, RemovalGoes,
       AnswerIsTrue, InstallSteps, RemoveSteps, RunSteps, Agrees, IInv, TypeOK
<1>6. IInv'
  <2>1. SameInstall(n, req[r]) /\ n.at \notin {"parts", "start"}
    BY <1>1, <1>2, <1>3, <1>4 DEF Is, Fine, Begun, InstallSteps, RemoveSteps, RunSteps, SameInstall
  <2>2. registry \in Rows /\ grants \in SUBSET Caps
    BY DEF IInv, TypeOK, Rows
  <2>3. meta' \in [Releases -> Builds \cup {None}]
    BY <1>1, <1>2, <1>3, <1>4 DEF ClearParts, Is, Fine, Begun, InstallSteps, RemoveSteps, RunSteps, IInv,
         TypeOK
  <2>4. parts' \in [Releases -> [0..(MaxParts - 1) -> Codes \cup {None}]]
    BY <1>1, <1>2, <1>3, <1>4 DEF ClearParts, Is, Fine, Begun, InstallSteps, RemoveSteps, RunSteps, IInv,
         TypeOK, Empty, Codes
  <2>5. registry' \in Rows /\ grants' \in SUBSET Caps
    BY <1>1, <1>2, <1>3, <1>4, <2>2 DEF ClearParts, Is, Fine, Begun, InstallSteps, RemoveSteps, RunSteps, Rows
  <2>6. \A rel \in Releases : meta'[rel] # None => meta'[rel] = meta[rel] \/ <<rel, meta'[rel]>> \in Accepted
    BY <1>1, <1>2, <1>3, <1>4 DEF ClearParts, Is, Fine, Begun, InstallSteps, RemoveSteps, RunSteps, IInv,
         TypeOK, Accepted
  <2>7. registry'.by # r => registry'.by = registry.by
    BY <2>2 DEF ClearParts, Rows
  <2>8. \A d \in grants' : d \in grants /\ (d \in registry.given => registry'.by = r \/ d \in registry'.given)
    BY <2>2 DEF ClearParts, Rows
  <2>9. (registry'.by = None => registry'.rel = None /\ ~registry'.active) /\ (registry'.active => registry'.rel \in Releases)
    BY <1>1, <1>2, <1>3, <1>4, <2>2, Parts, NoneAssumption DEF ClearParts, Is, Fine, Begun, InstallSteps,
         RemoveSteps, RunSteps, Rows
  <2>10. registry'.by = r => Prunes(n, registry', grants')
    BY <1>1, <1>2, <1>3, <1>4, <2>2, Parts, NoneAssumption DEF ClearParts, Is, Fine, Begun, InstallSteps,
         RemoveSteps, RunSteps, Prunes, Rows
  <2>11. UNCHANGED backend OBVIOUS
  <2>. QED BY <1>1, <1>2, <1>3, <1>4, <1>5, <2>1, <2>3, <2>4, <2>5, <2>6, <2>7, <2>8, <2>9, <2>10, <2>11, WriteKeeps
<1>7. SameInstall(n, req[r]) /\ Ran(n) = Ran(req[r])
  BY <1>1, <1>2, <1>4, NewShape DEF Is, Fine, Begun, InstallSteps, RemoveSteps, RunSteps, SameInstall, Ran,
       ClearParts
<1>8. Simulates
  BY <1>3, <1>7, SilentStep DEF ClearParts
<1>. QED BY <1>6, <1>8

LEMMA StoreMetaKeeps ==
    ASSUME IInv, NEW r \in Requests, StoreMeta(r), UNCHANGED backend
    PROVE  IInv' /\ Simulates
<1>. DEFINE n == [req[r] EXCEPT !.at = "part"]
<1>1. n \in Requested /\ Is(n, "part", req[r].kind, req[r].rel, req[r].build, req[r].code, req[r].seq, req[r].caps, req[r].known, req[r].late, req[r].answer)
  BY GoShape DEF Requested, Steps, IInv, TypeOK, StoreMeta
<1>2. Writes(r, n) /\ req[r].at = "meta"
  BY Zenon DEF StoreMeta, At, Becomes, Ended
<1>. HIDE DEF n
<1>3. req'[r] = n /\ \A x \in Requests \ {r} : Alike(x)
  BY <1>1, <1>2, WritesShape DEF IInv
<1>4. Fine(req[r]) /\ req[r] \in Requested
  BY Parts DEF IInv, TypeOK
<1>5. Fine(req[r])'
  <2>1. Begun(req'[r])
    BY <1>1, <1>2, <1>3, <1>4, Parts, PartsAssumption DEF Is, InstallSteps, RemoveSteps, RunSteps, Fine,
         Begun, Codes
  <2>2. ASSUME ~req'[r].late PROVE InstallGoes(req[r])'
    <3>1. req[r].kind = "install" /\ req[r].rel \in Releases /\ req[r].seq = 0 /\ parts[req[r].rel] = Empty
      BY <2>2, <1>1, <1>2, <1>3, <1>4 DEF Is, InstallSteps, RemoveSteps, RunSteps, Fine, Begun, InstallGoes
    <3>2. meta'[req[r].rel] = req[r].build /\ parts' = parts
      BY <3>1 DEF StoreMeta, IInv, TypeOK
    <3>3. \A s \in 0..(MaxParts - 1) : Empty[s] = None /\ ~(s < 0)
      BY PartsAssumption DEF Empty
    <3>. QED BY <3>1, <3>2, <3>3, <1>1, <1>2, <1>3, <1>4 DEF Is, InstallGoes
  <2>3. ASSUME ~req'[r].late PROVE RemovalGoes(req[r])'
    BY <2>3, <1>1, <1>2, <1>3, <1>4 DEF Is, InstallSteps, RemoveSteps, RunSteps, Fine, Begun, RemovalGoes,
         StoreMeta
  <2>4. ASSUME ~req'[r].late, req'[r].answer = "ok" PROVE AnswerIsTrue(req[r])'
    BY <2>4, <1>1, <1>2, <1>3, <1>4 DEF Is, InstallSteps, RemoveSteps, RunSteps, Fine, Begun, InstallGoes,
         RemovalGoes, AnswerIsTrue, Whole, Joined, StoreMeta
  <2>. QED BY <2>1, <2>2, <2>3, <2>4 DEF Fine
<1>6. IInv'
  <2>1. SameInstall(n, req[r]) /\ n.at \notin {"parts", "start"}
    BY <1>1, <1>2, <1>3, <1>4 DEF Is, Fine, Begun, InstallSteps, RemoveSteps, RunSteps, SameInstall
  <2>2. registry \in Rows /\ grants \in SUBSET Caps
    BY DEF IInv, TypeOK, Rows
  <2>3. meta' \in [Releases -> Builds \cup {None}]
    BY <1>1, <1>2, <1>3, <1>4 DEF StoreMeta, Is, Fine, Begun, InstallSteps, RemoveSteps, RunSteps, IInv,
         TypeOK
  <2>4. parts' \in [Releases -> [0..(MaxParts - 1) -> Codes \cup {None}]]
    BY <1>1, <1>2, <1>3, <1>4 DEF StoreMeta, Is, Fine, Begun, InstallSteps, RemoveSteps, RunSteps, IInv,
         TypeOK, Empty, Codes
  <2>5. registry' \in Rows /\ grants' \in SUBSET Caps
    BY <1>1, <1>2, <1>3, <1>4, <2>2 DEF StoreMeta, Is, Fine, Begun, InstallSteps, RemoveSteps, RunSteps, Rows
  <2>6. \A rel \in Releases : meta'[rel] # None => meta'[rel] = meta[rel] \/ <<rel, meta'[rel]>> \in Accepted
    BY <1>1, <1>2, <1>3, <1>4 DEF StoreMeta, Is, Fine, Begun, InstallSteps, RemoveSteps, RunSteps, IInv,
         TypeOK, Accepted
  <2>7. registry'.by # r => registry'.by = registry.by
    BY <2>2 DEF StoreMeta, Rows
  <2>8. \A d \in grants' : d \in grants /\ (d \in registry.given => registry'.by = r \/ d \in registry'.given)
    BY <2>2 DEF StoreMeta, Rows
  <2>9. (registry'.by = None => registry'.rel = None /\ ~registry'.active) /\ (registry'.active => registry'.rel \in Releases)
    BY <1>1, <1>2, <1>3, <1>4, <2>2, Parts, NoneAssumption DEF StoreMeta, Is, Fine, Begun, InstallSteps,
         RemoveSteps, RunSteps, Rows
  <2>10. registry'.by = r => Prunes(n, registry', grants')
    BY <1>1, <1>2, <1>3, <1>4, <2>2, Parts, NoneAssumption DEF StoreMeta, Is, Fine, Begun, InstallSteps,
         RemoveSteps, RunSteps, Prunes, Rows
  <2>11. UNCHANGED backend OBVIOUS
  <2>. QED BY <1>1, <1>2, <1>3, <1>4, <1>5, <2>1, <2>3, <2>4, <2>5, <2>6, <2>7, <2>8, <2>9, <2>10, <2>11, WriteKeeps
<1>7. SameInstall(n, req[r]) /\ Ran(n) = Ran(req[r])
  BY <1>1, <1>2, <1>4, NewShape DEF Is, Fine, Begun, InstallSteps, RemoveSteps, RunSteps, SameInstall, Ran,
       StoreMeta
<1>8. Simulates
  BY <1>3, <1>7, SilentStep DEF StoreMeta
<1>. QED BY <1>6, <1>8

LEMMA StorePartKeeps ==
    ASSUME IInv, NEW r \in Requests, StorePart(r), UNCHANGED backend
    PROVE  IInv' /\ Simulates
<1>1. CASE parts[req[r].rel][req[r].seq] = None
  <2>. DEFINE n == [req[r] EXCEPT !.seq = req[r].seq + 1, !.at = IF req[r].seq + 1 = PartsOf[CodeOf[req[r].build]] THEN "register" ELSE "part"]
  <2>1. n \in Requested /\ Is(n, IF req[r].seq + 1 = PartsOf[CodeOf[req[r].build]] THEN "register" ELSE "part", req[r].kind, req[r].rel, req[r].build, req[r].code, req[r].seq + 1, req[r].caps, req[r].known, req[r].late, req[r].answer)
    <3>1. req[r].at = "part" /\ req[r] \in Requested
      BY DEF StorePart, At, IInv, TypeOK
    <3>. QED BY <3>1, PartIsNext, PartShape DEF Steps
  <2>2. Writes(r, n) /\ req[r].at = "part"
    BY <1>1, Zenon DEF StorePart, At, Becomes, Ended
  <2>. HIDE DEF n
  <2>3. req'[r] = n /\ \A x \in Requests \ {r} : Alike(x)
    BY <2>1, <2>2, WritesShape DEF IInv
  <2>4. Fine(req[r]) /\ req[r] \in Requested
    BY Parts DEF IInv, TypeOK
  <2>5. Fine(req[r])'
    <3>1. Begun(req'[r])
      BY <1>1, <2>1, <2>2, <2>3, <2>4, PartIsNext DEF Is, InstallSteps, RemoveSteps, RunSteps, Fine, Begun
    <3>2. ASSUME ~req'[r].late PROVE InstallGoes(req[r])'
      <4>. DEFINE k == req[r].seq
                  code == CodeOf[req[r].build]
      <4>1. /\ req[r].kind = "install" /\ req[r].rel \in Releases /\ meta[req[r].rel] = req[r].build
            /\ \A s \in 0..(MaxParts - 1) : parts[req[r].rel][s] = IF s < k THEN code ELSE None
        BY <3>2, <2>1, <2>2, <2>3, <2>4 DEF Is, InstallSteps, RemoveSteps, RunSteps, Fine, Begun, InstallGoes
      <4>2. meta' = meta /\ \A s \in 0..(MaxParts - 1) : parts'[req[r].rel][s] = IF s = k THEN code ELSE parts[req[r].rel][s]
        <5>1. parts' = [parts EXCEPT ![req[r].rel] = [parts[req[r].rel] EXCEPT ![k] = code]] /\ meta' = meta
          BY <1>1, Zenon DEF StorePart
        <5>2. parts \in [Releases -> [0..(MaxParts - 1) -> Codes \cup {None}]] BY DEF IInv, TypeOK
        <5>. HIDE DEF k, code
        <5>. QED BY <5>1, <5>2, <4>1
      <4>3. \A s \in 0..(MaxParts - 1) : parts'[req[r].rel][s] = IF s < k + 1 THEN code ELSE None
        <5>1. k \in 0..(MaxParts - 1) BY <2>2, PartIsNext
        <5>2. \A s \in 0..(MaxParts - 1) : s < k + 1 <=> s < k \/ s = k BY <5>1, PartsAssumption
        <5>. HIDE DEF k, code
        <5>. QED BY <4>1, <4>2, <5>2
      <4>. QED BY <4>1, <4>2, <4>3, <2>1, <2>2, <2>3, <2>4 DEF Is, InstallGoes, Whole, Joined
    <3>3. ASSUME ~req'[r].late PROVE RemovalGoes(req[r])'
      BY <3>3, <1>1, <2>1, <2>2, <2>3, <2>4 DEF Is, InstallSteps, RemoveSteps, RunSteps, Fine, Begun,
           RemovalGoes, StorePart
    <3>4. ASSUME ~req'[r].late, req'[r].answer = "ok" PROVE AnswerIsTrue(req[r])'
      BY <3>4, <1>1, <2>1, <2>2, <2>3, <2>4 DEF Is, InstallSteps, RemoveSteps, RunSteps, Fine, Begun,
           InstallGoes, RemovalGoes, AnswerIsTrue, Whole, Joined, StorePart
    <3>. QED BY <3>1, <3>2, <3>3, <3>4 DEF Fine
  <2>6. IInv'
    <3>1. SameInstall(n, req[r]) /\ n.at \notin {"parts", "start"}
      BY <1>1, <2>1, <2>2, <2>3, <2>4 DEF Is, Fine, Begun, InstallSteps, RemoveSteps, RunSteps, SameInstall
    <3>2. registry \in Rows /\ grants \in SUBSET Caps
      BY DEF IInv, TypeOK, Rows
    <3>3. meta' \in [Releases -> Builds \cup {None}]
      BY <2>1, <2>2, <2>3, <2>4 DEF StorePart, Is, Fine, Begun, InstallSteps, RemoveSteps, RunSteps, IInv,
           TypeOK
    <3>4. parts' \in [Releases -> [0..(MaxParts - 1) -> Codes \cup {None}]]
      <4>1. req[r].rel \in Releases BY <2>1, <2>2, <2>3, <2>4
         DEF Is, Fine, Begun, InstallSteps, RemoveSteps, RunSteps, Fine, Begun
      <4>2. req[r].seq \in 0..(MaxParts - 1) /\ CodeOf[req[r].build] \in Codes BY <2>2, PartIsNext
      <4>3. parts' = [parts EXCEPT ![req[r].rel] = [parts[req[r].rel] EXCEPT ![req[r].seq] = CodeOf[req[r].build]]]
        BY <1>1, Zenon DEF StorePart
      <4>4. parts \in [Releases -> [0..(MaxParts - 1) -> Codes \cup {None}]] BY DEF IInv, TypeOK
      <4>. QED BY <4>1, <4>2, <4>3, <4>4
    <3>5. registry' \in Rows /\ grants' \in SUBSET Caps
      BY <2>1, <2>2, <2>3, <2>4, <3>2 DEF StorePart, Is, Fine, Begun, InstallSteps, RemoveSteps, RunSteps,
           Rows
    <3>6. \A rel \in Releases : meta'[rel] # None => meta'[rel] = meta[rel] \/ <<rel, meta'[rel]>> \in Accepted
      BY <2>1, <2>2, <2>3, <2>4 DEF StorePart, Is, Fine, Begun, InstallSteps, RemoveSteps, RunSteps, IInv,
           TypeOK, Accepted
    <3>7. registry'.by # r => registry'.by = registry.by
      BY <3>2 DEF StorePart, Rows
    <3>8. \A d \in grants' : d \in grants /\ (d \in registry.given => registry'.by = r \/ d \in registry'.given)
      BY <3>2 DEF StorePart, Rows
    <3>9. (registry'.by = None => registry'.rel = None /\ ~registry'.active) /\ (registry'.active => registry'.rel \in Releases)
      BY <2>1, <2>2, <2>3, <2>4, <3>2, Parts, NoneAssumption DEF StorePart, Is, Fine, Begun, InstallSteps,
           RemoveSteps, RunSteps, Rows
    <3>10. registry'.by = r => Prunes(n, registry', grants')
      BY <1>1, <2>1, <2>2, <2>3, <2>4, <3>2, Parts, NoneAssumption
         DEF StorePart, Is, Fine, Begun, InstallSteps, RemoveSteps, RunSteps, Prunes, Rows
    <3>11. UNCHANGED backend OBVIOUS
    <3>. QED BY <2>1, <2>2, <2>3, <2>4, <2>5, <3>1, <3>3, <3>4, <3>5, <3>6, <3>7, <3>8, <3>9, <3>10, <3>11, WriteKeeps
  <2>7. SameInstall(n, req[r]) /\ Ran(n) = Ran(req[r])
    BY <1>1, <2>1, <2>2, <2>4, NewShape DEF Is, Fine, Begun, InstallSteps, RemoveSteps, RunSteps, SameInstall,
         Ran, StorePart
  <2>8. Simulates
    BY <1>1, <2>3, <2>7, SilentStep DEF StorePart
  <2>. QED BY <2>6, <2>8
<1>2. CASE parts[req[r].rel][req[r].seq] # None
  <2>. DEFINE n == [req[r] EXCEPT !.at = "done", !.answer = "failed"]
  <2>1. n \in Requested /\ Is(n, "done", req[r].kind, req[r].rel, req[r].build, req[r].code, req[r].seq, req[r].caps, req[r].known, req[r].late, "failed")
    BY <1>2, EndShape DEF Requested, Steps, IInv, TypeOK, StorePart
  <2>2. req' = [req EXCEPT ![r] = n] /\ req[r].at = "part"
    BY <1>2, Zenon DEF StorePart, At, Becomes, Ended
  <2>. HIDE DEF n
  <2>3. req'[r] = n /\ \A x \in Requests \ {r} : Alike(x)
    BY <2>1, <2>2, BecomesShape DEF IInv
  <2>4. Fine(req[r]) /\ req[r] \in Requested
    BY Parts DEF IInv, TypeOK
  <2>5. Fine(req[r])'
    BY <1>2, <2>1, <2>2, <2>3, <2>4, NoneAssumption DEF Is, StorePart, Fine, Begun, InstallGoes, RemovalGoes,
         AnswerIsTrue, InstallSteps, RemoveSteps, RunSteps
  <2>6. IInv'
    <3>1. req[r].kind = "install" => SameInstall(n, req[r])
      BY <1>2, <2>1, <2>2, <2>3, <2>4, NewShape DEF Is, Fine, Begun, InstallSteps, RemoveSteps, RunSteps,
           SameInstall
    <3>2. UNCHANGED <<backend, meta, parts, grants>>
      BY <1>2, Zenon DEF StorePart
    <3>3. registry \in Rows
      BY DEF IInv, TypeOK, Rows
    <3>4. registry' \in Rows /\ registry'.rel = registry.rel /\ registry'.by = registry.by
      BY <3>3, <1>2, Zenon DEF StorePart
    <3>5. registry'.active = registry.active /\ (registry.by # r => registry' = registry)
      BY <3>3, Zenon DEF StorePart, Rows
    <3>6. n.at \in {"parts", "start"} => <<n.rel, n.build>> \in Accepted
      BY <1>2, <2>1, <2>2, <2>3, <2>4 DEF Is, Fine, Begun, InstallSteps, RemoveSteps, RunSteps,
           StoredWasAccepted, IInv
    <3>7. n.at = "start" => n.code = CodeOf[n.build]
      BY <1>2, <2>1, <2>2, <2>3, <2>4 DEF Is, Fine, Begun, InstallSteps, RemoveSteps, RunSteps,
           StoredWasAccepted, IInv
    <3>8. registry.by = r => Prunes(n, registry', grants)
      BY <1>2, <2>1, <2>2, <2>3, <2>4, <3>3, Parts, NoneAssumption, NewShape
         DEF Is, Fine, Begun, InstallSteps, RemoveSteps, RunSteps, Prunes, StorePart, Rows
    <3>. QED BY <2>1, <2>2, <2>3, <2>4, <2>5, <3>1, <3>2, <3>3, <3>4, <3>5, <3>6, <3>7, <3>8, CalmKeeps
  <2>7. SameInstall(n, req[r]) /\ Ran(n) = Ran(req[r])
    BY <1>2, <2>1, <2>2, <2>4, NewShape DEF Is, Fine, Begun, InstallSteps, RemoveSteps, RunSteps, SameInstall,
         Ran, StorePart
  <2>8. Simulates
    BY <1>2, <2>3, <2>7, SilentStep DEF StorePart
  <2>. QED BY <2>6, <2>8
<1>. QED BY <1>1, <1>2

LEMMA RegisterKeeps ==
    ASSUME IInv, NEW r \in Requests, Register(r), UNCHANGED backend
    PROVE  IInv' /\ Simulates
<1>. DEFINE n == [req[r] EXCEPT !.at = "grants"]
<1>1. n \in Requested /\ Is(n, "grants", req[r].kind, req[r].rel, req[r].build, req[r].code, req[r].seq, req[r].caps, req[r].known, req[r].late, req[r].answer)
  BY GoShape DEF Requested, Steps, IInv, TypeOK, Register
<1>2. Writes(r, n) /\ req[r].at = "register"
  BY Zenon DEF Register, At, Becomes, Ended
<1>. HIDE DEF n
<1>3. req'[r] = n /\ \A x \in Requests \ {r} : Alike(x)
  BY <1>1, <1>2, WritesShape DEF IInv
<1>4. Fine(req[r]) /\ req[r] \in Requested
  BY Parts DEF IInv, TypeOK
<1>5. Fine(req[r])'
  <2>1. Begun(req'[r])
    BY <1>1, <1>2, <1>3, <1>4, Parts DEF Is, InstallSteps, RemoveSteps, RunSteps, Fine, Begun
  <2>2. ASSUME ~req'[r].late PROVE InstallGoes(req[r])'
    BY <2>2, <1>1, <1>2, <1>3, <1>4 DEF Is, InstallSteps, RemoveSteps, RunSteps, Fine, Begun, InstallGoes,
         Whole, Joined, Register, IInv, TypeOK
  <2>3. ASSUME ~req'[r].late PROVE RemovalGoes(req[r])'
    BY <2>3, <1>1, <1>2, <1>3, <1>4 DEF Is, InstallSteps, RemoveSteps, RunSteps, Fine, Begun, RemovalGoes,
         Register
  <2>4. ASSUME ~req'[r].late, req'[r].answer = "ok" PROVE AnswerIsTrue(req[r])'
    BY <2>4, <1>1, <1>2, <1>3, <1>4 DEF Is, InstallSteps, RemoveSteps, RunSteps, Fine, Begun, InstallGoes,
         RemovalGoes, AnswerIsTrue, Whole, Joined, Register
  <2>. QED BY <2>1, <2>2, <2>3, <2>4 DEF Fine
<1>6. IInv'
  <2>1. SameInstall(n, req[r]) /\ n.at \notin {"parts", "start"}
    BY <1>1, <1>2, <1>3, <1>4 DEF Is, Fine, Begun, InstallSteps, RemoveSteps, RunSteps, SameInstall
  <2>2. registry \in Rows /\ grants \in SUBSET Caps
    BY DEF IInv, TypeOK, Rows
  <2>3. meta' \in [Releases -> Builds \cup {None}]
    BY <1>1, <1>2, <1>3, <1>4 DEF Register, Is, Fine, Begun, InstallSteps, RemoveSteps, RunSteps, IInv, TypeOK
  <2>4. parts' \in [Releases -> [0..(MaxParts - 1) -> Codes \cup {None}]]
    BY <1>1, <1>2, <1>3, <1>4 DEF Register, Is, Fine, Begun, InstallSteps, RemoveSteps, RunSteps, IInv,
         TypeOK, Empty, Codes
  <2>5. registry' \in Rows /\ grants' \in SUBSET Caps
    BY <1>1, <1>2, <1>3, <1>4, <2>2 DEF Register, Is, Fine, Begun, InstallSteps, RemoveSteps, RunSteps, Rows
  <2>6. \A rel \in Releases : meta'[rel] # None => meta'[rel] = meta[rel] \/ <<rel, meta'[rel]>> \in Accepted
    BY <1>1, <1>2, <1>3, <1>4 DEF Register, Is, Fine, Begun, InstallSteps, RemoveSteps, RunSteps, IInv,
         TypeOK, Accepted
  <2>7. registry'.by # r => registry'.by = registry.by
    BY <2>2 DEF Register, Rows
  <2>8. \A d \in grants' : d \in grants /\ (d \in registry.given => registry'.by = r \/ d \in registry'.given)
    BY <2>2 DEF Register, Rows
  <2>9. (registry'.by = None => registry'.rel = None /\ ~registry'.active) /\ (registry'.active => registry'.rel \in Releases)
    BY <1>1, <1>2, <1>3, <1>4, <2>2, Parts, NoneAssumption DEF Register, Is, Fine, Begun, InstallSteps,
         RemoveSteps, RunSteps, Rows
  <2>10. registry'.by = r => Prunes(n, registry', grants')
    BY <1>1, <1>2, <1>3, <1>4, <2>2, Parts, NoneAssumption DEF Register, Is, Fine, Begun, InstallSteps,
         RemoveSteps, RunSteps, Prunes, Rows
  <2>11. UNCHANGED backend OBVIOUS
  <2>. QED BY <1>1, <1>2, <1>3, <1>4, <1>5, <2>1, <2>3, <2>4, <2>5, <2>6, <2>7, <2>8, <2>9, <2>10, <2>11, WriteKeeps
<1>7. SameInstall(n, req[r]) /\ Ran(n) = Ran(req[r])
  BY <1>1, <1>2, <1>4, NewShape DEF Is, Fine, Begun, InstallSteps, RemoveSteps, RunSteps, SameInstall, Ran,
       Register
<1>8. Simulates
  BY <1>3, <1>7, SilentStep DEF Register
<1>. QED BY <1>6, <1>8

LEMMA ReconcileKeeps ==
    ASSUME IInv, NEW r \in Requests, Reconcile(r), UNCHANGED backend
    PROVE  IInv' /\ Simulates
<1>1. CASE grants \ CapsOf[req[r].build] = {}
  <2>. DEFINE n == [req[r] EXCEPT !.at = "done", !.answer = "ok"]
  <2>1. n \in Requested /\ Is(n, "done", req[r].kind, req[r].rel, req[r].build, req[r].code, req[r].seq, req[r].caps, req[r].known, req[r].late, "ok")
    BY <1>1, EndShape DEF Requested, Steps, IInv, TypeOK, Reconcile
  <2>2. req' = [req EXCEPT ![r] = n] /\ req[r].at = "grants"
    BY <1>1, Zenon DEF Reconcile, At, Becomes, Ended
  <2>. HIDE DEF n
  <2>3. req'[r] = n /\ \A x \in Requests \ {r} : Alike(x)
    BY <2>1, <2>2, BecomesShape DEF IInv
  <2>4. Fine(req[r]) /\ req[r] \in Requested
    BY Parts DEF IInv, TypeOK
  <2>5. Fine(req[r])'
    <3>0. registry'.rel = registry.rel /\ registry'.active = registry.active /\ meta' = meta /\ parts' = parts
      <4>1. registry \in Rows BY DEF IInv, TypeOK, Rows
      <4>2. registry'.rel = registry.rel /\ meta' = meta /\ parts' = parts BY <4>1 DEF Reconcile, Rows
      <4>3. registry'.active = registry.active BY <4>1, Zenon DEF Reconcile, Rows
      <4>. QED BY <4>2, <4>3
    <3>1. Begun(req'[r])
      BY <1>1, <3>0, <2>1, <2>2, <2>3, <2>4, Parts DEF Is, InstallSteps, RemoveSteps, RunSteps, Fine, Begun
    <3>2. ASSUME ~req'[r].late PROVE InstallGoes(req[r])'
      BY <3>2, <1>1, <3>0, <2>1, <2>2, <2>3, <2>4 DEF Is, InstallSteps, RemoveSteps, RunSteps, Fine, Begun,
           InstallGoes, Whole, Joined, Reconcile, IInv, TypeOK
    <3>3. ASSUME ~req'[r].late PROVE RemovalGoes(req[r])'
      BY <3>3, <1>1, <3>0, <2>1, <2>2, <2>3, <2>4 DEF Is, InstallSteps, RemoveSteps, RunSteps, Fine, Begun,
           RemovalGoes, Reconcile
    <3>4. ASSUME ~req'[r].late, req'[r].answer = "ok" PROVE AnswerIsTrue(req[r])'
      BY <3>4, <1>1, <3>0, <2>1, <2>2, <2>3, <2>4 DEF Is, InstallSteps, RemoveSteps, RunSteps, Fine, Begun,
           InstallGoes, RemovalGoes, AnswerIsTrue, Whole, Joined, Reconcile
    <3>. QED BY <3>1, <3>2, <3>3, <3>4 DEF Fine
  <2>6. IInv'
    <3>1. req[r].kind = "install" => SameInstall(n, req[r])
      BY <1>1, <2>1, <2>2, <2>3, <2>4, NewShape DEF Is, Fine, Begun, InstallSteps, RemoveSteps, RunSteps,
           SameInstall
    <3>2. UNCHANGED <<backend, meta, parts, grants>>
      BY <1>1, Zenon DEF Reconcile
    <3>3. registry \in Rows
      BY DEF IInv, TypeOK, Rows
    <3>4. registry' \in Rows /\ registry'.rel = registry.rel /\ registry'.by = registry.by
      BY <3>3 DEF Reconcile, Rows
    <3>5. registry'.active = registry.active /\ (registry.by # r => registry' = registry)
      BY <3>3, Zenon DEF Reconcile, Rows
    <3>6. n.at \in {"parts", "start"} => <<n.rel, n.build>> \in Accepted
      BY <1>1, <2>1, <2>2, <2>3, <2>4 DEF Is, Fine, Begun, InstallSteps, RemoveSteps, RunSteps,
           StoredWasAccepted, IInv
    <3>7. n.at = "start" => n.code = CodeOf[n.build]
      BY <1>1, <2>1, <2>2, <2>3, <2>4 DEF Is, Fine, Begun, InstallSteps, RemoveSteps, RunSteps,
           StoredWasAccepted, IInv
    <3>8. registry.by = r => Prunes(n, registry', grants)
      BY <1>1, <2>1, <2>2, <2>3, <2>4, <3>3, Parts, NoneAssumption, NewShape
         DEF Is, Fine, Begun, InstallSteps, RemoveSteps, RunSteps, Prunes, Reconcile, Rows
    <3>. QED BY <2>1, <2>2, <2>3, <2>4, <2>5, <3>1, <3>2, <3>3, <3>4, <3>5, <3>6, <3>7, <3>8, CalmKeeps
  <2>7. SameInstall(n, req[r]) /\ Ran(n) = Ran(req[r])
    BY <1>1, <2>1, <2>2, <2>4, NewShape DEF Is, Fine, Begun, InstallSteps, RemoveSteps, RunSteps, SameInstall,
         Ran, Reconcile
  <2>8. Simulates
    BY <1>1, <2>3, <2>7, SilentStep DEF Reconcile
  <2>. QED BY <2>6, <2>8
<1>2. CASE grants \ CapsOf[req[r].build] # {}
  <2>. DEFINE n == [req[r] EXCEPT !.caps = grants \ CapsOf[req[r].build], !.at = "revoke"]
  <2>1. n \in Requested /\ Is(n, "revoke", req[r].kind, req[r].rel, req[r].build, req[r].code, req[r].seq, grants \ CapsOf[req[r].build], req[r].known, req[r].late, req[r].answer)
    BY <1>2, FindShape DEF Requested, Steps, IInv, TypeOK, Reconcile
  <2>2. req' = [req EXCEPT ![r] = n] /\ req[r].at = "grants"
    BY <1>2, Zenon DEF Reconcile, At, Becomes, Ended
  <2>. HIDE DEF n
  <2>3. req'[r] = n /\ \A x \in Requests \ {r} : Alike(x)
    BY <2>1, <2>2, BecomesShape DEF IInv
  <2>4. Fine(req[r]) /\ req[r] \in Requested
    BY Parts DEF IInv, TypeOK
  <2>5. Fine(req[r])'
    <3>0. registry'.rel = registry.rel /\ registry'.active = registry.active /\ meta' = meta /\ parts' = parts
      <4>1. registry \in Rows BY DEF IInv, TypeOK, Rows
      <4>2. registry'.rel = registry.rel /\ meta' = meta /\ parts' = parts BY <4>1 DEF Reconcile, Rows
      <4>3. registry'.active = registry.active BY <4>1, Zenon DEF Reconcile, Rows
      <4>. QED BY <4>2, <4>3
    <3>1. Begun(req'[r])
      BY <1>2, <3>0, <2>1, <2>2, <2>3, <2>4, Parts DEF Is, InstallSteps, RemoveSteps, RunSteps, Fine, Begun
    <3>2. ASSUME ~req'[r].late PROVE InstallGoes(req[r])'
      BY <3>2, <1>2, <3>0, <2>1, <2>2, <2>3, <2>4 DEF Is, InstallSteps, RemoveSteps, RunSteps, Fine, Begun,
           InstallGoes, Whole, Joined, Reconcile, IInv, TypeOK
    <3>3. ASSUME ~req'[r].late PROVE RemovalGoes(req[r])'
      BY <3>3, <1>2, <3>0, <2>1, <2>2, <2>3, <2>4 DEF Is, InstallSteps, RemoveSteps, RunSteps, Fine, Begun,
           RemovalGoes, Reconcile
    <3>4. ASSUME ~req'[r].late, req'[r].answer = "ok" PROVE AnswerIsTrue(req[r])'
      BY <3>4, <1>2, <3>0, <2>1, <2>2, <2>3, <2>4 DEF Is, InstallSteps, RemoveSteps, RunSteps, Fine, Begun,
           InstallGoes, RemovalGoes, AnswerIsTrue, Whole, Joined, Reconcile
    <3>. QED BY <3>1, <3>2, <3>3, <3>4 DEF Fine
  <2>6. IInv'
    <3>1. req[r].kind = "install" => SameInstall(n, req[r])
      BY <1>2, <2>1, <2>2, <2>3, <2>4, NewShape DEF Is, Fine, Begun, InstallSteps, RemoveSteps, RunSteps,
           SameInstall
    <3>2. UNCHANGED <<backend, meta, parts, grants>>
      BY <1>2, Zenon DEF Reconcile
    <3>3. registry \in Rows
      BY DEF IInv, TypeOK, Rows
    <3>4. registry' \in Rows /\ registry'.rel = registry.rel /\ registry'.by = registry.by
      BY <3>3 DEF Reconcile, Rows
    <3>5. registry'.active = registry.active /\ (registry.by # r => registry' = registry)
      BY <3>3, Zenon DEF Reconcile, Rows
    <3>6. n.at \in {"parts", "start"} => <<n.rel, n.build>> \in Accepted
      BY <1>2, <2>1, <2>2, <2>3, <2>4 DEF Is, Fine, Begun, InstallSteps, RemoveSteps, RunSteps,
           StoredWasAccepted, IInv
    <3>7. n.at = "start" => n.code = CodeOf[n.build]
      BY <1>2, <2>1, <2>2, <2>3, <2>4 DEF Is, Fine, Begun, InstallSteps, RemoveSteps, RunSteps,
           StoredWasAccepted, IInv
    <3>8. registry.by = r => Prunes(n, registry', grants)
      BY <1>2, <2>1, <2>2, <2>3, <2>4, <3>3, Parts, NoneAssumption, NewShape
         DEF Is, Fine, Begun, InstallSteps, RemoveSteps, RunSteps, Prunes, Reconcile, Rows
    <3>. QED BY <2>1, <2>2, <2>3, <2>4, <2>5, <3>1, <3>2, <3>3, <3>4, <3>5, <3>6, <3>7, <3>8, CalmKeeps
  <2>7. SameInstall(n, req[r]) /\ Ran(n) = Ran(req[r])
    BY <1>2, <2>1, <2>2, <2>4, NewShape DEF Is, Fine, Begun, InstallSteps, RemoveSteps, RunSteps, SameInstall,
         Ran, Reconcile
  <2>8. Simulates
    BY <1>2, <2>3, <2>7, SilentStep DEF Reconcile
  <2>. QED BY <2>6, <2>8
<1>. QED BY <1>1, <1>2

LEMMA RevokeNextKeeps ==
    ASSUME IInv, NEW r \in Requests, NEW c \in Caps, RevokeNext(r, c), UNCHANGED backend
    PROVE  IInv' /\ Simulates
<1>1. CASE req[r].caps = {c}
  <2>. DEFINE n == [Ended(r, "ok") EXCEPT !.caps = @ \ {c}]
  <2>1. n \in Requested /\ Is(n, "done", req[r].kind, req[r].rel, req[r].build, req[r].code, req[r].seq, req[r].caps \ {c}, req[r].known, req[r].late, "ok")
    <3>. DEFINE q == Ended(r, "ok")
    <3>1. q \in Requested /\ Is(q, "done", req[r].kind, req[r].rel, req[r].build, req[r].code, req[r].seq, req[r].caps, req[r].known, req[r].late, "ok")
      BY EndShape DEF Ended, IInv, TypeOK
    <3>2. n = [q EXCEPT !.caps = q.caps \ {c}]
      OBVIOUS
    <3>3. q.caps \ {c} \in SUBSET Caps BY <3>1 DEF Requested
    <3>. HIDE DEF q, n
    <3>4. n \in Requested /\ Is(n, q.at, q.kind, q.rel, q.build, q.code, q.seq, q.caps \ {c}, q.known, q.late, q.answer)
      BY <3>1, <3>2, <3>3, CapsShape
    <3>. QED BY <3>1, <3>4 DEF Is
  <2>2. Writes(r, n) /\ req[r].at = "revoke"
    BY <1>1, Zenon DEF RevokeNext, At, Becomes, Ended
  <2>. HIDE DEF n
  <2>3. req'[r] = n /\ \A x \in Requests \ {r} : Alike(x)
    BY <2>1, <2>2, WritesShape DEF IInv
  <2>4. Fine(req[r]) /\ req[r] \in Requested
    BY Parts DEF IInv, TypeOK
  <2>5. Fine(req[r])'
    <3>0. registry'.rel = registry.rel /\ registry'.active = registry.active /\ meta' = meta /\ parts' = parts
      <4>1. registry \in Rows BY DEF IInv, TypeOK, Rows
      <4>2. registry'.rel = registry.rel /\ meta' = meta /\ parts' = parts BY <4>1 DEF RevokeNext, Rows
      <4>3. registry'.active = registry.active BY <4>1, Zenon DEF RevokeNext, Rows
      <4>. QED BY <4>2, <4>3
    <3>1. Begun(req'[r])
      BY <1>1, <3>0, <2>1, <2>2, <2>3, <2>4, Parts DEF Is, InstallSteps, RemoveSteps, RunSteps, Fine, Begun
    <3>2. ASSUME ~req'[r].late PROVE InstallGoes(req[r])'
      BY <3>2, <1>1, <3>0, <2>1, <2>2, <2>3, <2>4 DEF Is, InstallSteps, RemoveSteps, RunSteps, Fine, Begun,
           InstallGoes, Whole, Joined, RevokeNext, IInv, TypeOK
    <3>3. ASSUME ~req'[r].late PROVE RemovalGoes(req[r])'
      BY <3>3, <1>1, <3>0, <2>1, <2>2, <2>3, <2>4 DEF Is, InstallSteps, RemoveSteps, RunSteps, Fine, Begun,
           RemovalGoes, RevokeNext
    <3>4. ASSUME ~req'[r].late, req'[r].answer = "ok" PROVE AnswerIsTrue(req[r])'
      BY <3>4, <1>1, <3>0, <2>1, <2>2, <2>3, <2>4 DEF Is, InstallSteps, RemoveSteps, RunSteps, Fine, Begun,
           InstallGoes, RemovalGoes, AnswerIsTrue, Whole, Joined, RevokeNext
    <3>. QED BY <3>1, <3>2, <3>3, <3>4 DEF Fine
  <2>6. IInv'
    <3>1. SameInstall(n, req[r]) /\ n.at \notin {"parts", "start"}
      BY <1>1, <2>1, <2>2, <2>3, <2>4 DEF Is, Fine, Begun, InstallSteps, RemoveSteps, RunSteps, SameInstall
    <3>2. registry \in Rows /\ grants \in SUBSET Caps
      BY DEF IInv, TypeOK, Rows
    <3>3. meta' \in [Releases -> Builds \cup {None}]
      BY <2>1, <2>2, <2>3, <2>4 DEF RevokeNext, Is, Fine, Begun, InstallSteps, RemoveSteps, RunSteps, IInv,
           TypeOK
    <3>4. parts' \in [Releases -> [0..(MaxParts - 1) -> Codes \cup {None}]]
      BY <2>1, <2>2, <2>3, <2>4 DEF RevokeNext, Is, Fine, Begun, InstallSteps, RemoveSteps, RunSteps, IInv,
           TypeOK, Empty, Codes
    <3>5. registry' \in Rows /\ grants' \in SUBSET Caps
      BY <2>1, <2>2, <2>3, <2>4, <3>2 DEF RevokeNext, Is, Fine, Begun, InstallSteps, RemoveSteps, RunSteps,
           Rows
    <3>6. \A rel \in Releases : meta'[rel] # None => meta'[rel] = meta[rel] \/ <<rel, meta'[rel]>> \in Accepted
      BY <2>1, <2>2, <2>3, <2>4 DEF RevokeNext, Is, Fine, Begun, InstallSteps, RemoveSteps, RunSteps, IInv,
           TypeOK, Accepted
    <3>7. registry'.by # r => registry'.by = registry.by
      BY <3>2 DEF RevokeNext, Rows
    <3>8. \A d \in grants' : d \in grants /\ (d \in registry.given => registry'.by = r \/ d \in registry'.given)
      BY <3>2 DEF RevokeNext, Rows
    <3>9. (registry'.by = None => registry'.rel = None /\ ~registry'.active) /\ (registry'.active => registry'.rel \in Releases)
      BY <2>1, <2>2, <2>3, <2>4, <3>2, Parts, NoneAssumption DEF RevokeNext, Is, Fine, Begun, InstallSteps,
           RemoveSteps, RunSteps, Rows
    <3>10. registry'.by = r => Prunes(n, registry', grants')
      BY <1>1, <2>1, <2>2, <2>3, <2>4, <3>2, Parts, NoneAssumption
         DEF RevokeNext, Is, Fine, Begun, InstallSteps, RemoveSteps, RunSteps, Prunes, Rows
    <3>11. UNCHANGED backend OBVIOUS
    <3>. QED BY <2>1, <2>2, <2>3, <2>4, <2>5, <3>1, <3>3, <3>4, <3>5, <3>6, <3>7, <3>8, <3>9, <3>10, <3>11, WriteKeeps
  <2>7. SameInstall(n, req[r]) /\ Ran(n) = Ran(req[r])
    BY <1>1, <2>1, <2>2, <2>4 DEF Is, Fine, Begun, InstallSteps, RemoveSteps, RunSteps, SameInstall, Ran,
         RevokeNext
  <2>8. Simulates
    BY <1>1, <2>3, <2>7, RevokeStep DEF RevokeNext
  <2>. QED BY <2>6, <2>8
<1>2. CASE req[r].caps # {c}
  <2>. DEFINE n == [req[r] EXCEPT !.caps = @ \ {c}]
  <2>1. n \in Requested /\ Is(n, req[r].at, req[r].kind, req[r].rel, req[r].build, req[r].code, req[r].seq, req[r].caps \ {c}, req[r].known, req[r].late, req[r].answer)
    BY <1>2, CapsShape DEF Requested, Steps, IInv, TypeOK, RevokeNext
  <2>2. Writes(r, n) /\ req[r].at = "revoke"
    BY <1>2, Zenon DEF RevokeNext, At, Becomes, Ended
  <2>. HIDE DEF n
  <2>3. req'[r] = n /\ \A x \in Requests \ {r} : Alike(x)
    BY <2>1, <2>2, WritesShape DEF IInv
  <2>4. Fine(req[r]) /\ req[r] \in Requested
    BY Parts DEF IInv, TypeOK
  <2>5. Fine(req[r])'
    <3>0. registry'.rel = registry.rel /\ registry'.active = registry.active /\ meta' = meta /\ parts' = parts
      <4>1. registry \in Rows BY DEF IInv, TypeOK, Rows
      <4>2. registry'.rel = registry.rel /\ meta' = meta /\ parts' = parts BY <4>1 DEF RevokeNext, Rows
      <4>3. registry'.active = registry.active BY <4>1, Zenon DEF RevokeNext, Rows
      <4>. QED BY <4>2, <4>3
    <3>1. Begun(req'[r])
      BY <1>2, <3>0, <2>1, <2>2, <2>3, <2>4, Parts DEF Is, InstallSteps, RemoveSteps, RunSteps, Fine, Begun
    <3>2. ASSUME ~req'[r].late PROVE InstallGoes(req[r])'
      BY <3>2, <1>2, <3>0, <2>1, <2>2, <2>3, <2>4 DEF Is, InstallSteps, RemoveSteps, RunSteps, Fine, Begun,
           InstallGoes, Whole, Joined, RevokeNext, IInv, TypeOK
    <3>3. ASSUME ~req'[r].late PROVE RemovalGoes(req[r])'
      BY <3>3, <1>2, <3>0, <2>1, <2>2, <2>3, <2>4 DEF Is, InstallSteps, RemoveSteps, RunSteps, Fine, Begun,
           RemovalGoes, RevokeNext
    <3>4. ASSUME ~req'[r].late, req'[r].answer = "ok" PROVE AnswerIsTrue(req[r])'
      BY <3>4, <1>2, <3>0, <2>1, <2>2, <2>3, <2>4 DEF Is, InstallSteps, RemoveSteps, RunSteps, Fine, Begun,
           InstallGoes, RemovalGoes, AnswerIsTrue, Whole, Joined, RevokeNext
    <3>. QED BY <3>1, <3>2, <3>3, <3>4 DEF Fine
  <2>6. IInv'
    <3>1. SameInstall(n, req[r]) /\ n.at \notin {"parts", "start"}
      BY <1>2, <2>1, <2>2, <2>3, <2>4 DEF Is, Fine, Begun, InstallSteps, RemoveSteps, RunSteps, SameInstall
    <3>2. registry \in Rows /\ grants \in SUBSET Caps
      BY DEF IInv, TypeOK, Rows
    <3>3. meta' \in [Releases -> Builds \cup {None}]
      BY <2>1, <2>2, <2>3, <2>4 DEF RevokeNext, Is, Fine, Begun, InstallSteps, RemoveSteps, RunSteps, IInv,
           TypeOK
    <3>4. parts' \in [Releases -> [0..(MaxParts - 1) -> Codes \cup {None}]]
      BY <2>1, <2>2, <2>3, <2>4 DEF RevokeNext, Is, Fine, Begun, InstallSteps, RemoveSteps, RunSteps, IInv,
           TypeOK, Empty, Codes
    <3>5. registry' \in Rows /\ grants' \in SUBSET Caps
      BY <2>1, <2>2, <2>3, <2>4, <3>2 DEF RevokeNext, Is, Fine, Begun, InstallSteps, RemoveSteps, RunSteps,
           Rows
    <3>6. \A rel \in Releases : meta'[rel] # None => meta'[rel] = meta[rel] \/ <<rel, meta'[rel]>> \in Accepted
      BY <2>1, <2>2, <2>3, <2>4 DEF RevokeNext, Is, Fine, Begun, InstallSteps, RemoveSteps, RunSteps, IInv,
           TypeOK, Accepted
    <3>7. registry'.by # r => registry'.by = registry.by
      BY <3>2 DEF RevokeNext, Rows
    <3>8. \A d \in grants' : d \in grants /\ (d \in registry.given => registry'.by = r \/ d \in registry'.given)
      BY <3>2 DEF RevokeNext, Rows
    <3>9. (registry'.by = None => registry'.rel = None /\ ~registry'.active) /\ (registry'.active => registry'.rel \in Releases)
      BY <2>1, <2>2, <2>3, <2>4, <3>2, Parts, NoneAssumption DEF RevokeNext, Is, Fine, Begun, InstallSteps,
           RemoveSteps, RunSteps, Rows
    <3>10. registry'.by = r => Prunes(n, registry', grants')
      BY <1>2, <2>1, <2>2, <2>3, <2>4, <3>2, Parts, NoneAssumption
         DEF RevokeNext, Is, Fine, Begun, InstallSteps, RemoveSteps, RunSteps, Prunes, Rows
    <3>11. UNCHANGED backend OBVIOUS
    <3>. QED BY <2>1, <2>2, <2>3, <2>4, <2>5, <3>1, <3>3, <3>4, <3>5, <3>6, <3>7, <3>8, <3>9, <3>10, <3>11, WriteKeeps
  <2>7. SameInstall(n, req[r]) /\ Ran(n) = Ran(req[r])
    BY <1>2, <2>1, <2>2, <2>4 DEF Is, Fine, Begun, InstallSteps, RemoveSteps, RunSteps, SameInstall, Ran,
         RevokeNext
  <2>8. Simulates
    BY <1>2, <2>3, <2>7, RevokeStep DEF RevokeNext
  <2>. QED BY <2>6, <2>8
<1>. QED BY <1>1, <1>2

LEMMA BeginUninstallKeeps ==
    ASSUME IInv, NEW r \in Requests, NEW rel \in Releases, BeginUninstall(r, rel), UNCHANGED backend
    PROVE  IInv' /\ Simulates
<1>. DEFINE n == [New EXCEPT !.at = "dropparts", !.kind = "uninstall", !.rel = rel, !.known = registry.rel # None]
<1>1. n \in Requested /\ Is(n, "dropparts", "uninstall", rel, None, None, 0, {}, registry.rel # None, FALSE, "none")
  <2>1. 0 \in 0..MaxParts BY PartsAssumption
  <2>2. n \in Requested /\ n.at = "dropparts" /\ n.kind = "uninstall" /\ n.rel = rel /\ n.build = None /\ n.code = None
    BY <2>1 DEF New, Requested, IInv, TypeOK
  <2>3. n.seq = 0 /\ n.caps = {} /\ n.answer = "none" BY DEF New
  <2>4. n.known = (registry.rel # None) /\ n.late = FALSE BY Zenon DEF New
  <2>. QED BY <2>2, <2>3, <2>4 DEF Is
<1>2. req' = [req EXCEPT ![r] = n] /\ req[r].at = "new"
  BY Zenon DEF BeginUninstall, At, Becomes, Ended
<1>. HIDE DEF n
<1>3. req'[r] = n /\ \A x \in Requests \ {r} : Alike(x)
  BY <1>1, <1>2, BecomesShape DEF IInv
<1>4. Fine(req[r]) /\ req[r] \in Requested
  BY Parts DEF IInv, TypeOK
<1>5. Fine(req[r])'
  BY <1>1, <1>2, <1>3, <1>4, NewShape, NoneAssumption DEF Is, BeginUninstall, Fine, Begun, InstallGoes,
       RemovalGoes, AnswerIsTrue, InstallSteps, RemoveSteps, RunSteps
<1>6. IInv'
  <2>1. req[r].kind = "install" => SameInstall(n, req[r])
    BY <1>1, <1>2, <1>3, <1>4, NewShape DEF Is, Fine, Begun, InstallSteps, RemoveSteps, RunSteps, SameInstall
  <2>2. UNCHANGED <<backend, meta, parts, grants>>
    BY Zenon DEF BeginUninstall
  <2>3. registry \in Rows
    BY DEF IInv, TypeOK, Rows
  <2>4. registry' \in Rows /\ registry'.rel = registry.rel /\ registry'.by = registry.by
    BY <2>3, Zenon DEF BeginUninstall
  <2>5. registry'.active = registry.active /\ (registry.by # r => registry' = registry)
    BY <2>3, Zenon DEF BeginUninstall, Rows
  <2>6. n.at \in {"parts", "start"} => <<n.rel, n.build>> \in Accepted
    BY <1>1, <1>2, <1>3, <1>4 DEF Is, Fine, Begun, InstallSteps, RemoveSteps, RunSteps, StoredWasAccepted,
         IInv
  <2>7. n.at = "start" => n.code = CodeOf[n.build]
    BY <1>1, <1>2, <1>3, <1>4 DEF Is, Fine, Begun, InstallSteps, RemoveSteps, RunSteps, StoredWasAccepted,
         IInv
  <2>8. registry.by = r => Prunes(n, registry', grants)
    BY <1>1, <1>2, <1>3, <1>4, <2>3, Parts, NoneAssumption, NewShape
       DEF Is, Fine, Begun, InstallSteps, RemoveSteps, RunSteps, Prunes, BeginUninstall, Rows
  <2>. QED BY <1>1, <1>2, <1>3, <1>4, <1>5, <2>1, <2>2, <2>3, <2>4, <2>5, <2>6, <2>7, <2>8, CalmKeeps
<1>7. SameInstall(n, req[r]) /\ Ran(n) = Ran(req[r])
  BY <1>1, <1>2, <1>4, NewShape DEF Is, Fine, Begun, InstallSteps, RemoveSteps, RunSteps, SameInstall, Ran,
       BeginUninstall
<1>8. Simulates
  BY <1>3, <1>7, SilentStep DEF BeginUninstall
<1>. QED BY <1>6, <1>8

LEMMA DropPartsKeeps ==
    ASSUME IInv, NEW r \in Requests, DropParts(r), UNCHANGED backend
    PROVE  IInv' /\ Simulates
<1>. DEFINE n == [req[r] EXCEPT !.at = "dropmeta"]
<1>1. n \in Requested /\ Is(n, "dropmeta", req[r].kind, req[r].rel, req[r].build, req[r].code, req[r].seq, req[r].caps, req[r].known, req[r].late, req[r].answer)
  BY GoShape DEF Requested, Steps, IInv, TypeOK, DropParts
<1>2. Writes(r, n) /\ req[r].at = "dropparts"
  BY Zenon DEF DropParts, At, Becomes, Ended
<1>. HIDE DEF n
<1>3. req'[r] = n /\ \A x \in Requests \ {r} : Alike(x)
  BY <1>1, <1>2, WritesShape DEF IInv
<1>4. Fine(req[r]) /\ req[r] \in Requested
  BY Parts DEF IInv, TypeOK
<1>5. Fine(req[r])'
  BY <1>1, <1>2, <1>3, <1>4, NoneAssumption DEF Is, DropParts, Fine, Begun, InstallGoes, RemovalGoes,
       AnswerIsTrue, InstallSteps, RemoveSteps, RunSteps, IInv, TypeOK
<1>6. IInv'
  <2>1. SameInstall(n, req[r]) /\ n.at \notin {"parts", "start"}
    BY <1>1, <1>2, <1>3, <1>4 DEF Is, Fine, Begun, InstallSteps, RemoveSteps, RunSteps, SameInstall
  <2>2. registry \in Rows /\ grants \in SUBSET Caps
    BY DEF IInv, TypeOK, Rows
  <2>3. meta' \in [Releases -> Builds \cup {None}]
    BY <1>1, <1>2, <1>3, <1>4 DEF DropParts, Is, Fine, Begun, InstallSteps, RemoveSteps, RunSteps, IInv,
         TypeOK
  <2>4. parts' \in [Releases -> [0..(MaxParts - 1) -> Codes \cup {None}]]
    BY <1>1, <1>2, <1>3, <1>4 DEF DropParts, Is, Fine, Begun, InstallSteps, RemoveSteps, RunSteps, IInv,
         TypeOK, Empty, Codes
  <2>5. registry' \in Rows /\ grants' \in SUBSET Caps
    BY <1>1, <1>2, <1>3, <1>4, <2>2 DEF DropParts, Is, Fine, Begun, InstallSteps, RemoveSteps, RunSteps, Rows
  <2>6. \A rel \in Releases : meta'[rel] # None => meta'[rel] = meta[rel] \/ <<rel, meta'[rel]>> \in Accepted
    BY <1>1, <1>2, <1>3, <1>4 DEF DropParts, Is, Fine, Begun, InstallSteps, RemoveSteps, RunSteps, IInv,
         TypeOK, Accepted
  <2>7. registry'.by # r => registry'.by = registry.by
    BY <2>2 DEF DropParts, Rows
  <2>8. \A d \in grants' : d \in grants /\ (d \in registry.given => registry'.by = r \/ d \in registry'.given)
    BY <2>2 DEF DropParts, Rows
  <2>9. (registry'.by = None => registry'.rel = None /\ ~registry'.active) /\ (registry'.active => registry'.rel \in Releases)
    BY <1>1, <1>2, <1>3, <1>4, <2>2, Parts, NoneAssumption DEF DropParts, Is, Fine, Begun, InstallSteps,
         RemoveSteps, RunSteps, Rows
  <2>10. registry'.by = r => Prunes(n, registry', grants')
    BY <1>1, <1>2, <1>3, <1>4, <2>2, Parts, NoneAssumption DEF DropParts, Is, Fine, Begun, InstallSteps,
         RemoveSteps, RunSteps, Prunes, Rows
  <2>11. UNCHANGED backend OBVIOUS
  <2>. QED BY <1>1, <1>2, <1>3, <1>4, <1>5, <2>1, <2>3, <2>4, <2>5, <2>6, <2>7, <2>8, <2>9, <2>10, <2>11, WriteKeeps
<1>7. SameInstall(n, req[r]) /\ Ran(n) = Ran(req[r])
  BY <1>1, <1>2, <1>4, NewShape DEF Is, Fine, Begun, InstallSteps, RemoveSteps, RunSteps, SameInstall, Ran,
       DropParts
<1>8. Simulates
  BY <1>3, <1>7, SilentStep DEF DropParts
<1>. QED BY <1>6, <1>8

LEMMA DropMetaKeeps ==
    ASSUME IInv, NEW r \in Requests, DropMeta(r), UNCHANGED backend
    PROVE  IInv' /\ Simulates
<1>. DEFINE n == [req[r] EXCEPT !.at = IF req[r].known THEN "deactivate" ELSE "list"]
<1>1. n \in Requested /\ Is(n, IF req[r].known THEN "deactivate" ELSE "list", req[r].kind, req[r].rel, req[r].build, req[r].code, req[r].seq, req[r].caps, req[r].known, req[r].late, req[r].answer)
  BY GoShape DEF Requested, Steps, IInv, TypeOK, DropMeta
<1>2. Writes(r, n) /\ req[r].at = "dropmeta"
  BY Zenon DEF DropMeta, At, Becomes, Ended
<1>. HIDE DEF n
<1>3. req'[r] = n /\ \A x \in Requests \ {r} : Alike(x)
  BY <1>1, <1>2, WritesShape DEF IInv
<1>4. Fine(req[r]) /\ req[r] \in Requested
  BY Parts DEF IInv, TypeOK
<1>5. Fine(req[r])'
  BY <1>1, <1>2, <1>3, <1>4, Parts, NoneAssumption DEF Is, DropMeta, Fine, Begun, InstallGoes, RemovalGoes,
       AnswerIsTrue, InstallSteps, RemoveSteps, RunSteps, IInv, TypeOK
<1>6. IInv'
  <2>1. SameInstall(n, req[r]) /\ n.at \notin {"parts", "start"}
    BY <1>1, <1>2, <1>3, <1>4 DEF Is, Fine, Begun, InstallSteps, RemoveSteps, RunSteps, SameInstall
  <2>2. registry \in Rows /\ grants \in SUBSET Caps
    BY DEF IInv, TypeOK, Rows
  <2>3. meta' \in [Releases -> Builds \cup {None}]
    BY <1>1, <1>2, <1>3, <1>4 DEF DropMeta, Is, Fine, Begun, InstallSteps, RemoveSteps, RunSteps, IInv, TypeOK
  <2>4. parts' \in [Releases -> [0..(MaxParts - 1) -> Codes \cup {None}]]
    BY <1>1, <1>2, <1>3, <1>4 DEF DropMeta, Is, Fine, Begun, InstallSteps, RemoveSteps, RunSteps, IInv,
         TypeOK, Empty, Codes
  <2>5. registry' \in Rows /\ grants' \in SUBSET Caps
    BY <1>1, <1>2, <1>3, <1>4, <2>2 DEF DropMeta, Is, Fine, Begun, InstallSteps, RemoveSteps, RunSteps, Rows
  <2>6. \A rel \in Releases : meta'[rel] # None => meta'[rel] = meta[rel] \/ <<rel, meta'[rel]>> \in Accepted
    BY <1>1, <1>2, <1>3, <1>4 DEF DropMeta, Is, Fine, Begun, InstallSteps, RemoveSteps, RunSteps, IInv,
         TypeOK, Accepted
  <2>7. registry'.by # r => registry'.by = registry.by
    BY <2>2 DEF DropMeta, Rows
  <2>8. \A d \in grants' : d \in grants /\ (d \in registry.given => registry'.by = r \/ d \in registry'.given)
    BY <2>2 DEF DropMeta, Rows
  <2>9. (registry'.by = None => registry'.rel = None /\ ~registry'.active) /\ (registry'.active => registry'.rel \in Releases)
    BY <1>1, <1>2, <1>3, <1>4, <2>2, Parts, NoneAssumption DEF DropMeta, Is, Fine, Begun, InstallSteps,
         RemoveSteps, RunSteps, Rows
  <2>10. registry'.by = r => Prunes(n, registry', grants')
    BY <1>1, <1>2, <1>3, <1>4, <2>2, Parts, NoneAssumption DEF DropMeta, Is, Fine, Begun, InstallSteps,
         RemoveSteps, RunSteps, Prunes, Rows
  <2>11. UNCHANGED backend OBVIOUS
  <2>. QED BY <1>1, <1>2, <1>3, <1>4, <1>5, <2>1, <2>3, <2>4, <2>5, <2>6, <2>7, <2>8, <2>9, <2>10, <2>11, WriteKeeps
<1>7. SameInstall(n, req[r]) /\ Ran(n) = Ran(req[r])
  BY <1>1, <1>2, <1>4, NewShape DEF Is, Fine, Begun, InstallSteps, RemoveSteps, RunSteps, SameInstall, Ran,
       DropMeta
<1>8. Simulates
  BY <1>3, <1>7, SilentStep DEF DropMeta
<1>. QED BY <1>6, <1>8

LEMMA DeactivateKeeps ==
    ASSUME IInv, NEW r \in Requests, Deactivate(r), UNCHANGED backend
    PROVE  IInv' /\ Simulates
<1>. DEFINE n == [req[r] EXCEPT !.at = "list"]
<1>1. n \in Requested /\ Is(n, "list", req[r].kind, req[r].rel, req[r].build, req[r].code, req[r].seq, req[r].caps, req[r].known, req[r].late, req[r].answer)
  BY GoShape DEF Requested, Steps, IInv, TypeOK, Deactivate
<1>2. Writes(r, n) /\ req[r].at = "deactivate"
  BY Zenon DEF Deactivate, At, Becomes, Ended
<1>. HIDE DEF n
<1>3. req'[r] = n /\ \A x \in Requests \ {r} : Alike(x)
  BY <1>1, <1>2, WritesShape DEF IInv
<1>4. Fine(req[r]) /\ req[r] \in Requested
  BY Parts DEF IInv, TypeOK
<1>5. Fine(req[r])'
  BY <1>1, <1>2, <1>3, <1>4, NoneAssumption DEF Is, Deactivate, Fine, Begun, InstallGoes, RemovalGoes,
       AnswerIsTrue, InstallSteps, RemoveSteps, RunSteps, IInv, TypeOK
<1>6. IInv'
  <2>1. SameInstall(n, req[r]) /\ n.at \notin {"parts", "start"}
    BY <1>1, <1>2, <1>3, <1>4 DEF Is, Fine, Begun, InstallSteps, RemoveSteps, RunSteps, SameInstall
  <2>2. registry \in Rows /\ grants \in SUBSET Caps
    BY DEF IInv, TypeOK, Rows
  <2>3. meta' \in [Releases -> Builds \cup {None}]
    BY <1>1, <1>2, <1>3, <1>4 DEF Deactivate, Is, Fine, Begun, InstallSteps, RemoveSteps, RunSteps, IInv,
         TypeOK
  <2>4. parts' \in [Releases -> [0..(MaxParts - 1) -> Codes \cup {None}]]
    BY <1>1, <1>2, <1>3, <1>4 DEF Deactivate, Is, Fine, Begun, InstallSteps, RemoveSteps, RunSteps, IInv,
         TypeOK, Empty, Codes
  <2>5. registry' \in Rows /\ grants' \in SUBSET Caps
    BY <1>1, <1>2, <1>3, <1>4, <2>2 DEF Deactivate, Is, Fine, Begun, InstallSteps, RemoveSteps, RunSteps, Rows
  <2>6. \A rel \in Releases : meta'[rel] # None => meta'[rel] = meta[rel] \/ <<rel, meta'[rel]>> \in Accepted
    BY <1>1, <1>2, <1>3, <1>4 DEF Deactivate, Is, Fine, Begun, InstallSteps, RemoveSteps, RunSteps, IInv,
         TypeOK, Accepted
  <2>7. registry'.by # r => registry'.by = registry.by
    BY <2>2 DEF Deactivate, Rows
  <2>8. \A d \in grants' : d \in grants /\ (d \in registry.given => registry'.by = r \/ d \in registry'.given)
    BY <2>2 DEF Deactivate, Rows
  <2>9. (registry'.by = None => registry'.rel = None /\ ~registry'.active) /\ (registry'.active => registry'.rel \in Releases)
    BY <1>1, <1>2, <1>3, <1>4, <2>2, Parts, NoneAssumption DEF Deactivate, Is, Fine, Begun, InstallSteps,
         RemoveSteps, RunSteps, Rows
  <2>10. registry'.by = r => Prunes(n, registry', grants')
    BY <1>1, <1>2, <1>3, <1>4, <2>2, Parts, NoneAssumption DEF Deactivate, Is, Fine, Begun, InstallSteps,
         RemoveSteps, RunSteps, Prunes, Rows
  <2>11. UNCHANGED backend OBVIOUS
  <2>. QED BY <1>1, <1>2, <1>3, <1>4, <1>5, <2>1, <2>3, <2>4, <2>5, <2>6, <2>7, <2>8, <2>9, <2>10, <2>11, WriteKeeps
<1>7. SameInstall(n, req[r]) /\ Ran(n) = Ran(req[r])
  BY <1>1, <1>2, <1>4, NewShape DEF Is, Fine, Begun, InstallSteps, RemoveSteps, RunSteps, SameInstall, Ran,
       Deactivate
<1>8. Simulates
  BY <1>3, <1>7, SilentStep DEF Deactivate
<1>. QED BY <1>6, <1>8

LEMMA ListGrantsKeeps ==
    ASSUME IInv, NEW r \in Requests, ListGrants(r), UNCHANGED backend
    PROVE  IInv' /\ Simulates
<1>1. CASE grants = {}
  <2>. DEFINE n == [req[r] EXCEPT !.at = "done", !.answer = "ok"]
  <2>1. n \in Requested /\ Is(n, "done", req[r].kind, req[r].rel, req[r].build, req[r].code, req[r].seq, req[r].caps, req[r].known, req[r].late, "ok")
    BY <1>1, EndShape DEF Requested, Steps, IInv, TypeOK, ListGrants
  <2>2. req' = [req EXCEPT ![r] = n] /\ req[r].at = "list"
    BY <1>1, Zenon DEF ListGrants, At, Becomes, Ended
  <2>. HIDE DEF n
  <2>3. req'[r] = n /\ \A x \in Requests \ {r} : Alike(x)
    BY <2>1, <2>2, BecomesShape DEF IInv
  <2>4. Fine(req[r]) /\ req[r] \in Requested
    BY Parts DEF IInv, TypeOK
  <2>5. Fine(req[r])'
    BY <1>1, <2>1, <2>2, <2>3, <2>4, NoneAssumption DEF Is, ListGrants, Fine, Begun, InstallGoes, RemovalGoes,
         AnswerIsTrue, InstallSteps, RemoveSteps, RunSteps
  <2>6. IInv'
    <3>1. req[r].kind = "install" => SameInstall(n, req[r])
      BY <1>1, <2>1, <2>2, <2>3, <2>4, NewShape DEF Is, Fine, Begun, InstallSteps, RemoveSteps, RunSteps,
           SameInstall
    <3>2. UNCHANGED <<backend, meta, parts, grants>>
      BY <1>1, Zenon DEF ListGrants
    <3>3. registry \in Rows
      BY DEF IInv, TypeOK, Rows
    <3>4. registry' \in Rows /\ registry'.rel = registry.rel /\ registry'.by = registry.by
      BY <3>3, <1>1, Zenon DEF ListGrants
    <3>5. registry'.active = registry.active /\ (registry.by # r => registry' = registry)
      BY <3>3, Zenon DEF ListGrants, Rows
    <3>6. n.at \in {"parts", "start"} => <<n.rel, n.build>> \in Accepted
      BY <1>1, <2>1, <2>2, <2>3, <2>4 DEF Is, Fine, Begun, InstallSteps, RemoveSteps, RunSteps,
           StoredWasAccepted, IInv
    <3>7. n.at = "start" => n.code = CodeOf[n.build]
      BY <1>1, <2>1, <2>2, <2>3, <2>4 DEF Is, Fine, Begun, InstallSteps, RemoveSteps, RunSteps,
           StoredWasAccepted, IInv
    <3>8. registry.by = r => Prunes(n, registry', grants)
      BY <1>1, <2>1, <2>2, <2>3, <2>4, <3>3, Parts, NoneAssumption, NewShape
         DEF Is, Fine, Begun, InstallSteps, RemoveSteps, RunSteps, Prunes, ListGrants, Rows
    <3>. QED BY <2>1, <2>2, <2>3, <2>4, <2>5, <3>1, <3>2, <3>3, <3>4, <3>5, <3>6, <3>7, <3>8, CalmKeeps
  <2>7. SameInstall(n, req[r]) /\ Ran(n) = Ran(req[r])
    BY <1>1, <2>1, <2>2, <2>4, NewShape DEF Is, Fine, Begun, InstallSteps, RemoveSteps, RunSteps, SameInstall,
         Ran, ListGrants
  <2>8. Simulates
    BY <1>1, <2>3, <2>7, SilentStep DEF ListGrants
  <2>. QED BY <2>6, <2>8
<1>2. CASE grants # {}
  <2>. DEFINE n == [req[r] EXCEPT !.caps = grants, !.at = "revoke"]
  <2>1. n \in Requested /\ Is(n, "revoke", req[r].kind, req[r].rel, req[r].build, req[r].code, req[r].seq, grants, req[r].known, req[r].late, req[r].answer)
    BY <1>2, FindShape DEF Requested, Steps, IInv, TypeOK, ListGrants
  <2>2. req' = [req EXCEPT ![r] = n] /\ req[r].at = "list"
    BY <1>2, Zenon DEF ListGrants, At, Becomes, Ended
  <2>. HIDE DEF n
  <2>3. req'[r] = n /\ \A x \in Requests \ {r} : Alike(x)
    BY <2>1, <2>2, BecomesShape DEF IInv
  <2>4. Fine(req[r]) /\ req[r] \in Requested
    BY Parts DEF IInv, TypeOK
  <2>5. Fine(req[r])'
    BY <1>2, <2>1, <2>2, <2>3, <2>4, NoneAssumption DEF Is, ListGrants, Fine, Begun, InstallGoes, RemovalGoes,
         AnswerIsTrue, InstallSteps, RemoveSteps, RunSteps
  <2>6. IInv'
    <3>1. req[r].kind = "install" => SameInstall(n, req[r])
      BY <1>2, <2>1, <2>2, <2>3, <2>4, NewShape DEF Is, Fine, Begun, InstallSteps, RemoveSteps, RunSteps,
           SameInstall
    <3>2. UNCHANGED <<backend, meta, parts, grants>>
      BY <1>2, Zenon DEF ListGrants
    <3>3. registry \in Rows
      BY DEF IInv, TypeOK, Rows
    <3>4. registry' \in Rows /\ registry'.rel = registry.rel /\ registry'.by = registry.by
      BY <3>3, <1>2, Zenon DEF ListGrants
    <3>5. registry'.active = registry.active /\ (registry.by # r => registry' = registry)
      BY <3>3, Zenon DEF ListGrants, Rows
    <3>6. n.at \in {"parts", "start"} => <<n.rel, n.build>> \in Accepted
      BY <1>2, <2>1, <2>2, <2>3, <2>4 DEF Is, Fine, Begun, InstallSteps, RemoveSteps, RunSteps,
           StoredWasAccepted, IInv
    <3>7. n.at = "start" => n.code = CodeOf[n.build]
      BY <1>2, <2>1, <2>2, <2>3, <2>4 DEF Is, Fine, Begun, InstallSteps, RemoveSteps, RunSteps,
           StoredWasAccepted, IInv
    <3>8. registry.by = r => Prunes(n, registry', grants)
      BY <1>2, <2>1, <2>2, <2>3, <2>4, <3>3, Parts, NoneAssumption, NewShape
         DEF Is, Fine, Begun, InstallSteps, RemoveSteps, RunSteps, Prunes, ListGrants, Rows
    <3>. QED BY <2>1, <2>2, <2>3, <2>4, <2>5, <3>1, <3>2, <3>3, <3>4, <3>5, <3>6, <3>7, <3>8, CalmKeeps
  <2>7. SameInstall(n, req[r]) /\ Ran(n) = Ran(req[r])
    BY <1>2, <2>1, <2>2, <2>4, NewShape DEF Is, Fine, Begun, InstallSteps, RemoveSteps, RunSteps, SameInstall,
         Ran, ListGrants
  <2>8. Simulates
    BY <1>2, <2>3, <2>7, SilentStep DEF ListGrants
  <2>. QED BY <2>6, <2>8
<1>. QED BY <1>1, <1>2

LEMMA BeginRunKeeps ==
    ASSUME IInv, NEW r \in Requests, BeginRun(r), UNCHANGED backend
    PROVE  IInv' /\ Simulates
<1>1. CASE registry.active
  <2>. DEFINE n == [New EXCEPT !.at = "load", !.kind = "run", !.rel = registry.rel]
  <2>1. n \in Requested /\ Is(n, "load", "run", registry.rel, None, None, 0, {}, FALSE, FALSE, "none")
    <3>1. 0 \in 0..MaxParts BY PartsAssumption
    <3>2. n \in Requested /\ n.at = "load" /\ n.kind = "run" /\ n.rel = registry.rel /\ n.build = None /\ n.code = None
      BY <1>1, <3>1, Parts DEF New, Requested, IInv, TypeOK
    <3>3. n.seq = 0 /\ n.caps = {} /\ n.answer = "none" BY DEF New
    <3>4. n.known = (FALSE) /\ n.late = FALSE BY Zenon DEF New
    <3>. QED BY <3>2, <3>3, <3>4 DEF Is
  <2>2. req' = [req EXCEPT ![r] = n] /\ req[r].at = "new"
    BY <1>1, Zenon DEF BeginRun, At, Becomes, Ended
  <2>. HIDE DEF n
  <2>3. req'[r] = n /\ \A x \in Requests \ {r} : Alike(x)
    BY <2>1, <2>2, BecomesShape DEF IInv
  <2>4. Fine(req[r]) /\ req[r] \in Requested
    BY Parts DEF IInv, TypeOK
  <2>5. Fine(req[r])'
    BY <1>1, <2>1, <2>2, <2>3, <2>4, NewShape, Parts, NoneAssumption
       DEF Is, BeginRun, Fine, Begun, InstallGoes, RemovalGoes, AnswerIsTrue, InstallSteps, RemoveSteps,
         RunSteps
  <2>6. IInv'
    <3>1. req[r].kind = "install" => SameInstall(n, req[r])
      BY <1>1, <2>1, <2>2, <2>3, <2>4, NewShape DEF Is, Fine, Begun, InstallSteps, RemoveSteps, RunSteps,
           SameInstall
    <3>2. UNCHANGED <<backend, meta, parts, grants>>
      BY <1>1, Zenon DEF BeginRun
    <3>3. registry \in Rows
      BY DEF IInv, TypeOK, Rows
    <3>4. registry' \in Rows /\ registry'.rel = registry.rel /\ registry'.by = registry.by
      BY <3>3, <1>1, Zenon DEF BeginRun
    <3>5. registry'.active = registry.active /\ (registry.by # r => registry' = registry)
      BY <3>3, Zenon DEF BeginRun, Rows
    <3>6. n.at \in {"parts", "start"} => <<n.rel, n.build>> \in Accepted
      BY <1>1, <2>1, <2>2, <2>3, <2>4 DEF Is, Fine, Begun, InstallSteps, RemoveSteps, RunSteps,
           StoredWasAccepted, IInv
    <3>7. n.at = "start" => n.code = CodeOf[n.build]
      BY <1>1, <2>1, <2>2, <2>3, <2>4 DEF Is, Fine, Begun, InstallSteps, RemoveSteps, RunSteps,
           StoredWasAccepted, IInv
    <3>8. registry.by = r => Prunes(n, registry', grants)
      BY <1>1, <2>1, <2>2, <2>3, <2>4, <3>3, Parts, NoneAssumption, NewShape
         DEF Is, Fine, Begun, InstallSteps, RemoveSteps, RunSteps, Prunes, BeginRun, Rows
    <3>. QED BY <2>1, <2>2, <2>3, <2>4, <2>5, <3>1, <3>2, <3>3, <3>4, <3>5, <3>6, <3>7, <3>8, CalmKeeps
  <2>7. SameInstall(n, req[r]) /\ Ran(n) = Ran(req[r])
    BY <1>1, <2>1, <2>2, <2>4, NewShape DEF Is, Fine, Begun, InstallSteps, RemoveSteps, RunSteps, SameInstall,
         Ran, BeginRun
  <2>8. Simulates
    BY <1>1, <2>3, <2>7, SilentStep DEF BeginRun
  <2>. QED BY <2>6, <2>8
<1>2. CASE ~registry.active
  <2>. DEFINE n == [req[r] EXCEPT !.at = "done", !.answer = "refused"]
  <2>1. n \in Requested /\ Is(n, "done", req[r].kind, req[r].rel, req[r].build, req[r].code, req[r].seq, req[r].caps, req[r].known, req[r].late, "refused")
    BY <1>2, EndShape DEF Requested, Steps, IInv, TypeOK, BeginRun
  <2>2. req' = [req EXCEPT ![r] = n] /\ req[r].at = "new"
    BY <1>2, Zenon DEF BeginRun, At, Becomes, Ended
  <2>. HIDE DEF n
  <2>3. req'[r] = n /\ \A x \in Requests \ {r} : Alike(x)
    BY <2>1, <2>2, BecomesShape DEF IInv
  <2>4. Fine(req[r]) /\ req[r] \in Requested
    BY Parts DEF IInv, TypeOK
  <2>5. Fine(req[r])'
    BY <1>2, <2>1, <2>2, <2>3, <2>4, NewShape, NoneAssumption
       DEF Is, BeginRun, Fine, Begun, InstallGoes, RemovalGoes, AnswerIsTrue, InstallSteps, RemoveSteps,
         RunSteps
  <2>6. IInv'
    <3>1. req[r].kind = "install" => SameInstall(n, req[r])
      BY <1>2, <2>1, <2>2, <2>3, <2>4, NewShape DEF Is, Fine, Begun, InstallSteps, RemoveSteps, RunSteps,
           SameInstall
    <3>2. UNCHANGED <<backend, meta, parts, grants>>
      BY <1>2, Zenon DEF BeginRun
    <3>3. registry \in Rows
      BY DEF IInv, TypeOK, Rows
    <3>4. registry' \in Rows /\ registry'.rel = registry.rel /\ registry'.by = registry.by
      BY <3>3, <1>2, Zenon DEF BeginRun
    <3>5. registry'.active = registry.active /\ (registry.by # r => registry' = registry)
      BY <3>3, Zenon DEF BeginRun, Rows
    <3>6. n.at \in {"parts", "start"} => <<n.rel, n.build>> \in Accepted
      BY <1>2, <2>1, <2>2, <2>3, <2>4 DEF Is, Fine, Begun, InstallSteps, RemoveSteps, RunSteps,
           StoredWasAccepted, IInv
    <3>7. n.at = "start" => n.code = CodeOf[n.build]
      BY <1>2, <2>1, <2>2, <2>3, <2>4 DEF Is, Fine, Begun, InstallSteps, RemoveSteps, RunSteps,
           StoredWasAccepted, IInv
    <3>8. registry.by = r => Prunes(n, registry', grants)
      BY <1>2, <2>1, <2>2, <2>3, <2>4, <3>3, Parts, NoneAssumption, NewShape
         DEF Is, Fine, Begun, InstallSteps, RemoveSteps, RunSteps, Prunes, BeginRun, Rows
    <3>. QED BY <2>1, <2>2, <2>3, <2>4, <2>5, <3>1, <3>2, <3>3, <3>4, <3>5, <3>6, <3>7, <3>8, CalmKeeps
  <2>7. SameInstall(n, req[r]) /\ Ran(n) = Ran(req[r])
    BY <1>2, <2>1, <2>2, <2>4, NewShape DEF Is, Fine, Begun, InstallSteps, RemoveSteps, RunSteps, SameInstall,
         Ran, BeginRun
  <2>8. Simulates
    BY <1>2, <2>3, <2>7, SilentStep DEF BeginRun
  <2>. QED BY <2>6, <2>8
<1>. QED BY <1>1, <1>2

LEMMA LoadMetaKeeps ==
    ASSUME IInv, NEW r \in Requests, LoadMeta(r), UNCHANGED backend
    PROVE  IInv' /\ Simulates
<1>1. CASE meta[req[r].rel] = None
  <2>. DEFINE n == [req[r] EXCEPT !.at = "done", !.answer = "refused"]
  <2>1. n \in Requested /\ Is(n, "done", req[r].kind, req[r].rel, req[r].build, req[r].code, req[r].seq, req[r].caps, req[r].known, req[r].late, "refused")
    BY <1>1, EndShape DEF Requested, Steps, IInv, TypeOK, LoadMeta
  <2>2. req' = [req EXCEPT ![r] = n] /\ req[r].at = "load"
    BY <1>1, Zenon DEF LoadMeta, At, Becomes, Ended
  <2>. HIDE DEF n
  <2>3. req'[r] = n /\ \A x \in Requests \ {r} : Alike(x)
    BY <2>1, <2>2, BecomesShape DEF IInv
  <2>4. Fine(req[r]) /\ req[r] \in Requested
    BY Parts DEF IInv, TypeOK
  <2>5. Fine(req[r])'
    BY <1>1, <2>1, <2>2, <2>3, <2>4, NoneAssumption DEF Is, LoadMeta, Fine, Begun, InstallGoes, RemovalGoes,
         AnswerIsTrue, InstallSteps, RemoveSteps, RunSteps
  <2>6. IInv'
    <3>1. req[r].kind = "install" => SameInstall(n, req[r])
      BY <1>1, <2>1, <2>2, <2>3, <2>4, NewShape DEF Is, Fine, Begun, InstallSteps, RemoveSteps, RunSteps,
           SameInstall
    <3>2. UNCHANGED <<backend, meta, parts, grants>>
      BY <1>1, Zenon DEF LoadMeta
    <3>3. registry \in Rows
      BY DEF IInv, TypeOK, Rows
    <3>4. registry' \in Rows /\ registry'.rel = registry.rel /\ registry'.by = registry.by
      BY <3>3, <1>1, Zenon DEF LoadMeta
    <3>5. registry'.active = registry.active /\ (registry.by # r => registry' = registry)
      BY <3>3, Zenon DEF LoadMeta, Rows
    <3>6. n.at \in {"parts", "start"} => <<n.rel, n.build>> \in Accepted
      BY <1>1, <2>1, <2>2, <2>3, <2>4 DEF Is, Fine, Begun, InstallSteps, RemoveSteps, RunSteps,
           StoredWasAccepted, IInv
    <3>7. n.at = "start" => n.code = CodeOf[n.build]
      BY <1>1, <2>1, <2>2, <2>3, <2>4 DEF Is, Fine, Begun, InstallSteps, RemoveSteps, RunSteps,
           StoredWasAccepted, IInv
    <3>8. registry.by = r => Prunes(n, registry', grants)
      BY <1>1, <2>1, <2>2, <2>3, <2>4, <3>3, Parts, NoneAssumption, NewShape
         DEF Is, Fine, Begun, InstallSteps, RemoveSteps, RunSteps, Prunes, LoadMeta, Rows
    <3>. QED BY <2>1, <2>2, <2>3, <2>4, <2>5, <3>1, <3>2, <3>3, <3>4, <3>5, <3>6, <3>7, <3>8, CalmKeeps
  <2>7. SameInstall(n, req[r]) /\ Ran(n) = Ran(req[r])
    BY <1>1, <2>1, <2>2, <2>4, NewShape DEF Is, Fine, Begun, InstallSteps, RemoveSteps, RunSteps, SameInstall,
         Ran, LoadMeta
  <2>8. Simulates
    BY <1>1, <2>3, <2>7, SilentStep DEF LoadMeta
  <2>. QED BY <2>6, <2>8
<1>2. CASE meta[req[r].rel] # None
  <2>. DEFINE n == [req[r] EXCEPT !.build = meta[req[r].rel], !.at = "parts"]
  <2>1. n \in Requested /\ Is(n, "parts", req[r].kind, req[r].rel, meta[req[r].rel], req[r].code, req[r].seq, req[r].caps, req[r].known, req[r].late, req[r].answer)
    <3>0. meta[req[r].rel] \in Builds /\ req[r] \in Requested
      BY <1>2, Parts DEF LoadMeta, At, Fine, Begun, RunSteps, IInv, TypeOK
    <3>1. n \in Requested /\ n.at = "parts" /\ n.kind = req[r].kind /\ n.rel = req[r].rel /\ n.build = meta[req[r].rel] /\ n.code = req[r].code
      BY <1>2, <3>0 DEF Requested, IInv, TypeOK, Fine, Begun, StoredWasAccepted
    <3>2. n.seq = req[r].seq /\ n.caps = req[r].caps /\ n.answer = req[r].answer BY <3>0
       DEF Requested, IInv, TypeOK
    <3>3. n.known = req[r].known BY <3>0, Zenon DEF Requested, IInv, TypeOK
    <3>4. n.late = req[r].late BY <3>0, Zenon DEF Requested, IInv, TypeOK
    <3>. QED BY <3>1, <3>2, <3>3, <3>4 DEF Is
  <2>2. req' = [req EXCEPT ![r] = n] /\ req[r].at = "load"
    BY <1>2, Zenon DEF LoadMeta, At, Becomes, Ended
  <2>. HIDE DEF n
  <2>3. req'[r] = n /\ \A x \in Requests \ {r} : Alike(x)
    BY <2>1, <2>2, BecomesShape DEF IInv
  <2>4. Fine(req[r]) /\ req[r] \in Requested
    BY Parts DEF IInv, TypeOK
  <2>5. Fine(req[r])'
    BY <1>2, <2>1, <2>2, <2>3, <2>4, NoneAssumption DEF Is, LoadMeta, Fine, Begun, InstallGoes, RemovalGoes,
         AnswerIsTrue, InstallSteps, RemoveSteps, RunSteps, IInv, TypeOK
  <2>6. IInv'
    <3>1. req[r].kind = "install" => SameInstall(n, req[r])
      BY <1>2, <2>1, <2>2, <2>3, <2>4, NewShape DEF Is, Fine, Begun, InstallSteps, RemoveSteps, RunSteps,
           SameInstall
    <3>2. UNCHANGED <<backend, meta, parts, grants>>
      BY <1>2, Zenon DEF LoadMeta
    <3>3. registry \in Rows
      BY DEF IInv, TypeOK, Rows
    <3>4. registry' \in Rows /\ registry'.rel = registry.rel /\ registry'.by = registry.by
      BY <3>3, <1>2, Zenon DEF LoadMeta
    <3>5. registry'.active = registry.active /\ (registry.by # r => registry' = registry)
      BY <3>3, Zenon DEF LoadMeta, Rows
    <3>6. n.at \in {"parts", "start"} => <<n.rel, n.build>> \in Accepted
      BY <1>2, <2>1, <2>2, <2>3, <2>4 DEF Is, Fine, Begun, InstallSteps, RemoveSteps, RunSteps,
           StoredWasAccepted, IInv
    <3>7. n.at = "start" => n.code = CodeOf[n.build]
      BY <1>2, <2>1, <2>2, <2>3, <2>4 DEF Is, Fine, Begun, InstallSteps, RemoveSteps, RunSteps,
           StoredWasAccepted, IInv
    <3>8. registry.by = r => Prunes(n, registry', grants)
      BY <1>2, <2>1, <2>2, <2>3, <2>4, <3>3, Parts, NoneAssumption, NewShape
         DEF Is, Fine, Begun, InstallSteps, RemoveSteps, RunSteps, Prunes, LoadMeta, Rows
    <3>. QED BY <2>1, <2>2, <2>3, <2>4, <2>5, <3>1, <3>2, <3>3, <3>4, <3>5, <3>6, <3>7, <3>8, CalmKeeps
  <2>7. SameInstall(n, req[r]) /\ Ran(n) = Ran(req[r])
    BY <1>2, <2>1, <2>2, <2>4, NewShape DEF Is, Fine, Begun, InstallSteps, RemoveSteps, RunSteps, SameInstall,
         Ran, LoadMeta
  <2>8. Simulates
    BY <1>2, <2>3, <2>7, SilentStep DEF LoadMeta
  <2>. QED BY <2>6, <2>8
<1>. QED BY <1>1, <1>2

LEMMA BreakKeeps ==
    ASSUME IInv, NEW r \in Requests, Break(r), UNCHANGED backend
    PROVE  IInv' /\ Simulates
<1>. DEFINE n == [req[r] EXCEPT !.at = "done", !.answer = "failed"]
<1>1. n \in Requested /\ Is(n, "done", req[r].kind, req[r].rel, req[r].build, req[r].code, req[r].seq, req[r].caps, req[r].known, req[r].late, "failed")
  BY EndShape DEF Requested, Steps, IInv, TypeOK, Break
<1>2. req' = [req EXCEPT ![r] = n] /\ req[r].at = req[r].at
  BY Zenon DEF Break, At, Becomes, Ended
<1>. HIDE DEF n
<1>3. req'[r] = n /\ \A x \in Requests \ {r} : Alike(x)
  BY <1>1, <1>2, BecomesShape DEF IInv
<1>4. Fine(req[r]) /\ req[r] \in Requested
  BY Parts DEF IInv, TypeOK
<1>5. Fine(req[r])'
  BY <1>1, <1>2, <1>3, <1>4, NoneAssumption DEF Is, Break, Fine, Begun, InstallGoes, RemovalGoes,
       AnswerIsTrue, InstallSteps, RemoveSteps, RunSteps
<1>6. IInv'
  <2>1. req[r].kind = "install" => SameInstall(n, req[r])
    BY <1>1, <1>2, <1>3, <1>4, NewShape DEF Is, Fine, Begun, InstallSteps, RemoveSteps, RunSteps, SameInstall
  <2>2. UNCHANGED <<backend, meta, parts, grants>>
    BY Zenon DEF Break
  <2>3. registry \in Rows
    BY DEF IInv, TypeOK, Rows
  <2>4. registry' \in Rows /\ registry'.rel = registry.rel /\ registry'.by = registry.by
    BY <2>3, Zenon DEF Break
  <2>5. registry'.active = registry.active /\ (registry.by # r => registry' = registry)
    BY <2>3, Zenon DEF Break, Rows
  <2>6. n.at \in {"parts", "start"} => <<n.rel, n.build>> \in Accepted
    BY <1>1, <1>2, <1>3, <1>4 DEF Is, Fine, Begun, InstallSteps, RemoveSteps, RunSteps, StoredWasAccepted,
         IInv
  <2>7. n.at = "start" => n.code = CodeOf[n.build]
    BY <1>1, <1>2, <1>3, <1>4 DEF Is, Fine, Begun, InstallSteps, RemoveSteps, RunSteps, StoredWasAccepted,
         IInv
  <2>8. registry.by = r => Prunes(n, registry', grants)
    BY <1>1, <1>2, <1>3, <1>4, <2>3, Parts, NoneAssumption, NewShape
       DEF Is, Fine, Begun, InstallSteps, RemoveSteps, RunSteps, Prunes, Break, Rows
  <2>. QED BY <1>1, <1>2, <1>3, <1>4, <1>5, <2>1, <2>2, <2>3, <2>4, <2>5, <2>6, <2>7, <2>8, CalmKeeps
<1>7. SameInstall(n, req[r]) /\ Ran(n) = Ran(req[r])
  BY <1>1, <1>2, <1>4, NewShape DEF Is, Fine, Begun, InstallSteps, RemoveSteps, RunSteps, SameInstall, Ran,
       Break
<1>8. Simulates
  BY <1>3, <1>7, SilentStep DEF Break
<1>. QED BY <1>6, <1>8

LEMMA LoadPartsKeeps ==
    ASSUME IInv, NEW r \in Requests, LoadParts(r), UNCHANGED backend
    PROVE  IInv' /\ Simulates
<1>1. CASE req' = [req EXCEPT ![r] = [req[r] EXCEPT !.code = CodeOf[req[r].build], !.at = "start"]]
  <2>. DEFINE n == [req[r] EXCEPT !.code = CodeOf[req[r].build], !.at = "start"]
  <2>1. n \in Requested /\ Is(n, "start", req[r].kind, req[r].rel, req[r].build, CodeOf[req[r].build], req[r].seq, req[r].caps, req[r].known, req[r].late, req[r].answer)
    <3>0. CodeOf[req[r].build] \in Codes /\ req[r] \in Requested
      BY Parts DEF LoadParts, At, Fine, Begun, Codes, IInv, TypeOK
    <3>1. n \in Requested /\ n.at = "start" /\ n.kind = req[r].kind /\ n.rel = req[r].rel /\ n.code = CodeOf[req[r].build] /\ n.build = req[r].build
      BY <3>0 DEF Requested
    <3>2. n.seq = req[r].seq /\ n.caps = req[r].caps /\ n.answer = req[r].answer BY <3>0 DEF Requested
    <3>3. n.known = req[r].known BY <3>0, Zenon DEF Requested
    <3>4. n.late = req[r].late BY <3>0, Zenon DEF Requested
    <3>. QED BY <3>1, <3>2, <3>3, <3>4 DEF Is
  <2>2. req' = [req EXCEPT ![r] = n] /\ req[r].at = "parts"
    BY <1>1, Zenon DEF LoadParts, At, Becomes, Ended
  <2>. HIDE DEF n
  <2>3. req'[r] = n /\ \A x \in Requests \ {r} : Alike(x)
    BY <2>1, <2>2, BecomesShape DEF IInv
  <2>4. Fine(req[r]) /\ req[r] \in Requested
    BY Parts DEF IInv, TypeOK
  <2>5. Fine(req[r])'
    BY <1>1, <2>1, <2>2, <2>3, <2>4, NoneAssumption DEF Is, LoadParts, Fine, Begun, InstallGoes, RemovalGoes,
         AnswerIsTrue, InstallSteps, RemoveSteps, RunSteps
  <2>6. IInv'
    <3>1. req[r].kind = "install" => SameInstall(n, req[r])
      BY <1>1, <2>1, <2>2, <2>3, <2>4, NewShape DEF Is, Fine, Begun, InstallSteps, RemoveSteps, RunSteps,
           SameInstall
    <3>2. UNCHANGED <<backend, meta, parts, grants>>
      BY <1>1, Zenon DEF LoadParts
    <3>3. registry \in Rows
      BY DEF IInv, TypeOK, Rows
    <3>4. registry' \in Rows /\ registry'.rel = registry.rel /\ registry'.by = registry.by
      BY <3>3, <1>1, Zenon DEF LoadParts
    <3>5. registry'.active = registry.active /\ (registry.by # r => registry' = registry)
      BY <3>3, Zenon DEF LoadParts, Rows
    <3>6. n.at \in {"parts", "start"} => <<n.rel, n.build>> \in Accepted
      BY <1>1, <2>1, <2>2, <2>3, <2>4 DEF Is, Fine, Begun, InstallSteps, RemoveSteps, RunSteps,
           StoredWasAccepted, IInv
    <3>7. n.at = "start" => n.code = CodeOf[n.build]
      BY <1>1, <2>1, <2>2, <2>3, <2>4 DEF Is, Fine, Begun, InstallSteps, RemoveSteps, RunSteps,
           StoredWasAccepted, IInv
    <3>8. registry.by = r => Prunes(n, registry', grants)
      BY <1>1, <2>1, <2>2, <2>3, <2>4, <3>3, Parts, NoneAssumption, NewShape
         DEF Is, Fine, Begun, InstallSteps, RemoveSteps, RunSteps, Prunes, LoadParts, Rows
    <3>. QED BY <2>1, <2>2, <2>3, <2>4, <2>5, <3>1, <3>2, <3>3, <3>4, <3>5, <3>6, <3>7, <3>8, CalmKeeps
  <2>7. SameInstall(n, req[r]) /\ Ran(n) = Ran(req[r])
    BY <1>1, <2>1, <2>2, <2>4, NewShape DEF Is, Fine, Begun, InstallSteps, RemoveSteps, RunSteps, SameInstall,
         Ran, LoadParts
  <2>8. Simulates
    BY <1>1, <2>3, <2>7, SilentStep DEF LoadParts
  <2>. QED BY <2>6, <2>8
<1>2. CASE req' = [req EXCEPT ![r] = [req[r] EXCEPT !.at = "done", !.answer = "refused"]]
  <2>. DEFINE n == [req[r] EXCEPT !.at = "done", !.answer = "refused"]
  <2>1. n \in Requested /\ Is(n, "done", req[r].kind, req[r].rel, req[r].build, req[r].code, req[r].seq, req[r].caps, req[r].known, req[r].late, "refused")
    BY <1>2, EndShape DEF Requested, Steps, IInv, TypeOK, LoadParts
  <2>2. req' = [req EXCEPT ![r] = n] /\ req[r].at = "parts"
    BY <1>2, Zenon DEF LoadParts, At, Becomes, Ended
  <2>. HIDE DEF n
  <2>3. req'[r] = n /\ \A x \in Requests \ {r} : Alike(x)
    BY <2>1, <2>2, BecomesShape DEF IInv
  <2>4. Fine(req[r]) /\ req[r] \in Requested
    BY Parts DEF IInv, TypeOK
  <2>5. Fine(req[r])'
    BY <1>2, <2>1, <2>2, <2>3, <2>4, NoneAssumption DEF Is, LoadParts, Fine, Begun, InstallGoes, RemovalGoes,
         AnswerIsTrue, InstallSteps, RemoveSteps, RunSteps
  <2>6. IInv'
    <3>1. req[r].kind = "install" => SameInstall(n, req[r])
      BY <1>2, <2>1, <2>2, <2>3, <2>4, NewShape DEF Is, Fine, Begun, InstallSteps, RemoveSteps, RunSteps,
           SameInstall
    <3>2. UNCHANGED <<backend, meta, parts, grants>>
      BY <1>2, Zenon DEF LoadParts
    <3>3. registry \in Rows
      BY DEF IInv, TypeOK, Rows
    <3>4. registry' \in Rows /\ registry'.rel = registry.rel /\ registry'.by = registry.by
      BY <3>3, <1>2, Zenon DEF LoadParts
    <3>5. registry'.active = registry.active /\ (registry.by # r => registry' = registry)
      BY <3>3, Zenon DEF LoadParts, Rows
    <3>6. n.at \in {"parts", "start"} => <<n.rel, n.build>> \in Accepted
      BY <1>2, <2>1, <2>2, <2>3, <2>4 DEF Is, Fine, Begun, InstallSteps, RemoveSteps, RunSteps,
           StoredWasAccepted, IInv
    <3>7. n.at = "start" => n.code = CodeOf[n.build]
      BY <1>2, <2>1, <2>2, <2>3, <2>4 DEF Is, Fine, Begun, InstallSteps, RemoveSteps, RunSteps,
           StoredWasAccepted, IInv
    <3>8. registry.by = r => Prunes(n, registry', grants)
      BY <1>2, <2>1, <2>2, <2>3, <2>4, <3>3, Parts, NoneAssumption, NewShape
         DEF Is, Fine, Begun, InstallSteps, RemoveSteps, RunSteps, Prunes, LoadParts, Rows
    <3>. QED BY <2>1, <2>2, <2>3, <2>4, <2>5, <3>1, <3>2, <3>3, <3>4, <3>5, <3>6, <3>7, <3>8, CalmKeeps
  <2>7. SameInstall(n, req[r]) /\ Ran(n) = Ran(req[r])
    BY <1>2, <2>1, <2>2, <2>4, NewShape DEF Is, Fine, Begun, InstallSteps, RemoveSteps, RunSteps, SameInstall,
         Ran, LoadParts
  <2>8. Simulates
    BY <1>2, <2>3, <2>7, SilentStep DEF LoadParts
  <2>. QED BY <2>6, <2>8
<1>. QED BY <1>1, <1>2 DEF LoadParts, Becomes, Ended

LEMMA StartKeeps ==
    ASSUME IInv, NEW r \in Requests, Start(r), UNCHANGED backend
    PROVE  IInv' /\ Simulates
<1>. DEFINE n == [Ended(r, "ok") EXCEPT !.caps = grants \cap CapsOf[req[r].build]]
<1>1. n \in Requested /\ Is(n, "done", req[r].kind, req[r].rel, req[r].build, req[r].code, req[r].seq, grants \cap CapsOf[req[r].build], req[r].known, req[r].late, "ok")
  <2>. DEFINE q == Ended(r, "ok")
  <2>1. q \in Requested /\ Is(q, "done", req[r].kind, req[r].rel, req[r].build, req[r].code, req[r].seq, req[r].caps, req[r].known, req[r].late, "ok")
    BY EndShape DEF Ended, IInv, TypeOK
  <2>2. n = [q EXCEPT !.caps = grants \cap CapsOf[req[r].build]]
    OBVIOUS
  <2>3. grants \cap CapsOf[req[r].build] \in SUBSET Caps
    BY <2>1 DEF IInv, TypeOK, Requested
  <2>. HIDE DEF q, n
  <2>4. n \in Requested /\ Is(n, q.at, q.kind, q.rel, q.build, q.code, q.seq, grants \cap CapsOf[req[r].build], q.known, q.late, q.answer)
    BY <2>1, <2>2, <2>3, CapsShape
  <2>. QED BY <2>1, <2>4 DEF Is
<1>2. req' = [req EXCEPT ![r] = n] /\ req[r].at = "start"
  BY Zenon DEF Start, At, Becomes, Ended
<1>. HIDE DEF n
<1>3. req'[r] = n /\ \A x \in Requests \ {r} : Alike(x)
  BY <1>1, <1>2, BecomesShape DEF IInv
<1>4. Fine(req[r]) /\ req[r] \in Requested
  BY Parts DEF IInv, TypeOK
<1>5. Fine(req[r])'
  BY <1>1, <1>2, <1>3, <1>4, NoneAssumption DEF Is, Start, Fine, Begun, InstallGoes, RemovalGoes,
       AnswerIsTrue, InstallSteps, RemoveSteps, RunSteps
<1>6. IInv'
  <2>1. req[r].kind = "install" => SameInstall(n, req[r])
    BY <1>1, <1>2, <1>3, <1>4, NewShape DEF Is, Fine, Begun, InstallSteps, RemoveSteps, RunSteps, SameInstall
  <2>2. UNCHANGED <<backend, meta, parts, grants>>
    BY Zenon DEF Start
  <2>3. registry \in Rows
    BY DEF IInv, TypeOK, Rows
  <2>4. registry' \in Rows /\ registry'.rel = registry.rel /\ registry'.by = registry.by
    BY <2>3, Zenon DEF Start
  <2>5. registry'.active = registry.active /\ (registry.by # r => registry' = registry)
    BY <2>3, Zenon DEF Start, Rows
  <2>6. n.at \in {"parts", "start"} => <<n.rel, n.build>> \in Accepted
    BY <1>1, <1>2, <1>3, <1>4 DEF Is, Fine, Begun, InstallSteps, RemoveSteps, RunSteps, StoredWasAccepted,
         IInv
  <2>7. n.at = "start" => n.code = CodeOf[n.build]
    BY <1>1, <1>2, <1>3, <1>4 DEF Is, Fine, Begun, InstallSteps, RemoveSteps, RunSteps, StoredWasAccepted,
         IInv
  <2>8. registry.by = r => Prunes(n, registry', grants)
    BY <1>1, <1>2, <1>3, <1>4, <2>3, Parts, NoneAssumption, NewShape
       DEF Is, Fine, Begun, InstallSteps, RemoveSteps, RunSteps, Prunes, Start, Rows
  <2>. QED BY <1>1, <1>2, <1>3, <1>4, <1>5, <2>1, <2>2, <2>3, <2>4, <2>5, <2>6, <2>7, <2>8, CalmKeeps
<1>7. req[r].kind = "run" /\ req[r].answer = "none" BY <1>2, <1>4 DEF Fine, Begun, RunSteps
<1>8. Accepted' = Accepted
  <2>1. SameInstall(req'[r], req[r]) BY <1>1, <1>3, <1>7 DEF Is, SameInstall
  <2>. QED BY <2>1, <1>3, AcceptedStays
<1>9. /\ req[r].rel \in Releases /\ req[r].build \in Builds
      /\ <<req[r].rel, req[r].build>> \in Accepted /\ req[r].code = CodeOf[req[r].build]
  BY <1>2, <1>4, <1>7 DEF Fine, Begun, StoredWasAccepted, IInv
<1>10. Ran(req[r]) = Promised!Nothing
  BY <1>7 DEF Ran, Promised!Nothing
<1>11. Ran(n) = [rel |-> req[r].rel, build |-> req[r].build, code |-> CodeOf[req[r].build],
                  caps |-> grants \cap CapsOf[req[r].build]]
  BY <1>1, <1>7, <1>9 DEF Ran, Is
<1>12. \A x \in Requests \ {r} : Ran(req'[x]) = Ran(req[x])
  BY <1>3 DEF Alike, Ran
<1>. DEFINE was == [x \in Requests |-> Ran(req[x])]
            is == [x \in Requests |-> Ran(req'[x])]
<1>13. was[r] = Promised!Nothing /\ is = [was EXCEPT ![r] = Ran(n)]
  BY <1>3, <1>10, <1>12
<1>14. Promised!Execute(r, req[r].rel, req[r].build)
  BY <1>8, <1>9, <1>11, <1>13 DEF Promised!Execute, Start
<1>. QED BY <1>6, <1>9, <1>14 DEF Simulates, Promised!Keeping

\* A grant or a revocation in the permission center: everything that is going on has
\* been overtaken.
LEMMA OutsideKeeps ==
    ASSUME IInv, Writes(None, New), UNCHANGED <<backend, meta, parts>>,
           registry' \in Rows, grants' \in SUBSET Caps,
           registry'.rel = registry.rel, registry'.active = registry.active, registry'.by = registry.by,
           registry.by # None => \A d \in grants' : d \in registry'.given \/ (d \in grants /\ d \notin registry.given)
    PROVE  /\ IInv' /\ Accepted' = Accepted
           /\ [x \in Requests |-> Ran(req[x])]' = [x \in Requests |-> Ran(req[x])]
<1>0. None \notin Requests BY NoneAssumption
<1>1. /\ req' \in [Requests -> Requested]
      /\ \A x \in Requests : /\ Alike(x)
                             /\ req[x].kind \in {"install", "uninstall"} => req'[x].late
                             /\ req[x].kind \notin {"install", "uninstall"} => req'[x] = req[x]
  BY <1>0, NewShape, WritesShape DEF IInv
<1>2. Accepted' = Accepted
  <2>1. \A x \in Requests : SameInstall(req'[x], req[x])
    BY <1>1 DEF SameInstall, Alike
  <2>. QED BY <2>1 DEF Accepted, SameInstall
<1>3. \A x \in Requests : Ran(req'[x]) = Ran(req[x])
  BY <1>1 DEF Alike, Ran
<1>4. TypeOK' BY <1>1 DEF IInv, TypeOK, Rows
<1>5. StoredWasAccepted' BY <1>1, <1>2 DEF IInv, StoredWasAccepted, Alike
<1>6. ASSUME NEW x \in Requests PROVE Fine(req[x])'
  <2>1. Fine(req[x]) BY Parts
  <2>2. Begun(req'[x])
    <3>1. CASE req[x].at # "new"
      BY <3>1, <1>1, <2>1 DEF Alike, Fine, Begun
    <3>2. CASE req[x].at = "new"
      BY <3>2, <1>1, <2>1, NewShape DEF Fine, Begun, Is
    <3>. QED BY <3>1, <3>2
  <2>3. CASE req[x].kind \in {"install", "uninstall"}
    BY <2>3, <2>2, <1>1 DEF Fine, Begun
  <2>4. CASE req[x].kind \notin {"install", "uninstall"}
    BY <2>4, <2>2, <1>1 DEF Fine, Begun, InstallGoes, RemovalGoes, AnswerIsTrue
  <2>. QED BY <2>3, <2>4
<1>7. ASSUME registry'.by # None PROVE Prunes(req'[registry'.by], registry', grants')
  <2>. DEFINE x == registry.by
  <2>1. registry \in Rows BY DEF IInv, TypeOK, Rows
  <2>2. x \in Requests /\ registry'.by = x BY <1>7, <2>1 DEF Rows
  <2>3. Prunes(req[x], registry, grants) /\ Alike(x) BY <2>2, <1>0, <1>1, Parts
  <2>4. \A d \in grants' : d \in registry'.given \/ (d \in grants /\ d \notin registry.given)
    BY <2>2, <1>0
  <2>. QED BY <2>2, <2>3, <2>4 DEF Prunes, Alike
<1>8. (registry'.by = None => registry'.rel = None /\ ~registry'.active) /\ (registry'.active => registry'.rel \in Releases)
  BY Parts
<1>9. (\A x \in Requests : Fine(req[x]))' BY <1>6
<1>10. IInv'
  BY <1>4, <1>5, <1>7, <1>8, <1>9
     DEF IInv, RequestsGoOn, SettledIsTrue, Fine, PruningIsUnderWay, GrantsArePruned, Prunes
<1>. QED BY <1>2, <1>3, <1>10

LEMMA GrantKeeps ==
    ASSUME IInv, NEW c \in Caps, Grant(c), UNCHANGED backend
    PROVE  IInv' /\ Simulates
<1>1. registry \in Rows /\ grants \in SUBSET Caps BY DEF IInv, TypeOK, Rows
<1>2. Writes(None, New) /\ UNCHANGED <<backend, meta, parts>> /\ grants' = grants \cup {c}
  BY DEF Grant
<1>3. registry'.rel = registry.rel /\ registry'.by = registry.by
  BY <1>1 DEF Grant, Rows
<1>4. registry'.active = registry.active BY <1>1, Zenon DEF Grant, Rows
<1>5. registry'.given = IF registry.by = None THEN {} ELSE registry.given \cup {c}
  BY <1>1 DEF Grant, Rows
<1>6. registry' \in Rows
  BY <1>1 DEF Grant, Rows
<1>7. registry.by # None => \A d \in grants' : d \in registry'.given \/ (d \in grants /\ d \notin registry.given)
  BY <1>2, <1>5
<1>8. IInv' /\ Accepted' = Accepted /\ [x \in Requests |-> Ran(req[x])]' = [x \in Requests |-> Ran(req[x])]
  BY <1>1, <1>2, <1>3, <1>4, <1>6, <1>7, OutsideKeeps
<1>9. Promised!Give(c) BY <1>2, <1>8 DEF Promised!Give
<1>. QED BY <1>8, <1>9 DEF Simulates, Promised!Keeping

LEMMA RevokeKeeps ==
    ASSUME IInv, NEW c \in Caps, Revoke(c), UNCHANGED backend
    PROVE  IInv' /\ Simulates
<1>1. registry \in Rows /\ grants \in SUBSET Caps BY DEF IInv, TypeOK, Rows
<1>2. Writes(None, New) /\ UNCHANGED <<backend, meta, parts>> /\ grants' = grants \ {c}
  BY DEF Revoke
<1>3. registry'.rel = registry.rel /\ registry'.by = registry.by
  BY <1>1 DEF Revoke, Rows
<1>4. registry'.active = registry.active BY <1>1, Zenon DEF Revoke, Rows
<1>5. registry'.given = registry.given \ {c}
  BY <1>1 DEF Revoke, Rows
<1>6. registry' \in Rows
  BY <1>1 DEF Revoke, Rows
<1>7. registry.by # None => \A d \in grants' : d \in registry'.given \/ (d \in grants /\ d \notin registry.given)
  BY <1>2, <1>5
<1>8. IInv' /\ Accepted' = Accepted /\ [x \in Requests |-> Ran(req[x])]' = [x \in Requests |-> Ran(req[x])]
  BY <1>1, <1>2, <1>3, <1>4, <1>6, <1>7, OutsideKeeps
<1>9. Promised!Take(c) BY <1>2, <1>8 DEF Promised!Take
<1>. QED BY <1>8, <1>9 DEF Simulates, Promised!Keeping

----------------------------------------------------------------------------
(* The theorems *)

LEMMA InitHolds == Init => IInv /\ Promised!Promise
<1>. SUFFICES ASSUME Init PROVE IInv /\ Promised!Promise
  OBVIOUS
<1>1. \A r \in Requests : req[r] = New BY DEF Init
<1>2. New \in Requested /\ Is(New, "new", "none", None, None, None, 0, {}, FALSE, FALSE, "none")
  BY NewShape
<1>3. Unregistered \in Rows /\ Unregistered.rel = None /\ Unregistered.by = None
  BY DEF Unregistered, Rows
<1>4. ~Unregistered.active BY Zenon DEF Unregistered
<1>5. TypeOK
  <2>1. Empty \in [0..(MaxParts - 1) -> Codes \cup {None}] BY DEF Empty
  <2>. QED BY <1>1, <1>2, <1>3, <2>1 DEF Init, TypeOK, Rows
<1>6. \A r \in Requests : Fine(req[r])
  BY <1>1, <1>2 DEF Is, Fine, Begun, InstallGoes, RemovalGoes, InstallSteps, RemoveSteps, RunSteps
<1>7. StoredWasAccepted BY <1>1, <1>2 DEF Init, StoredWasAccepted, Is
<1>8. IInv BY <1>3, <1>4, <1>5, <1>6, <1>7, Parts DEF Init
<1>9. Accepted = {} BY <1>1, <1>2 DEF Accepted, Is
<1>10. \A r \in Requests : Ran(req[r]) = Promised!Nothing
  BY <1>1, <1>2 DEF Ran, Promised!Nothing, Is
<1>. QED BY <1>8, <1>9, <1>10 DEF Init, Promised!Promise

LEMMA StepKeeps == IInv /\ [Next]_vars => IInv' /\ Simulates
<1>. SUFFICES ASSUME IInv, [Next]_vars PROVE IInv' /\ Simulates
  OBVIOUS
<1>1. CASE UNCHANGED vars
  <2>1. IInv'
    BY <1>1 DEF vars, IInv, TypeOK, RequestsGoOn, StoredWasAccepted, PruningIsUnderWay, SettledIsTrue,
                GrantsArePruned, Accepted, Begun, InstallGoes, RemovalGoes, AnswerIsTrue, Agrees, Whole, Joined
  <2>2. UNCHANGED Promised!promised
    BY <1>1 DEF vars, Promised!promised, Accepted, Ran
  <2>. QED BY <2>1, <2>2 DEF Simulates
<1>2. ASSUME NEW r \in Requests, Installing(r), UNCHANGED backend PROVE IInv' /\ Simulates
  BY <1>2, BeginInstallKeeps, ClearPartsKeeps, StoreMetaKeeps, StorePartKeeps, RegisterKeeps, ReconcileKeeps,
     RevokeNextKeeps DEF Installing
<1>3. ASSUME NEW r \in Requests, Removing(r), UNCHANGED backend PROVE IInv' /\ Simulates
  BY <1>3, BeginUninstallKeeps, DropPartsKeeps, DropMetaKeeps, DeactivateKeeps, ListGrantsKeeps DEF Removing
<1>4. ASSUME NEW r \in Requests, Running(r), UNCHANGED backend PROVE IInv' /\ Simulates
  BY <1>4, BeginRunKeeps, LoadMetaKeeps, LoadPartsKeeps, StartKeeps DEF Running
<1>5. ASSUME NEW r \in Requests, Break(r), UNCHANGED backend PROVE IInv' /\ Simulates
  BY <1>5, BreakKeeps
<1>6. ASSUME NEW c \in Caps, Grant(c) \/ Revoke(c), UNCHANGED backend PROVE IInv' /\ Simulates
  BY <1>6, GrantKeeps, RevokeKeeps
<1>. QED BY <1>1, <1>2, <1>3, <1>4, <1>5, <1>6 DEF Next

\* The invariant holds however installs, removals, runs, the permission center and
\* failures of functions/admin/api/plugins/ overlap, with any number of each.
THEOREM Invariance == Spec => []IInv
<1>1. Init => IInv BY InitHolds
<1>2. IInv /\ [Next]_vars => IInv' BY StepKeeps
<1>. QED BY <1>1, <1>2, PTL DEF Spec

\* An install or a removal that answered ok (install.js, uninstall.js) has left what
\* it says, until somebody else writes.
THEOREM SettledCorrect == Spec => []SettledIsTrue
<1>1. IInv => SettledIsTrue BY DEF IInv
<1>. QED BY <1>1, Invariance, PTL

\* Once the install that registered the release is answered, no capability beyond its
\* manifest is granted but those an administrator gave later (reconcileGrants).
THEOREM GrantsCorrect == Spec => []GrantsArePruned
<1>1. IInv => GrantsArePruned BY DEF IInv
<1>. QED BY <1>1, Invariance, PTL

\* put() replaces a stored version by another build (plugin-artifacts.ts) only for an
\* install that was overtaken between its look at the version and its write.
THEOREM ImmutableCorrect == Spec => VersionsAreImmutable
<1>. DEFINE Same == \A rel \in Releases : meta[rel] # None /\ meta'[rel] \notin {None, meta[rel]} =>
                       \E r \in Requests : req[r].at = "meta" /\ req[r].rel = rel /\ req[r].late
<1>1. IInv /\ [Next]_vars => [Same]_vars
  <2>. SUFFICES ASSUME IInv, Next, NEW rel \in Releases, meta[rel] # None, meta'[rel] \notin {None, meta[rel]}
                PROVE  \E r \in Requests : req[r].at = "meta" /\ req[r].rel = rel /\ req[r].late
    BY DEF Same
  <2>1. meta \in [Releases -> Builds \cup {None}] BY DEF IInv, TypeOK
  <2>2. PICK r \in Requests : StoreMeta(r) \/ DropMeta(r)
    BY DEF Next, Installing, Removing, Running, BeginInstall, ClearParts, StorePart, Register, Reconcile,
           RevokeNext, BeginUninstall, DropParts, Deactivate, ListGrants, BeginRun, LoadMeta, LoadParts,
           Start, Grant, Revoke, Break
  <2>3. ~DropMeta(r) BY <2>1 DEF DropMeta
  <2>4. StoreMeta(r) BY <2>2, <2>3
  <2>5. req[r].at = "meta" /\ req[r].rel = rel /\ meta'[rel] = req[r].build BY <2>1, <2>4 DEF StoreMeta, At
  <2>6. ASSUME ~req[r].late PROVE FALSE
    <3>1. Begun(req[r]) /\ InstallGoes(req[r]) BY <2>6 DEF IInv, RequestsGoOn
    <3>2. Agrees(rel, req[r].build) BY <2>5, <3>1 DEF Begun, InstallSteps, InstallGoes
    <3>. QED BY <2>5, <3>2 DEF Agrees
  <2>. QED BY <2>5, <2>6
<1>. QED BY <1>1, Invariance, PTL DEF Spec, VersionsAreImmutable, Same

\* The requests over the artifact store, the registry and the grants keep the promise
\* of PluginPromise: code runs only under the manifest it was accepted with, and with
\* what that manifest asks for and is granted (loadPluginArtifact, run.js).
THEOREM PromiseKept == Spec => ImplementsPromise
<1>1. Init => Promised!Promise BY InitHolds
<1>2. IInv /\ [Next]_vars => [Promised!Keeping]_(Promised!promised) BY StepKeeps DEF Simulates
<1>. QED BY <1>1, <1>2, Invariance, PTL DEF Spec, ImplementsPromise, Promised!Kept
=====
