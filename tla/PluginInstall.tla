--------------------------- MODULE PluginInstall ---------------------------
(***************************************************************************)
(* Installing, removing and running one plugin: the requests of            *)
(* functions/admin/api/plugins/ over the artifact store, the registry and  *)
(* the permission store.                                                   *)
(*                                                                         *)
(* A release is a publisher and a version of the plugin; a build is code   *)
(* and a manifest that were signed for a release.  The artifact store      *)
(* keeps of a release a row of metadata (the hash of the code, and the     *)
(* manifest) and the code in parts.  Every statement is awaited, on D1 as  *)
(* a request of its own; put() and delete() of SQLite run theirs without   *)
(* giving way to anyone, but in no transaction, so a failure leaves those  *)
(* that were done.  Field `at` of a request names what it does next.       *)
(***************************************************************************)
EXTENDS Naturals

CONSTANTS
    Releases,
    Builds,
    Caps,
    CodeOf,    \* the code of each build: two builds may differ in the manifest alone
    CapsOf,    \* requestedCapabilities of its manifest
    PartsOf,   \* how many rows a code takes
    MaxParts,
    Requests,  \* what clients ask for, each once
    None

Codes == {CodeOf[b] : b \in Builds}

ASSUME CapsAssumption == CapsOf \in [Builds -> SUBSET Caps]
ASSUME PartsAssumption == MaxParts \in Nat /\ PartsOf \in [Codes -> 1..MaxParts]
ASSUME NoneAssumption ==
    None \notin Releases \cup Builds \cup Codes \cup Requests

VARIABLES
    backend,   \* the store that was configured: "sqlite" or "d1"
    meta,      \* plugin_artifacts: the build whose hash and manifest a release has
    parts,     \* plugin_artifact_chunks
    registry,  \* the plugin's row of plugin_registry
    grants,    \* the capabilities granted to the plugin
    req        \* the requests in flight and their answers

vars == <<backend, meta, parts, registry, grants, req>>

Empty == [seq \in 0..(MaxParts - 1) |-> None]

\* `by` and `given` are history: the request that registered the release, and the
\* capabilities an administrator has granted since it looked for those to prune.
Unregistered == [rel |-> None, active |-> FALSE, by |-> None, given |-> {}]

\* `late` is history: another request, or an administrator, has written since this
\* install or removal began.
New == [at |-> "new", kind |-> "none", rel |-> None, build |-> None, code |-> None,
        seq |-> 0, caps |-> {}, known |-> FALSE, late |-> FALSE, answer |-> "none"]

Init ==
    /\ backend \in {"sqlite", "d1"}
    /\ meta = [rel \in Releases |-> None]
    /\ parts = [rel \in Releases |-> Empty]
    /\ registry = Unregistered
    /\ grants = {}
    /\ req = [r \in Requests |-> New]

\* On SQLite nobody runs between two statements of a put or of a delete.
Free(r) == backend = "sqlite" =>
    \A o \in Requests \ {r} : req[o].at \notin {"meta", "part", "dropmeta"}

At(r, step) == req[r].at = step /\ Free(r)

Becomes(r, record) == req' = [req EXCEPT ![r] = record]
Ended(r, answer) == [req[r] EXCEPT !.at = "done", !.answer = answer]

\* Request r goes on as `record` after a write that the others have not seen.
Writes(r, record) ==
    req' = [x \in Requests |-> IF x = r THEN record
                               ELSE [req[x] EXCEPT !.late = @ \/ req[x].kind \in {"install", "uninstall"}]]

\* The bytes that the parts of a release make up, if they are the code of some build.
Joined(rel, code) == \A seq \in 0..(MaxParts - 1) :
    parts[rel][seq] = IF seq < PartsOf[code] THEN code ELSE None

Whole(rel, b) == meta[rel] = b /\ Joined(rel, CodeOf[b])

----------------------------------------------------------------------------
(* Installing *)

\* Mutant of Agrees: a version whose code cannot be read may be replaced.
AgreesUnlessTorn(rel, b) == meta[rel] # None /\ Joined(rel, CodeOf[meta[rel]]) => meta[rel] = b

\* A version that is stored is taken again only with the same code and manifest.
Agrees(rel, b) == meta[rel] \in {None, b}

\* Mutant of BeginInstall: a version that is stored already is not stored again.
BeginInstallOnce(r, rel, b) ==
    /\ At(r, "new")
    /\ IF Agrees(rel, b)
       THEN Becomes(r, [New EXCEPT !.at = IF meta[rel] = None THEN "clear" ELSE "register",
                                   !.kind = "install", !.rel = rel, !.build = b])
       ELSE Becomes(r, Ended(r, "refused"))
    /\ UNCHANGED <<meta, parts, registry, grants>>

BeginInstall(r, rel, b) ==
    /\ At(r, "new")
    /\ IF Agrees(rel, b)
       THEN Becomes(r, [New EXCEPT !.at = "clear", !.kind = "install", !.rel = rel, !.build = b])
       ELSE Becomes(r, Ended(r, "refused"))
    /\ UNCHANGED <<meta, parts, registry, grants>>

ClearParts(r) ==
    /\ At(r, "clear")
    /\ parts' = [parts EXCEPT ![req[r].rel] = Empty]
    /\ Writes(r, [req[r] EXCEPT !.at = "meta"])
    /\ UNCHANGED <<meta, registry, grants>>

StoreMeta(r) ==
    /\ At(r, "meta")
    /\ meta' = [meta EXCEPT ![req[r].rel] = req[r].build]
    /\ Writes(r, [req[r] EXCEPT !.at = "part"])
    /\ UNCHANGED <<parts, registry, grants>>

\* A part of that number that somebody else inserted breaks the put.
StorePart(r) ==
    LET code == CodeOf[req[r].build]
        seq  == req[r].seq
    IN
    /\ At(r, "part")
    /\ IF parts[req[r].rel][seq] = None
       THEN /\ parts' = [parts EXCEPT ![req[r].rel][seq] = code]
            /\ Writes(r, [req[r] EXCEPT !.seq = seq + 1,
                            !.at = IF seq + 1 = PartsOf[code] THEN "register" ELSE "part"])
       ELSE Becomes(r, Ended(r, "failed")) /\ UNCHANGED parts
    /\ UNCHANGED <<meta, registry, grants>>

Register(r) ==
    /\ At(r, "register")
    /\ registry' = [rel |-> req[r].rel, active |-> TRUE, by |-> r, given |-> {}]
    /\ Writes(r, [req[r] EXCEPT !.at = "grants"])
    /\ UNCHANGED <<meta, parts, grants>>

\* Mutant of Reconcile: what to prune is judged by the manifest that is stored.
ReconcileStored(r) ==
    LET b == meta[req[r].rel]
        prune == IF b = None THEN {} ELSE grants \ CapsOf[b]
    IN
    /\ At(r, "grants")
    /\ registry' = IF registry.by = r THEN [registry EXCEPT !.given = {}] ELSE registry
    /\ Becomes(r, IF prune = {} THEN Ended(r, "ok")
                  ELSE [req[r] EXCEPT !.caps = prune, !.at = "revoke"])
    /\ UNCHANGED <<meta, parts, grants>>

\* reconcileGrants: what is granted and the new manifest does not ask for.
Reconcile(r) ==
    LET prune == grants \ CapsOf[req[r].build] IN
    /\ At(r, "grants")
    /\ registry' = IF registry.by = r THEN [registry EXCEPT !.given = {}] ELSE registry
    /\ Becomes(r, IF prune = {} THEN Ended(r, "ok")
                  ELSE [req[r] EXCEPT !.caps = prune, !.at = "revoke"])
    /\ UNCHANGED <<meta, parts, grants>>

\* Of an install and of a removal: the capabilities it found are revoked one by one.
RevokeNext(r, c) ==
    /\ At(r, "revoke")
    /\ c \in req[r].caps
    /\ grants' = grants \ {c}
    /\ registry' = [registry EXCEPT !.given = @ \ {c}]
    /\ Writes(r, [(IF req[r].caps = {c} THEN Ended(r, "ok") ELSE req[r])
                  EXCEPT !.caps = @ \ {c}])
    /\ UNCHANGED <<meta, parts>>

----------------------------------------------------------------------------
(* Removing *)

\* The version to remove is the client's choice, registered or not.
BeginUninstall(r, rel) ==
    /\ At(r, "new")
    /\ Becomes(r, [New EXCEPT !.at = "dropparts", !.kind = "uninstall", !.rel = rel,
                              !.known = registry.rel # None])
    /\ UNCHANGED <<meta, parts, registry, grants>>

DropParts(r) ==
    /\ At(r, "dropparts")
    /\ parts' = [parts EXCEPT ![req[r].rel] = Empty]
    /\ Writes(r, [req[r] EXCEPT !.at = "dropmeta"])
    /\ UNCHANGED <<meta, registry, grants>>

DropMeta(r) ==
    /\ At(r, "dropmeta")
    /\ meta' = [meta EXCEPT ![req[r].rel] = None]
    /\ Writes(r, [req[r] EXCEPT !.at = IF req[r].known THEN "deactivate" ELSE "list"])
    /\ UNCHANGED <<parts, registry, grants>>

Deactivate(r) ==
    /\ At(r, "deactivate")
    /\ registry' = [registry EXCEPT !.active = FALSE]
    /\ Writes(r, [req[r] EXCEPT !.at = "list"])
    /\ UNCHANGED <<meta, parts, grants>>

ListGrants(r) ==
    /\ At(r, "list")
    /\ Becomes(r, IF grants = {} THEN Ended(r, "ok")
                  ELSE [req[r] EXCEPT !.caps = grants, !.at = "revoke"])
    /\ UNCHANGED <<meta, parts, registry, grants>>

----------------------------------------------------------------------------
(* Running *)

BeginRun(r) ==
    /\ At(r, "new")
    /\ Becomes(r, IF registry.active
                  THEN [New EXCEPT !.at = "load", !.kind = "run", !.rel = registry.rel]
                  ELSE Ended(r, "refused"))
    /\ UNCHANGED <<meta, parts, registry, grants>>

LoadMeta(r) ==
    LET b == meta[req[r].rel] IN
    /\ At(r, "load")
    /\ Becomes(r, IF b = None THEN Ended(r, "refused")
                  ELSE [req[r] EXCEPT !.build = b, !.at = "parts"])
    /\ UNCHANGED <<meta, parts, registry, grants>>

\* Mutant of LoadParts: the code is not compared with the hash.
LoadPartsUnchecked(r) ==
    \E code \in Codes \cup {None} :
        /\ At(r, "parts")
        /\ IF code = None THEN \A k \in Codes : ~Joined(req[r].rel, k) ELSE Joined(req[r].rel, code)
        /\ Becomes(r, [req[r] EXCEPT !.code = code, !.at = "start"])
        /\ UNCHANGED <<meta, parts, registry, grants>>

\* Parts that are the code of no build are read as None.
LoadParts(r) ==
    \E code \in Codes \cup {None} :
        /\ At(r, "parts")
        /\ IF code = None THEN \A k \in Codes : ~Joined(req[r].rel, k) ELSE Joined(req[r].rel, code)
        /\ Becomes(r, IF code = CodeOf[req[r].build]
                      THEN [req[r] EXCEPT !.code = code, !.at = "start"]
                      ELSE Ended(r, "refused"))
        /\ UNCHANGED <<meta, parts, registry, grants>>

\* The plugin gets what is granted now and its manifest asks for, until it ends.
Start(r) ==
    /\ At(r, "start")
    /\ Becomes(r, [Ended(r, "ok") EXCEPT !.caps = grants \cap CapsOf[req[r].build]])
    /\ UNCHANGED <<meta, parts, registry, grants>>

----------------------------------------------------------------------------
(* The permission center, and failures *)

Grant(c) ==
    /\ Free(None)
    /\ grants' = grants \cup {c}
    /\ registry' = [registry EXCEPT !.given = IF registry.by = None THEN {} ELSE @ \cup {c}]
    /\ Writes(None, New)
    /\ UNCHANGED <<meta, parts>>

Revoke(c) ==
    /\ Free(None)
    /\ grants' = grants \ {c}
    /\ registry' = [registry EXCEPT !.given = @ \ {c}]
    /\ Writes(None, New)
    /\ UNCHANGED <<meta, parts>>

\* A call that a request waits for fails, or the process stops: nothing is undone.
Break(r) ==
    /\ Free(r)
    /\ req[r].at \notin {"new", "done"}
    /\ Becomes(r, Ended(r, "failed"))
    /\ UNCHANGED <<meta, parts, registry, grants>>

Installing(r) ==
    \/ \E rel \in Releases, b \in Builds : BeginInstall(r, rel, b)
    \/ ClearParts(r) \/ StoreMeta(r) \/ StorePart(r)
    \/ Register(r) \/ Reconcile(r)
    \/ \E c \in Caps : RevokeNext(r, c)

Removing(r) ==
    \/ \E rel \in Releases : BeginUninstall(r, rel)
    \/ DropParts(r) \/ DropMeta(r) \/ Deactivate(r) \/ ListGrants(r)

Running(r) == BeginRun(r) \/ LoadMeta(r) \/ LoadParts(r) \/ Start(r)

Next ==
    /\ \/ \E r \in Requests : Installing(r) \/ Removing(r) \/ Running(r) \/ Break(r)
       \/ \E c \in Caps : Grant(c) \/ Revoke(c)
    /\ UNCHANGED backend

Spec == Init /\ [][Next]_vars

----------------------------------------------------------------------------
(* Properties *)

Requested == [at : {"new", "clear", "meta", "part", "register", "grants", "dropparts",
                    "dropmeta", "deactivate", "list", "revoke", "load", "parts", "start", "done"},
              kind : {"none", "install", "uninstall", "run"},
              rel : Releases \cup {None}, build : Builds \cup {None}, code : Codes \cup {None},
              seq : 0..MaxParts, caps : SUBSET Caps, known : BOOLEAN, late : BOOLEAN,
              answer : {"none", "refused", "ok", "failed"}]

\* Every variable has its type.
TypeOK ==
    /\ backend \in {"sqlite", "d1"}
    /\ meta \in [Releases -> Builds \cup {None}]
    /\ parts \in [Releases -> [0..(MaxParts - 1) -> Codes \cup {None}]]
    /\ registry \in [rel : Releases \cup {None}, active : BOOLEAN,
                      by : Requests \cup {None}, given : SUBSET Caps]
    /\ grants \in SUBSET Caps
    /\ req \in [Requests -> Requested]

\* The answer of an install or a removal is true until somebody else writes, whatever
\* was interrupted or broke before it began: the code that is stored is whole, of the
\* build that was sent and what the registry names, and no capability is granted that
\* its manifest does not ask for; or nothing of the release is left, and nothing is
\* active or granted.
AnswerIsTrue(q) ==
    /\ q.kind = "install" => /\ Whole(q.rel, q.build)
                             /\ registry.rel = q.rel /\ registry.active
                             /\ grants \subseteq CapsOf[q.build]
    /\ q.kind = "uninstall" => /\ meta[q.rel] = None /\ parts[q.rel] = Empty
                               /\ ~registry.active /\ grants = {}

SettledIsTrue == \A r \in Requests : req[r].answer = "ok" /\ ~req[r].late => AnswerIsTrue(req[r])

\* Whatever installs, removals and failures overlap: once the request that registered
\* the present release is answered, what is granted beyond its manifest was granted
\* by an administrator after it had looked.
GrantsArePruned ==
    registry.by # None /\ req[registry.by].answer = "ok" =>
        grants \subseteq CapsOf[req[registry.by].build] \cup registry.given

\* A stored version takes another code or manifest only from an install that somebody
\* overtook between its look at the version and its write.
VersionsAreImmutable ==
    [][\A rel \in Releases : meta[rel] # None /\ meta'[rel] \notin {None, meta[rel]} =>
        \E r \in Requests : req[r].at = "meta" /\ req[r].rel = rel /\ req[r].late]_vars

\* Whatever is overwritten, torn or removed between two reads of a run, the code that
\* runs is one that an install accepted with the very manifest it runs under, and its
\* capabilities are those that manifest asks for and are granted when it starts.
Accepted == {<<req[r].rel, req[r].build>> : r \in {q \in Requests : req[q].kind = "install"}}

Ran(q) == IF q.kind = "run" /\ q.answer = "ok"
          THEN [rel |-> q.rel, build |-> q.build, code |-> q.code, caps |-> q.caps]
          ELSE [rel |-> None, build |-> None, code |-> None, caps |-> {}]

Promised == INSTANCE PluginPromise WITH
    accepted <- Accepted, granted <- grants, ran <- [r \in Requests |-> Ran(req[r])]

ImplementsPromise == Promised!Kept

----------------------------------------------------------------------------
(* The inductive invariant *)

InstallSteps == {"clear", "meta", "part", "register", "grants"}
RemoveSteps == {"dropparts", "dropmeta", "deactivate", "list"}
RunSteps == {"load", "parts", "start"}

\* A request that has begun has a release, and what its kind and its step call for.
Begun(q) ==
    /\ q.at = "new" => q = New
    /\ q.kind # "none" => q.rel \in Releases
    /\ q.at \in InstallSteps => q.kind = "install"
    /\ q.at \in RemoveSteps => q.kind = "uninstall"
    /\ q.at \in RunSteps => q.kind = "run"
    /\ q.at = "revoke" => q.kind \in {"install", "uninstall"}
    /\ q.at # "done" => q.answer = "none"
    /\ q.kind = "install" => q.build \in Builds
    /\ q.at \in {"parts", "start"} => q.build \in Builds
    /\ q.at \in {"clear", "meta"} => q.seq = 0
    /\ q.at = "part" => q.seq < PartsOf[CodeOf[q.build]]

\* What an install that nobody overtook has done so far.
InstallGoes(q) == q.kind = "install" =>
    /\ q.at \in {"clear", "meta"} => Agrees(q.rel, q.build)
    /\ q.at = "meta" => parts[q.rel] = Empty
    /\ q.at = "part" => /\ meta[q.rel] = q.build
                        /\ \A seq \in 0..(MaxParts - 1) :
                             parts[q.rel][seq] = IF seq < q.seq THEN CodeOf[q.build] ELSE None
    /\ q.at \in {"register", "grants", "revoke"} => Whole(q.rel, q.build)
    /\ q.at \in {"grants", "revoke"} => registry.rel = q.rel /\ registry.active
    /\ q.at = "revoke" => grants \subseteq CapsOf[q.build] \cup q.caps

\* What a removal that nobody overtook has done so far.
RemovalGoes(q) == q.kind = "uninstall" =>
    /\ q.at \in {"dropparts", "dropmeta", "deactivate"} /\ ~q.known => registry.rel = None
    /\ q.at \in {"dropmeta", "deactivate", "list", "revoke"} => parts[q.rel] = Empty
    /\ q.at \in {"deactivate", "list", "revoke"} => meta[q.rel] = None
    /\ q.at \in {"list", "revoke"} => ~registry.active
    /\ q.at = "revoke" => grants \subseteq q.caps

RequestsGoOn == \A r \in Requests :
    /\ Begun(req[r])
    /\ ~req[r].late => InstallGoes(req[r]) /\ RemovalGoes(req[r])

\* What is stored, and what a run has read of it, was accepted.
StoredWasAccepted ==
    /\ \A rel \in Releases : meta[rel] # None => <<rel, meta[rel]>> \in Accepted
    /\ \A r \in Requests :
         /\ req[r].at \in {"parts", "start"} => <<req[r].rel, req[r].build>> \in Accepted
         /\ req[r].at = "start" => req[r].code = CodeOf[req[r].build]

\* The request that registered the present release revokes what is beyond its manifest.
PruningIsUnderWay ==
    /\ registry.by # None => /\ req[registry.by].kind = "install"
                             /\ req[registry.by].at \notin {"new", "clear", "meta", "part", "register"}
                             /\ req[registry.by].at = "revoke" =>
                                  grants \subseteq CapsOf[req[registry.by].build]
                                                    \cup registry.given \cup req[registry.by].caps
    /\ registry.by = None => registry.rel = None /\ ~registry.active
    /\ registry.active => registry.rel \in Releases

IInv ==
    /\ TypeOK /\ RequestsGoOn /\ StoredWasAccepted /\ PruningIsUnderWay
    /\ SettledIsTrue /\ GrantsArePruned

=============================================================================
