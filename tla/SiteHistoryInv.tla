--------------------------- MODULE SiteHistoryInv ---------------------------
(* The inductive invariant of SiteHistory. *)
EXTENDS SiteHistory

AllAtts == Atts \cup {OldAtt}
Hashes  == Nat \X AllAtts \X Nat \X Kids
Entries == [seq : Nat, prev : Hashes \cup {None}, ts : Nat, att : AllAtts, key : Kids, id : Nat]
KeyRows == [state : {"none", "active", "retired"}, from : Nat, to : Nat, id : Nat]
Txts    == [k : Kids \cup {None}, h : Hashes \cup {None}]

Records ==
    [at : {"new", "ensure", "copy", "pending", "max", "backfill", "key", "sign", "duplicate", "insert",
           "last", "time", "commit", "keys", "page", "head", "done"},
     kind : {"none", "append", "rotate", "create", "verify", "checklist"},
     att : Atts \cup {None}, key : Kids \cup {None}, n : Nat, ts : Nat, entry : Entries \cup {None},
     tries : Nat, next : Nat, ring : [Kids -> KeyRows], seen : SUBSET Entries, pages : Nat,
     txt : Txts, since : Nat, late : BOOLEAN,
     answer : {"none", "no_identity", "exists", "failed", "logged", "duplicate", "conflict", "rotated",
               "created", "verified", "refused", "incomplete", "published"},
     reasons : SUBSET {"chain", "unknown_key", "bad_signature", "window", "active_key", "head"}]

TypeOK ==
    /\ backend \in {"sqlite", "d1"}
    /\ clock \in Nat
    /\ identity \in Kids \cup {None}
    /\ keys \in [Kids -> KeyRows]
    /\ log \in SUBSET Entries
    /\ txt \in Txts
    /\ req \in [Requests -> Records]
    /\ past \in [setBack : BOOLEAN, overtaken : BOOLEAN, renumbered : BOOLEAN]

\* What holds of the site: the rows of keys are older than their numbers, or all of
\* them are numbered, and one of them is active.
RowsOK ==
    /\ identity = None => Rows = {}
    /\ Rows = {} => identity \in {None, First} /\ log = {}
    /\ Rows # {} => ActiveKeys = {identity}
    /\ Unnumbered # {} => Rows = {First, Second} /\ Unnumbered = Rows
    /\ \A k, l \in Rows : keys[k].id = keys[l].id /\ keys[k].id # 0 => k = l
    /\ \A kid \in Kids \ Rows : keys[kid] = NoKey
    /\ txt.k # None => identity # None

\* The entries are numbered without gaps, and each follows the one before.
ChainOK ==
    /\ IsFiniteSet(log)
    /\ {e.seq : e \in log} = 1..Cardinality(log)
    /\ Linked(log)
    /\ \A e, f \in log : e.att = f.att => e = f

\* The key that signed an entry has the number that the entry says.
Owns(kid, id) == kid \in Rows /\ (id # 0 /\ ~past.renumbered => keys[kid].id = id)
NamesOK == \A e \in log : Owns(e.key, e.id)

\* Unless the clock was set back nothing is dated in the future, and an entry was signed
\* after its key began; unless it was overtaken, before the key was retired.
TimesOK == ~past.setBack => /\ \A kid \in Kids : keys[kid].from <= clock
                            /\ \A e \in log : e.ts <= clock /\ keys[e.key].from <= e.ts
WindowsOK == ~past.setBack /\ ~past.overtaken =>
    \A e \in log : keys[e.key].state = "retired" => e.ts <= keys[e.key].to

Published(h) == h # None => \E e \in log : HashOf(e) = h

SiteOK == RowsOK /\ ChainOK /\ NamesOK /\ TimesOK /\ WindowsOK /\ Published(txt.h)

----------------------------------------------------------------------------
(* What holds of a request r in the state q *)

Rotating(q) == q.kind = "rotate" /\ q.at \in {"time", "commit"}

\* Which kinds of requests take which steps.
KindOK(q) ==
    /\ q.at \in {"key", "sign", "duplicate", "insert"} => q.kind = "append"
    /\ q.at \in {"ensure", "copy", "pending", "max", "backfill"} => q.kind \in {"append", "rotate", "verify"}
    /\ q.at = "last" => q.kind = "rotate"
    /\ q.at \in {"time", "commit"} => q.kind \in {"rotate", "create"}
    /\ q.at \in {"keys", "page"} => q.kind = "verify"
    /\ q.at = "head" => q.kind = "checklist"
    /\ q.at = "new" => q.kind = "none"
    /\ q.kind = "append" => q.att \in Atts

\* What ensureKeys() has made sure of.
KeysOK(q, r) ==
    /\ q.at # "done" => keys[r] = NoKey /\ identity # r
    /\ q.at \notin {"new", "done"} /\ q.kind # "create" => identity # None
    /\ q.at = "copy" => q.key # None /\ (Rows = {} => q.key = identity)
    /\ q.at \in {"pending", "max", "backfill"} => Rows # {}
    /\ q.at \in {"max", "backfill"} => {First, Second} \subseteq Rows /\ q.pages = 0
    /\ \/ q.at \in {"key", "sign", "duplicate", "insert", "last", "keys", "page"}
       \/ Rotating(q)
       \/ q.pages # 0
       => Rows # {} /\ Unnumbered = {}
    /\ q.at \in {"time", "commit"} => q.n # 0
    /\ q.at = "head" => q.key # None

\* What an append has signed follows the entry that was the head when it read it.
EntryOK(q) ==
    /\ q.entry \in Entries
    /\ q.entry.att = q.att /\ q.entry.key = q.key /\ q.entry.id = q.n
    /\ Starts(q.entry) \/ \E e \in log : Follows(q.entry, e)
    /\ q.entry.seq > q.since + q.tries

\* Each attempt that failed has seen an entry come in; so has an INSERT that is in
\* conflict with an attestation that was not there when it was looked for.
AppendOK(q) == q.kind = "append" =>
    /\ q.at # "done" => Cardinality(log) >= q.since + q.tries /\ q.tries < MaxAttempts
    /\ q.at \in {"duplicate", "insert"} => EntryOK(q)
    /\ q.at = "insert" => (\A e \in log : e.att # q.att) \/ Cardinality(log) > q.since + q.tries

SignsOK(q) ==
    /\ q.at \in {"sign", "duplicate", "insert"} => q.n # 0 /\ Owns(q.key, q.n)
    /\ ~past.setBack /\ q.at \in {"duplicate", "insert"} =>
          q.entry.ts <= clock /\ keys[q.key].from <= q.entry.ts
    /\ ~past.setBack /\ q.at = "commit" => q.ts <= clock /\ \A e \in q.seen : e.ts <= q.ts

\* What a verifier has read: the keys as they were, and the log up to its next page.
RingOK(ring) == \A kid \in Kids : ring[kid].state # "none" =>
    /\ kid \in Rows /\ ring[kid].id # 0
    /\ ring[kid].from = keys[kid].from
    /\ ring[kid].state = "retired" => keys[kid].state = "retired" /\ ring[kid].to = keys[kid].to
    /\ ~past.renumbered => ring[kid].id = keys[kid].id

ReadOK(q) == q.kind = "verify" =>
    /\ q.since <= Cardinality(log)
    /\ q.at # "done" => /\ q.seen = {e \in log : e.seq < q.next}
                        /\ q.next \in 1..(Cardinality(log) + 1)
                        /\ Published(q.txt.h)
    /\ (q.pages # 0 \/ q.at = "page") /\ q.at # "done" => RingOK(q.ring) /\ (~q.late => q.ring = keys)

RequestOK(q, r) ==
    /\ KindOK(q)
    /\ KeysOK(q, r)
    /\ AppendOK(q)
    /\ SignsOK(q)
    /\ ReadOK(q)
    /\ AppendIsTrue(q)
    /\ VerdictIsTrue(q)

IInv == TypeOK /\ SiteOK /\ \A r \in Requests : RequestOK(req[r], r)
=============================================================================
