---------------------------- MODULE SiteHistory ----------------------------
(***************************************************************************)
(* The identity of a site and the chained history of the attestations it   *)
(* has accepted: the key rows of site-identity-store.ts, the log of        *)
(* attestation-log-store.ts, appendAttestation(), the public endpoint      *)
(* apw-log.json.js and the verifier of another site that reads it page by  *)
(* page (history-resolver.ts, verifyChain()).                              *)
(*                                                                         *)
(* A transaction (atomic()) and every other statement is one step, and so  *)
(* is a reading of the clock; whatever is awaited in between lets others   *)
(* run, on D1 and on SQLite.  Field `at` of a request names what it does   *)
(* next.  A key pair is named by the request that generates it.            *)
(***************************************************************************)
EXTENDS Naturals, FiniteSets

CONSTANTS
    Requests,     \* each is made once
    Atts,         \* attestations
    First, Second,\* the keys of a site that is older than key_id
    OldAtt,       \* the attestation in the log of such a site
    MaxTime,      \* bound of the clock
    MaxId,        \* bound of key_sequence
    MaxAttempts,  \* of appendAttestation()
    PageLimit,    \* entries in a page of the public log
    MaxPages,     \* pages a verifier reads
    None

Kids == Requests \cup {First, Second}

ASSUME BoundsAssumption == {MaxTime, MaxId, MaxAttempts, PageLimit, MaxPages} \subseteq Nat \ {0}
ASSUME NamesAssumption  == /\ First # Second
                           /\ {First, Second} \cap Requests = {}
                           /\ None \notin Kids \cup Atts \cup {OldAtt}
                           /\ OldAtt \notin Atts

VARIABLES
    backend,   \* the store that was configured: "sqlite" or "d1"
    clock,     \* what new Date() says
    identity,  \* site_identity: the key of the site, or None
    keys,      \* site_identity_keys; the sequence of a row without key_id is 0
    log,       \* site_attestation_log: the signed entries
    txt,       \* the TXT record: `k` and `h` that the operator has published
    req,       \* the requests in flight and their answers
    past       \* history: what happened that the code does not guard against

vars == <<backend, clock, identity, keys, log, txt, req, past>>

NoKey  == [state |-> "none", from |-> 0, to |-> 0, id |-> 0]
NoKeys == [kid \in Kids |-> NoKey]
NoTxt  == [k |-> None, h |-> None]

Rows == {kid \in Kids : keys[kid].state # "none"}
ActiveKeys == {kid \in Kids : keys[kid].state = "active"}

\* Fields that only some requests use: `key` and `n` are the key that was read and a
\* number of a key; `entry` is what an append inserts; `ring`, `seen` and `pages` are the
\* keys, the entries and the pages a verifier has got, and `next` the entry it asks for.
\* History: `since` is how long the log was at the beginning, and `late` that the keys
\* have changed after it.
New == [at |-> "new", kind |-> "none", att |-> None, key |-> None, n |-> 0, ts |-> 0,
        entry |-> None, tries |-> 0, next |-> 1, ring |-> NoKeys, seen |-> {}, pages |-> 0, txt |-> NoTxt,
        since |-> 0, late |-> FALSE, answer |-> "none", reasons |-> {}]

OldEntry == [seq |-> 1, prev |-> None, ts |-> 0, att |-> OldAtt, key |-> First, id |-> 0]

\* A site without an identity; one with an identity and no rows of keys; one whose
\* rows have no key_id yet; and one that is up to date.
Init ==
    LET active(id) == [state |-> "active", from |-> 0, to |-> 0, id |-> id] IN
    /\ \/ identity = None  /\ keys = NoKeys /\ log = {}
       \/ identity = First /\ keys = NoKeys /\ log = {}
       \/ /\ identity = Second
          /\ keys = [NoKeys EXCEPT ![First] = [active(0) EXCEPT !.state = "retired"], ![Second] = active(0)]
          /\ log = {OldEntry}
       \/ identity = First /\ keys = [NoKeys EXCEPT ![First] = active(1)] /\ log = {}
    /\ backend \in {"sqlite", "d1"}
    /\ clock = 0
    /\ txt = [NoTxt EXCEPT !.k = identity]
    /\ req = [r \in Requests |-> New]
    /\ past = [setBack |-> FALSE, overtaken |-> FALSE, renumbered |-> FALSE]

At(r, step) == req[r].at = step
Becomes(r, record) == req' = [req EXCEPT ![r] = record]
Goes(r, step) == Becomes(r, [req[r] EXCEPT !.at = step])
Ends(r, answer) ==
    Becomes(r, [New EXCEPT !.at = "done", !.kind = req[r].kind, !.att = req[r].att,
                  !.since = req[r].since, !.answer = answer])

\* A change of the keys is late for the verifiers that are under way.
ChangesKeys(r, record) ==
    req' = [x \in Requests |->
              IF x = r THEN record
              ELSE [req[x] EXCEPT !.late = @ \/ (req[x].kind = "verify" /\ req[x].at # "done")]]

----------------------------------------------------------------------------
(* The log and its verification *)

HashOf(e) == <<e.seq, e.att, e.ts, e.key>>

IsHead(e, entries) == e \in entries /\ \A f \in entries : f.seq <= e.seq

Follows(e, f) == e.seq = f.seq + 1 /\ e.prev = HashOf(f) /\ f.ts <= e.ts
Starts(e)     == e.seq = 1 /\ e.prev = None

Linked(entries) ==
    /\ \A e \in entries : Starts(e) \/ \E f \in entries : Follows(e, f)
    /\ \A e, f \in entries : e.seq = f.seq => e = f

\* The keys of a ring that an entry names, whoever signed it: by the number, or in the
\* entries that are older than the numbers by the fingerprint.
Named(e, ring) == {kid \in Kids : /\ ring[kid].state # "none"
                                  /\ IF e.id = 0 THEN kid = e.key ELSE ring[kid].id = e.id}

InWindow(e, row) == row.from <= e.ts /\ (row.state = "retired" => e.ts <= row.to)

Known(entries, ring)      == \A e \in entries : Named(e, ring) # {}
Signed(entries, ring)     == \A e \in entries : Named(e, ring) \subseteq {e.key}
InWindows(entries, ring)  == \A e \in entries : \A kid \in Named(e, ring) : InWindow(e, ring[kid])
Anchored(entries, h)      == h # None => \E e \in entries : HashOf(e) = h
ActiveIn(ring, k)         == k # None => ring[k].state = "active"

\* Why verifyChain() refuses entries under the keys, `k` and `h` that it is given (it
\* answers with the first reason that it meets).
Refusals(entries, ring, t) ==
       (IF Linked(entries)          THEN {} ELSE {"chain"})
  \cup (IF Known(entries, ring)     THEN {} ELSE {"unknown_key"})
  \cup (IF Signed(entries, ring)    THEN {} ELSE {"bad_signature"})
  \cup (IF InWindows(entries, ring) THEN {} ELSE {"window"})
  \cup (IF ActiveIn(ring, t.k)      THEN {} ELSE {"active_key"})
  \cup (IF Anchored(entries, t.h)   THEN {} ELSE {"head"})

----------------------------------------------------------------------------
(* Requests begin *)

Began(kind, step) == [New EXCEPT !.at = step, !.kind = kind]

BeginAppend(r, att) ==
    /\ At(r, "new")
    /\ IF identity = None
       THEN Ends(r, "no_identity")
       ELSE Becomes(r, [Began("append", "ensure") EXCEPT !.att = att, !.since = Cardinality(log)])
    /\ UNCHANGED <<clock, identity, keys, log, txt, past>>

BeginRotate(r) ==
    /\ At(r, "new")
    /\ IF identity = None THEN Ends(r, "no_identity") ELSE Becomes(r, Began("rotate", "ensure"))
    /\ UNCHANGED <<clock, identity, keys, log, txt, past>>

BeginCreate(r) ==
    /\ At(r, "new")
    /\ IF identity # None THEN Ends(r, "exists") ELSE Becomes(r, [Began("create", "time") EXCEPT !.n = 1])
    /\ UNCHANGED <<clock, identity, keys, log, txt, past>>

\* The verifier resolves the TXT record before it asks for the log.
BeginVerify(r) ==
    /\ At(r, "new")
    /\ txt.k # None
    /\ Becomes(r, [Began("verify", "ensure") EXCEPT !.txt = txt, !.since = Cardinality(log)])
    /\ UNCHANGED <<clock, identity, keys, log, txt, past>>

\* The checklist reads the key, asks the DNS, and then reads the head of the log.
BeginChecklist(r) ==
    /\ At(r, "new")
    /\ identity # None
    /\ Becomes(r, [Began("checklist", "head") EXCEPT !.key = identity])
    /\ UNCHANGED <<clock, identity, keys, log, txt, past>>

----------------------------------------------------------------------------
(* ensureKeys(), at the start of getActiveSigningKey(), listKeys() and rotate() *)

Ensured(r) == CASE req[r].kind = "append" -> "key"
                [] req[r].kind = "rotate" -> "last"
                [] OTHER                  -> "keys"

LookForRows(r) ==
    /\ At(r, "ensure")
    /\ IF Rows = {}
       THEN Becomes(r, [req[r] EXCEPT !.at = "copy", !.key = identity])
       ELSE Goes(r, "pending")
    /\ UNCHANGED <<clock, identity, keys, log, txt, past>>

Taken(id) == \E kid \in Rows : keys[kid].id = id

\* Mutant of Ignored: INSERT OR REPLACE.
IgnoredNever(kid) == FALSE

\* INSERT OR IGNORE: nothing is done if the row breaks any of the unique indexes.
Ignored(kid) == kid \in Rows \/ ActiveKeys # {} \/ Taken(1)

CopyIdentity(r) ==
    LET kid == req[r].key IN
    /\ At(r, "copy")
    /\ keys' = IF Ignored(kid)
               THEN keys
               ELSE [keys EXCEPT ![kid] = [state |-> "active", from |-> 0, to |-> 0, id |-> 1]]
    /\ Goes(r, "pending")
    /\ UNCHANGED <<clock, identity, log, txt, past>>

Unnumbered == {kid \in Rows : keys[kid].id = 0}

\* The rows without a key_id, in the order of their dates, are First and Second.
ReadPending(r) ==
    /\ At(r, "pending")
    /\ Goes(r, IF Unnumbered = {} THEN Ensured(r) ELSE "max")
    /\ UNCHANGED <<clock, identity, keys, log, txt, past>>

IsMaxSequence(n) == /\ \A kid \in Rows : keys[kid].id <= n
                    /\ n = 0 \/ \E kid \in Rows : keys[kid].id = n

ReadMaxPending(r) ==
    /\ At(r, "max")
    /\ \E n \in 0..MaxId : IsMaxSequence(n) /\ Becomes(r, [req[r] EXCEPT !.at = "backfill", !.n = n])
    /\ UNCHANGED <<clock, identity, keys, log, txt, past>>

\* One UPDATE per row in one transaction.  The unique index undoes it if another row
\* has the number; the second row is still the owner of its old one when the first is set.
Backfill(r) ==
    LET n == req[r].n
        taken == \/ \E kid \in Rows \ {First} : keys[kid].id = n + 1
                 \/ \E kid \in Rows \ {First, Second} : keys[kid].id = n + 2
        numbered == [keys EXCEPT ![First].id = n + 1, ![Second].id = n + 2]
    IN
    /\ At(r, "backfill")
    /\ n + 2 <= MaxId
    /\ IF taken
       THEN Goes(r, Ensured(r)) /\ UNCHANGED <<keys, past>>
       ELSE /\ keys' = numbered
            /\ past' = [past EXCEPT !.renumbered = @ \/ (Unnumbered = {} /\ numbered # keys)]
            /\ ChangesKeys(r, [req[r] EXCEPT !.at = Ensured(r)])
    /\ UNCHANGED <<clock, identity, log, txt>>

----------------------------------------------------------------------------
(* appendAttestation() *)

ReadActiveKey(r) ==
    /\ At(r, "key")
    /\ \/ \E kid \in ActiveKeys :
             /\ keys[kid].id # 0
             /\ Becomes(r, [req[r] EXCEPT !.at = "sign", !.key = kid, !.n = keys[kid].id])
       \/ /\ \A kid \in ActiveKeys : keys[kid].id = 0
          /\ Ends(r, "failed")
    /\ UNCHANGED <<clock, identity, keys, log, txt, past>>

\* Mutant of TimeAfter: the time is not compared with the head.
TimeUnclamped(h) == clock

\* The time of an entry that follows h.
TimeAfter(h) == IF clock < h.ts THEN h.ts ELSE clock

\* The head is read, and when it arrives the time is taken; what others do in between
\* they could as well have done before, or it makes the INSERT fail.
SignEntry(r) ==
    LET Signs(seq, prev, ts) ==
          Becomes(r, [req[r] EXCEPT !.at = "duplicate",
                        !.entry = [seq |-> seq, prev |-> prev, ts |-> ts,
                                   att |-> req[r].att, key |-> req[r].key, id |-> req[r].n]])
    IN
    /\ At(r, "sign")
    /\ \/ log = {} /\ Signs(1, None, clock)
       \/ \E h \in log : /\ IsHead(h, log)
                         /\ Signs(h.seq + 1, HashOf(h), TimeAfter(h))
    /\ UNCHANGED <<clock, identity, keys, log, txt, past>>

CheckDuplicate(r) ==
    /\ At(r, "duplicate")
    /\ IF \E e \in log : e.att = req[r].att THEN Ends(r, "duplicate") ELSE Goes(r, "insert")
    /\ UNCHANGED <<clock, identity, keys, log, txt, past>>

\* Mutant of LastAttempt: one attempt too few.
LastAttemptEarly(r) == req[r].tries + 2 >= MaxAttempts

LastAttempt(r) == req[r].tries + 1 = MaxAttempts

\* The log has each number once, and each attestation once; on a conflict the append
\* starts again with the key.
InsertEntry(r) ==
    LET entry == req[r].entry IN
    /\ At(r, "insert")
    /\ IF \E e \in log : e.seq = entry.seq \/ e.att = entry.att
       THEN /\ IF LastAttempt(r)
               THEN Ends(r, "conflict")
               ELSE Becomes(r, [Began("append", "ensure") EXCEPT !.att = req[r].att,
                                  !.since = req[r].since, !.tries = req[r].tries + 1])
            /\ UNCHANGED <<log, past>>
       ELSE /\ log' = log \cup {entry}
            /\ past' = [past EXCEPT !.overtaken = @ \/ keys[entry.key].state # "active"]
            /\ Ends(r, "logged")
    /\ UNCHANGED <<clock, identity, keys, txt>>

----------------------------------------------------------------------------
(* rotate() and create() *)

ReadLastSequence(r) ==
    /\ At(r, "last")
    /\ \E n \in 0..(MaxId - 1) : IsMaxSequence(n) /\ Becomes(r, [req[r] EXCEPT !.at = "time", !.n = n + 1])
    /\ UNCHANGED <<clock, identity, keys, log, txt, past>>

\* On D1 the transaction is on its way for a while after the time was taken; on SQLite
\* it runs at once.  `seen` is history: the log when the time was taken.
TakeTime(r) ==
    /\ At(r, "time")
    /\ backend = "d1"
    /\ Becomes(r, [req[r] EXCEPT !.at = "commit", !.ts = clock, !.seen = log])
    /\ UNCHANGED <<clock, identity, keys, log, txt, past>>

Commits(r) == At(r, IF backend = "d1" THEN "commit" ELSE "time")
Time(r) == IF backend = "d1" THEN req[r].ts ELSE clock
Overtaken(r) == backend = "d1" /\ log # req[r].seen

\* Mutant of ClosesKey: the UPDATE without valid_to IS NULL.
ClosesEveryKey(row) == row.state # "none"

ClosesKey(row) == row.state = "active"

\* Mutant of Closed: the dates are in each other's place.
ClosedAtStart(row, time) == [row EXCEPT !.state = "retired", !.from = time]

Closed(row, time) == [row EXCEPT !.state = "retired", !.to = time]
Inserted(r) == [state |-> "active", from |-> Time(r), to |-> 0, id |-> req[r].n]

\* The identity is replaced, the active key is closed and the new one is inserted, in
\* one transaction: the number of another key undoes it all.
CommitRotation(r) ==
    /\ Commits(r)
    /\ req[r].kind = "rotate"
    /\ IF Taken(req[r].n)
       THEN Ends(r, "failed") /\ UNCHANGED <<identity, keys, past>>
       ELSE /\ identity' = r
            /\ keys' = [kid \in Kids |->
                          IF kid = r THEN Inserted(r)
                          ELSE IF ClosesKey(keys[kid]) THEN Closed(keys[kid], Time(r))
                          ELSE keys[kid]]
            /\ past' = [past EXCEPT !.overtaken = @ \/ Overtaken(r)]
            /\ ChangesKeys(r, [New EXCEPT !.at = "done", !.kind = "rotate", !.answer = "rotated"])
    /\ UNCHANGED <<clock, log, txt>>

CommitCreation(r) ==
    /\ Commits(r)
    /\ req[r].kind = "create"
    /\ IF identity # None \/ Taken(req[r].n)
       THEN Ends(r, "failed") /\ UNCHANGED <<identity, keys>>
       ELSE /\ identity' = r
            /\ keys' = [keys EXCEPT ![r] = Inserted(r)]
            /\ Ends(r, "created")
    /\ UNCHANGED <<clock, log, txt, past>>

----------------------------------------------------------------------------
(* The public log and its verifier, and the TXT record *)

\* A verifier keeps the keys of the first page it is given.
ListKeys(r) ==
    /\ At(r, "keys")
    /\ Becomes(r, [req[r] EXCEPT !.at = "page", !.ring = IF req[r].pages = 0 THEN keys ELSE @])
    /\ UNCHANGED <<clock, identity, keys, log, txt, past>>

\* Mutant of From: the page begins one entry late.
FromNext(n) == {e \in log : e.seq > n}

From(n) == {e \in log : e.seq >= n}
Page(n) == {e \in From(n) : Cardinality({f \in From(n) : f.seq < e.seq}) < PageLimit}

\* `next` is the number of the first entry after the page.
ListEntries(r) ==
    LET n    == req[r].next
        rest == From(n) \ Page(n)
        seen == req[r].seen \cup Page(n)
        refusals == Refusals(seen, req[r].ring, req[r].txt)
    IN
    /\ At(r, "page")
    /\ IF rest = {}
       THEN Becomes(r, [New EXCEPT !.at = "done", !.kind = "verify", !.seen = seen,
                          !.since = req[r].since, !.late = req[r].late,
                          !.answer = IF refusals = {} THEN "verified" ELSE "refused",
                          !.reasons = refusals])
       ELSE IF req[r].pages + 1 = MaxPages
       THEN Ends(r, "incomplete")
       ELSE \E e \in rest :
              /\ \A f \in rest : e.seq <= f.seq
              /\ Becomes(r, [req[r] EXCEPT !.at = "ensure", !.next = e.seq, !.seen = seen, !.pages = @ + 1])
    /\ UNCHANGED <<clock, identity, keys, log, txt, past>>

\* The operator copies the record that is suggested to the DNS.
PublishTxt(r) ==
    /\ At(r, "head")
    /\ \/ log = {} /\ txt' = [k |-> req[r].key, h |-> None]
       \/ \E e \in log : IsHead(e, log) /\ txt' = [k |-> req[r].key, h |-> HashOf(e)]
    /\ Ends(r, "published")
    /\ UNCHANGED <<clock, identity, keys, log, past>>

----------------------------------------------------------------------------
(* The clock, which an administrator or NTP may set back, here at most once *)

Tick ==
    /\ clock < MaxTime
    /\ clock' = clock + 1
    /\ UNCHANGED <<identity, keys, log, txt, req, past>>

SetBack ==
    /\ clock > 0
    /\ ~past.setBack
    /\ clock' = clock - 1
    /\ past' = [past EXCEPT !.setBack = TRUE]
    /\ UNCHANGED <<identity, keys, log, txt, req>>

Begin(r) ==
    \/ \E att \in Atts : BeginAppend(r, att)
    \/ BeginRotate(r)
    \/ BeginCreate(r)
    \/ BeginVerify(r)
    \/ BeginChecklist(r)

EnsureKeys(r) ==
    \/ LookForRows(r)
    \/ CopyIdentity(r)
    \/ ReadPending(r)
    \/ ReadMaxPending(r)
    \/ Backfill(r)

Append(r) ==
    \/ ReadActiveKey(r)
    \/ SignEntry(r)
    \/ CheckDuplicate(r)
    \/ InsertEntry(r)

Replace(r) ==
    \/ ReadLastSequence(r)
    \/ TakeTime(r)
    \/ CommitRotation(r)
    \/ CommitCreation(r)

Publish(r) ==
    \/ ListKeys(r)
    \/ ListEntries(r)
    \/ PublishTxt(r)

Next ==
    /\ \/ \E r \in Requests : Begin(r) \/ EnsureKeys(r) \/ Append(r) \/ Replace(r) \/ Publish(r)
       \/ Tick
       \/ SetBack
    /\ UNCHANGED backend

Spec == Init /\ [][Next]_vars

----------------------------------------------------------------------------
(* Properties *)

\* Whatever two appends, a rotation and a retry do to each other, the log is one chain
\* without gaps, forks or steps back in time, and no attestation is in it twice.
HistoryIsAChain ==
    /\ Linked(log)
    /\ \A e, f \in log : e.att = f.att => e = f

\* A site that has rows of keys has one active key, the one of its identity, and no two
\* keys have the same number.
OneActiveKey ==
    /\ Rows # {} => ActiveKeys = {identity}
    /\ \A k, l \in Rows : keys[k].id = keys[l].id /\ keys[k].id # 0 => k = l

\* The whole log verifies under the site's keys, except that an entry is outside the
\* window of its key only after the clock was set back or a rotation and an append
\* overtook one another, and that its key is not found only after the keys were numbered twice.
FailuresAreExplained ==
    LET reasons == Refusals(log, keys, NoTxt) IN
    /\ reasons \subseteq {"unknown_key", "bad_signature", "window"}
    /\ "window" \in reasons => past.setBack \/ past.overtaken \/ past.renumbered
    /\ reasons \cap {"unknown_key", "bad_signature"} # {} => past.renumbered

\* A verifier that accepts a history has all the entries there were when it began; it
\* never finds the chain broken or the published head missing, and a key that it does
\* not know, or that signed another entry, is one that changed while it was reading.
VerdictIsTrue(q) == q.kind = "verify" /\ q.answer \in {"verified", "refused"} =>
    /\ \A e \in log : e.seq <= q.since => e \in q.seen
    /\ q.reasons \cap {"chain", "head"} = {}
    /\ q.reasons \cap {"unknown_key", "bad_signature"} # {} => q.late \/ past.renumbered
    /\ "window" \in q.reasons => past.setBack \/ past.overtaken \/ past.renumbered

VerdictsAreTrue == \A r \in Requests : VerdictIsTrue(req[r])

\* An attestation that is answered for is in the log, and an append gives up only after
\* others have inserted an entry during each of its attempts.
AppendIsTrue(q) == q.kind = "append" =>
    /\ q.answer \in {"logged", "duplicate"} => \E e \in log : e.att = q.att
    /\ q.answer = "conflict" => Cardinality(log) >= q.since + MaxAttempts
    /\ q.answer # "failed"

AppendsAreTrue == \A r \in Requests : AppendIsTrue(req[r])

\* What was published stays: no entry is changed or removed, a key that was retired keeps
\* its window, and the number of a key changes only if two requests number the keys at once.
PastIsKept ==
    [][/\ log \subseteq log'
       /\ \A kid \in Rows :
            /\ keys[kid].state = "retired" => [keys'[kid] EXCEPT !.id = 0] = [keys[kid] EXCEPT !.id = 0]
            /\ keys[kid].id # 0 /\ ~past'.renumbered => keys'[kid].id = keys[kid].id]_vars

=============================================================================
