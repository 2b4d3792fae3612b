-------------------------- MODULE SiteHistoryProofs --------------------------
(* Proofs about SiteHistory, for every value of its constants. *)
EXTENDS SiteHistoryInv, FiniteSetTheorems, TLAPS

Steps == {"new", "ensure", "copy", "pending", "max", "backfill", "key", "sign", "duplicate", "insert",
          "last", "time", "commit", "keys", "page", "head", "done"}
Answers == {"none", "no_identity", "exists", "failed", "logged", "duplicate", "conflict", "rotated",
            "created", "verified", "refused", "incomplete", "published"}

SameWho(n, q)    == n.kind = q.kind /\ n.att = q.att /\ n.since = q.since /\ n.tries = q.tries
SameSigns(n, q)  == n.key = q.key /\ n.n = q.n /\ n.ts = q.ts /\ n.entry = q.entry
SameReads(n, q)  == /\ n.next = q.next /\ n.ring = q.ring /\ n.seen = q.seen /\ n.pages = q.pages
                    /\ n.txt = q.txt /\ n.late = q.late
SameAnswer(n, q) == n.answer = q.answer /\ n.reasons = q.reasons

LEMMA NewShape == New \in Records
  BY NamesAssumption DEF New, Records, NoKeys, NoKey, KeyRows, NoTxt, Txts, Kids

LEMMA GoShape ==
    ASSUME NEW q \in Records, NEW at \in Steps, NEW n, n = [q EXCEPT !.at = at]
    PROVE  n \in Records /\ n.at = at /\ SameWho(n, q) /\ SameSigns(n, q) /\ SameReads(n, q) /\ SameAnswer(n, q)
<1>1. n \in Records BY DEF Records, Steps
<1>2. n.at = at BY DEF Records
<1>3. SameWho(n, q) BY DEF Records, SameWho
<1>4. SameSigns(n, q) BY DEF Records, SameSigns
<1>5. SameReads(n, q) BY Zenon DEF Records, SameReads
<1>6. SameAnswer(n, q) BY DEF Records, SameAnswer
<1>. QED BY <1>1, <1>2, <1>3, <1>4, <1>5, <1>6

\* Request x is the same after a step, but that a verifier may have been overtaken.
Alike(x) ==
    /\ req'[x].at = req[x].at /\ SameWho(req'[x], req[x]) /\ SameSigns(req'[x], req[x])
    /\ SameAnswer(req'[x], req[x])
    /\ req'[x].next = req[x].next /\ req'[x].ring = req[x].ring /\ req'[x].seen = req[x].seen
    /\ req'[x].pages = req[x].pages /\ req'[x].txt = req[x].txt
    /\ req[x].late => req'[x].late

\* What every step does to the keys, to the log and to the rest of the site.
KeysDrift ==
    /\ Rows \subseteq Rows' /\ (keys' # keys => Rows' # {})
    /\ \A kid \in Rows :
         /\ keys'[kid].from = keys[kid].from
         /\ keys[kid].state = "retired" => keys'[kid].state = "retired" /\ keys'[kid].to = keys[kid].to
         /\ keys[kid].id # 0 => keys'[kid].id # 0 /\ (~past'.renumbered => keys'[kid].id = keys[kid].id)
    /\ Rows # {} /\ Unnumbered = {} => Unnumbered' = {}
    /\ identity # None => identity' # None
    /\ Rows' = {} => identity' = identity

LogDrift ==
    /\ log \subseteq log'
    /\ Cardinality(log') \in Nat /\ Cardinality(log) <= Cardinality(log')
    /\ \A e \in log' : e \in log \/ (e.seq > Cardinality(log) /\ Cardinality(log') > Cardinality(log))

Drift ==
    /\ KeysDrift /\ LogDrift /\ backend' = backend
    /\ past.setBack => past'.setBack
    /\ past.overtaken => past'.overtaken
    /\ past.renumbered => past'.renumbered
    /\ ~past'.setBack => clock <= clock'

----------------------------------------------------------------------------
(* A request to which a step does nothing *)

LEMMA CardNat == IInv => Cardinality(log) \in Nat
  BY FS_CardinalityType DEF IInv, SiteOK, ChainOK

LEMMA RequestDrifts ==
    ASSUME IInv, TypeOK', Drift, NEW x \in Requests, Alike(x),
           req[x].at # "done" => keys'[x] = keys[x] /\ (identity' = identity \/ identity' # x),
           keys' # keys /\ Rows # {} /\ req[x].kind = "verify" /\ req[x].at # "done" => req'[x].late
    PROVE  RequestOK(req[x], x)'
<1>0. /\ RequestOK(req[x], x) /\ req[x] \in Records /\ req'[x] \in Records
      /\ Cardinality(log) \in Nat /\ Cardinality(log') \in Nat
  BY CardNat DEF IInv, TypeOK, Drift, LogDrift
<1>1. KindOK(req[x])'
  BY <1>0 DEF RequestOK, KindOK, Alike, SameWho
<1>2. KeysOK(req[x], x)'
  BY <1>0 DEF RequestOK, KeysOK, Alike, SameWho, SameSigns, Drift, KeysDrift, Rotating
<1>3. AppendOK(req[x])'
  <2>1. AppendOK(req[x]) BY <1>0 DEF RequestOK
  <2>2. EntryOK(req[x]) => EntryOK(req[x])'
    BY <1>0 DEF EntryOK, Alike, SameWho, SameSigns, Drift, LogDrift, Starts, Follows, HashOf
  <2>. QED BY <1>0, <2>1, <2>2 DEF AppendOK, Alike, SameWho, SameSigns, Drift, LogDrift, Records
<1>4. SignsOK(req[x])'
  <2>1. SignsOK(req[x]) BY <1>0 DEF RequestOK
  <2>2. Owns(req[x].key, req[x].n) /\ req[x].n # 0 => Owns(req[x].key, req[x].n)'
    <3>1. req[x].key \in Rows => /\ req[x].key \in Rows'
                                 /\ keys[req[x].key].id # 0 /\ ~past'.renumbered =>
                                      keys'[req[x].key].id = keys[req[x].key].id
      BY DEF Drift, KeysDrift
    <3>2. past.renumbered => past'.renumbered BY Zenon DEF Drift
    <3>3. req'[x].key = req[x].key /\ req'[x].n = req[x].n BY DEF Alike, SameSigns
    <3>4. ASSUME Owns(req[x].key, req[x].n), req[x].n # 0
          PROVE  /\ req'[x].key \in Rows'
                 /\ ~past'.renumbered => keys'[req'[x].key].id = req'[x].n
      <4>1. req[x].key \in Rows /\ (~past.renumbered => keys[req[x].key].id = req[x].n)
        BY <3>4 DEF Owns
      <4>2. CASE past'.renumbered BY <4>1, <4>2, <3>1, <3>3
      <4>3. CASE ~past'.renumbered
        <5>1. ~past.renumbered BY <4>3, <3>2
        <5>2. keys[req[x].key].id = req[x].n BY <4>1, <5>1
        <5>. QED BY <4>1, <4>3, <5>2, <3>1, <3>3, <3>4
      <4>. QED BY <4>2, <4>3
    <3>. QED BY <3>4 DEF Owns
  <2>3. req'[x].at = req[x].at /\ req'[x].key = req[x].key /\ req'[x].n = req[x].n /\ req'[x].ts = req[x].ts
        /\ req'[x].entry = req[x].entry /\ req'[x].seen = req[x].seen
    BY DEF Alike, SameSigns
  <2>4. past.setBack => past'.setBack BY Zenon DEF Drift
  <2>5. ASSUME ~past'.setBack, req[x].at \in {"duplicate", "insert"}
        PROVE  req[x].entry.ts <= clock' /\ keys'[req[x].key].from <= req[x].entry.ts
    <3>1. ~past.setBack BY <2>4, <2>5
    <3>2. req[x].entry.ts <= clock /\ keys[req[x].key].from <= req[x].entry.ts
      BY <2>1, <2>5, <3>1 DEF SignsOK
    <3>3. req[x].entry \in Entries
      BY <1>0, <2>5 DEF RequestOK, KindOK, AppendOK, EntryOK
    <3>4. clock \in Nat /\ clock' \in Nat /\ clock <= clock'
      BY <2>5 DEF Drift, IInv, TypeOK
    <3>5. keys'[req[x].key].from = keys[req[x].key].from
      BY <2>1, <2>5 DEF SignsOK, Owns, Drift, KeysDrift
    <3>6. req[x].entry.ts \in Nat BY <3>3 DEF Entries
    <3>. QED BY <3>2, <3>4, <3>5, <3>6
  <2>6. ASSUME ~past'.setBack, req[x].at = "commit"
        PROVE  req[x].ts <= clock' /\ \A e \in req[x].seen : e.ts <= req[x].ts
    <3>1. ~past.setBack BY <2>4, <2>6
    <3>2. req[x].ts <= clock /\ \A e \in req[x].seen : e.ts <= req[x].ts
      BY <2>1, <2>6, <3>1 DEF SignsOK
    <3>3. clock \in Nat /\ clock' \in Nat /\ clock <= clock' /\ req[x].ts \in Nat
      BY <1>0, <2>6 DEF Drift, IInv, TypeOK, Records
    <3>. QED BY <3>2, <3>3
  <2>7. req[x].at \in {"sign", "duplicate", "insert"} => req[x].n # 0 /\ Owns(req[x].key, req[x].n)'
    BY <2>1, <2>2 DEF SignsOK
  <2>. QED BY <2>3, <2>5, <2>6, <2>7 DEF SignsOK
<1>5. ReadOK(req[x])'
  <2>1. ReadOK(req[x]) BY <1>0 DEF RequestOK
  <2>. DEFINE q == req[x]
              n == req'[x]
  <2>2. n.kind = q.kind /\ n.at = q.at /\ n.since = q.since /\ n.seen = q.seen /\ n.next = q.next
    BY DEF Alike, SameWho
  <2>3. n.txt = q.txt /\ n.pages = q.pages /\ n.ring = q.ring /\ (q.late => n.late)
    BY Zenon DEF Alike
  <2>4. /\ log \subseteq log' /\ Cardinality(log) <= Cardinality(log')
        /\ \A e \in log' : e \in log \/ (e.seq > Cardinality(log) /\ Cardinality(log') > Cardinality(log))
    BY DEF Drift, LogDrift
  <2>. SUFFICES ASSUME q.kind = "verify"
                PROVE  /\ n.since <= Cardinality(log')
                       /\ n.at # "done" => /\ n.seen = {e \in log' : e.seq < n.next}
                                           /\ n.next \in 1..(Cardinality(log') + 1)
                                           /\ Published(q.txt.h)'
                       /\ (n.pages # 0 \/ n.at = "page") /\ n.at # "done" =>
                            RingOK(q.ring)' /\ (~n.late => n.ring = keys')
    BY <2>2, Zenon DEF ReadOK
  <2>5. n.since <= Cardinality(log')
    <3>1. q.since \in Nat BY <1>0 DEF Records
    <3>2. q.since <= Cardinality(log) BY <2>1 DEF ReadOK
    <3>. QED BY <3>1, <3>2, <2>2, <2>4, <1>0
  <2>6. ASSUME n.at # "done" PROVE n.seen = {e \in log' : e.seq < n.next} /\ n.next \in 1..(Cardinality(log') + 1)
    <3>1. q.seen = {e \in log : e.seq < q.next} /\ q.next \in 1..(Cardinality(log) + 1)
      BY <2>1, <2>2, <2>6 DEF ReadOK
    <3>2. \A e \in log' : e.seq \in Nat BY DEF TypeOK, Entries
    <3>. QED BY <3>1, <3>2, <2>2, <2>4, <1>0
  <2>7. ASSUME n.at # "done" PROVE Published(q.txt.h)'
    <3>1. Published(q.txt.h) BY <2>1, <2>2, <2>7, Zenon DEF ReadOK
    <3>. QED BY <3>1, <2>3, <2>4 DEF Published, HashOf
  <2>8. ASSUME n.pages # 0 \/ n.at = "page", n.at # "done" PROVE RingOK(q.ring)' /\ (~n.late => n.ring = keys')
    <3>1. RingOK(q.ring) /\ (~q.late => q.ring = keys)
      BY <2>1, <2>2, <2>3, <2>8 DEF ReadOK
    <3>2. Rows # {}
      BY <1>0, <2>2, <2>3, <2>8 DEF RequestOK, KeysOK
    <3>3. past.renumbered => past'.renumbered BY Zenon DEF Drift
    <3>4. RingOK(q.ring)'
      <4>1. ASSUME NEW kid \in Kids, q.ring[kid].state # "none"
            PROVE  /\ kid \in Rows' /\ q.ring[kid].id # 0
                   /\ q.ring[kid].from = keys'[kid].from
                   /\ q.ring[kid].state = "retired" => keys'[kid].state = "retired" /\ q.ring[kid].to = keys'[kid].to
                   /\ ~past'.renumbered => q.ring[kid].id = keys'[kid].id
        <5>1. /\ kid \in Rows /\ q.ring[kid].id # 0 /\ q.ring[kid].from = keys[kid].from
              /\ q.ring[kid].state = "retired" => keys[kid].state = "retired" /\ q.ring[kid].to = keys[kid].to
              /\ ~past.renumbered => q.ring[kid].id = keys[kid].id
          BY <3>1, <4>1 DEF RingOK
        <5>2. /\ kid \in Rows' /\ keys'[kid].from = keys[kid].from
              /\ keys[kid].state = "retired" => keys'[kid].state = "retired" /\ keys'[kid].to = keys[kid].to
              /\ keys[kid].id # 0 => (~past'.renumbered => keys'[kid].id = keys[kid].id)
          BY <5>1 DEF Drift, KeysDrift
        <5>3. CASE past'.renumbered BY <5>1, <5>2, <5>3
        <5>4. CASE ~past'.renumbered
          <6>1. q.ring[kid].id = keys[kid].id BY <5>1, <5>4, <3>3
          <6>. QED BY <5>1, <5>2, <5>4, <6>1
        <5>. QED BY <5>3, <5>4
      <4>. QED BY <4>1, <2>3 DEF RingOK
    <3>5. ~n.late => n.ring = keys'
      <4>1. keys' # keys => n.late BY <3>2, <2>2, <2>8
      <4>. QED BY <4>1, <3>1, <2>3, Zenon
    <3>. QED BY <3>4, <3>5
  <2>. QED BY <2>5, <2>6, <2>7, <2>8
<1>6. AppendIsTrue(req[x])'
  <2>1. AppendIsTrue(req[x]) BY <1>0 DEF RequestOK
  <2>2. req[x].since \in Nat /\ MaxAttempts \in Nat BY <1>0, BoundsAssumption DEF Records
  <2>3. log \subseteq log' /\ Cardinality(log) <= Cardinality(log') BY DEF Drift, LogDrift
  <2>4. /\ req'[x].kind = req[x].kind /\ req'[x].att = req[x].att /\ req'[x].since = req[x].since
        /\ req'[x].answer = req[x].answer
    BY DEF Alike, SameWho, SameAnswer
  <2>. QED BY <1>0, <2>1, <2>2, <2>3, <2>4 DEF AppendIsTrue
<1>7. VerdictIsTrue(req[x])'
  <2>. DEFINE q == req[x]
              n == req'[x]
  <2>1. VerdictIsTrue(q) /\ ReadOK(q) BY <1>0 DEF RequestOK
  <2>2. /\ n.kind = q.kind /\ n.since = q.since /\ n.answer = q.answer /\ n.seen = q.seen
        /\ n.reasons = q.reasons
    BY DEF Alike, SameWho, SameAnswer
  <2>3. /\ q.late => n.late
        /\ past.setBack => past'.setBack
        /\ past.overtaken => past'.overtaken
        /\ past.renumbered => past'.renumbered
    BY Zenon DEF Alike, Drift
  <2>. SUFFICES ASSUME q.kind = "verify", q.answer \in {"verified", "refused"}
                PROVE  /\ \A e \in log' : e.seq <= q.since => e \in q.seen
                       /\ q.reasons \cap {"chain", "head"} = {}
                       /\ q.reasons \cap {"unknown_key", "bad_signature"} # {} => n.late \/ past'.renumbered
                       /\ "window" \in q.reasons => past'.setBack \/ past'.overtaken \/ past'.renumbered
    BY <2>2 DEF VerdictIsTrue
  <2>4. \A e \in log' : e.seq <= q.since => e \in q.seen
    <3>1. \A e \in log : e.seq <= q.since => e \in q.seen BY <2>1 DEF VerdictIsTrue
    <3>2. q.since \in Nat /\ q.since <= Cardinality(log) BY <1>0, <2>1 DEF ReadOK, Records
    <3>3. \A e \in log' : e \in log \/ e.seq > Cardinality(log) BY DEF Drift, LogDrift
    <3>4. \A e \in log' : e.seq \in Nat BY DEF TypeOK, Entries
    <3>. QED BY <3>1, <3>2, <3>3, <3>4, <1>0
  <2>5. /\ q.reasons \cap {"chain", "head"} = {}
        /\ q.reasons \cap {"unknown_key", "bad_signature"} # {} => q.late \/ past.renumbered
        /\ "window" \in q.reasons => past.setBack \/ past.overtaken \/ past.renumbered
    BY <2>1, Zenon DEF VerdictIsTrue
  <2>. QED BY <2>3, <2>4, <2>5, Zenon
<1>. QED BY <1>1, <1>2, <1>3, <1>4, <1>5, <1>6, <1>7 DEF RequestOK

----------------------------------------------------------------------------
(* The records of requests *)

Keyed(q, at, k) == [q EXCEPT !.at = at, !.key = k]

LEMMA KeyShape ==
    ASSUME NEW q \in Records, NEW at \in Steps, NEW k \in Kids \cup {None}, NEW n, n = Keyed(q, at, k)
    PROVE  /\ n \in Records /\ n.at = at /\ n.key = k /\ n.n = q.n /\ n.ts = q.ts /\ n.entry = q.entry
           /\ SameWho(n, q) /\ SameReads(n, q) /\ SameAnswer(n, q)
<1>1. n \in Records BY DEF Records, Steps, Keyed
<1>2. n.at = at /\ n.key = k /\ n.n = q.n /\ n.ts = q.ts /\ n.entry = q.entry BY DEF Records, Keyed
<1>3. SameWho(n, q) BY DEF Records, Keyed, SameWho
<1>5. SameReads(n, q) BY Zenon DEF Records, Keyed, SameReads
<1>6. SameAnswer(n, q) BY DEF Records, Keyed, SameAnswer
<1>. QED BY <1>1, <1>2, <1>3, <1>5, <1>6

Numbers(q, at, i) == [q EXCEPT !.at = at, !.n = i]

LEMMA NumberShape ==
    ASSUME NEW q \in Records, NEW at \in Steps, NEW i \in Nat, NEW n, n = Numbers(q, at, i)
    PROVE  /\ n \in Records /\ n.at = at /\ n.key = q.key /\ n.n = i /\ n.ts = q.ts /\ n.entry = q.entry
           /\ SameWho(n, q) /\ SameReads(n, q) /\ SameAnswer(n, q)
<1>1. n \in Records BY DEF Records, Steps, Numbers
<1>2. n.at = at /\ n.key = q.key /\ n.n = i /\ n.ts = q.ts /\ n.entry = q.entry BY DEF Records, Numbers
<1>3. SameWho(n, q) BY DEF Records, Numbers, SameWho
<1>5. SameReads(n, q) BY Zenon DEF Records, Numbers, SameReads
<1>6. SameAnswer(n, q) BY DEF Records, Numbers, SameAnswer
<1>. QED BY <1>1, <1>2, <1>3, <1>5, <1>6

Signer(q, at, k, i) == [q EXCEPT !.at = at, !.key = k, !.n = i]

LEMMA SignerShape ==
    ASSUME NEW q \in Records, NEW at \in Steps, NEW k \in Kids, NEW i \in Nat,
           NEW n, n = Signer(q, at, k, i)
    PROVE  /\ n \in Records /\ n.at = at /\ n.key = k /\ n.n = i /\ n.ts = q.ts /\ n.entry = q.entry
           /\ SameWho(n, q) /\ SameReads(n, q) /\ SameAnswer(n, q)
<1>1. n \in Records BY DEF Records, Steps, Signer
<1>2. n.at = at /\ n.key = k /\ n.n = i /\ n.ts = q.ts /\ n.entry = q.entry BY DEF Records, Signer
<1>3. SameWho(n, q) BY DEF Records, Signer, SameWho
<1>5. SameReads(n, q) BY Zenon DEF Records, Signer, SameReads
<1>6. SameAnswer(n, q) BY DEF Records, Signer, SameAnswer
<1>. QED BY <1>1, <1>2, <1>3, <1>5, <1>6

Makes(q, at, e) == [q EXCEPT !.at = at, !.entry = e]

LEMMA EntryShape ==
    ASSUME NEW q \in Records, NEW at \in Steps, NEW e \in Entries, NEW n, n = Makes(q, at, e)
    PROVE  /\ n \in Records /\ n.at = at /\ n.key = q.key /\ n.n = q.n /\ n.ts = q.ts /\ n.entry = e
           /\ SameWho(n, q) /\ SameReads(n, q) /\ SameAnswer(n, q)
<1>1. n \in Records BY DEF Records, Steps, Makes
<1>2. n.at = at /\ n.key = q.key /\ n.n = q.n /\ n.ts = q.ts /\ n.entry = e BY DEF Records, Makes
<1>3. SameWho(n, q) BY DEF Records, Makes, SameWho
<1>5. SameReads(n, q) BY Zenon DEF Records, Makes, SameReads
<1>6. SameAnswer(n, q) BY DEF Records, Makes, SameAnswer
<1>. QED BY <1>1, <1>2, <1>3, <1>5, <1>6

Times(q, at, t, S) == [q EXCEPT !.at = at, !.ts = t, !.seen = S]

LEMMA TimeShape ==
    ASSUME NEW q \in Records, NEW at \in Steps, NEW t \in Nat, NEW S \in SUBSET Entries,
           NEW n, n = Times(q, at, t, S)
    PROVE  /\ n \in Records /\ n.at = at /\ n.key = q.key /\ n.n = q.n /\ n.ts = t /\ n.seen = S
           /\ SameWho(n, q) /\ SameAnswer(n, q) /\ n.pages = q.pages
<1>1. n \in Records BY DEF Records, Steps, Times
<1>2. n.at = at /\ n.key = q.key /\ n.n = q.n /\ n.ts = t /\ n.seen = S /\ n.pages = q.pages BY
   DEF Records, Times
<1>3. SameWho(n, q) BY DEF Records, Times, SameWho
<1>6. SameAnswer(n, q) BY DEF Records, Times, SameAnswer
<1>. QED BY <1>1, <1>2, <1>3, <1>6

Rings(q, at, ring) == [q EXCEPT !.at = at, !.ring = ring]

LEMMA RingShape ==
    ASSUME NEW q \in Records, NEW at \in Steps, NEW ring \in [Kids -> KeyRows], NEW n,
           n = Rings(q, at, ring)
    PROVE  /\ n \in Records /\ n.at = at /\ n.ring = ring /\ n.seen = q.seen /\ n.next = q.next /\ n.pages = q.pages
           /\ n.txt = q.txt /\ n.late = q.late
           /\ SameWho(n, q) /\ SameAnswer(n, q)
<1>1. n \in Records BY DEF Records, Steps, Rings
<1>2. n.at = at /\ n.ring = ring /\ n.seen = q.seen /\ n.next = q.next /\ n.pages = q.pages /\ n.txt = q.txt BY
   DEF Records, Rings
<1>3. SameWho(n, q) BY DEF Records, Rings, SameWho
<1>4. n.late = q.late BY Zenon DEF Records, Rings
<1>6. SameAnswer(n, q) BY DEF Records, Rings, SameAnswer
<1>. QED BY <1>1, <1>2, <1>3, <1>4, <1>6

Pages(q, at, next, S) == [q EXCEPT !.at = at, !.next = next, !.seen = S, !.pages = @ + 1]

LEMMA PageShape ==
    ASSUME NEW q \in Records, NEW at \in Steps, NEW next \in Nat, NEW S \in SUBSET Entries, NEW n,
           n = Pages(q, at, next, S)
    PROVE  /\ n \in Records /\ n.at = at /\ n.ring = q.ring /\ n.seen = S /\ n.next = next /\ n.pages = q.pages + 1
           /\ n.txt = q.txt /\ n.late = q.late
           /\ SameWho(n, q) /\ SameAnswer(n, q)
<1>1. n \in Records
  <2>1. PICK p \in Nat : p = q.pages + 1 BY DEF Records
  <2>2. n = [q EXCEPT !.at = at, !.next = next, !.seen = S, !.pages = p] BY <2>1 DEF Pages
  <2>. DEFINE m == [q EXCEPT !.at = at, !.next = next]
  <2>3. m \in Records BY DEF Records, Steps, Pages
  <2>4. n = [[m EXCEPT !.seen = S] EXCEPT !.pages = p] BY <2>2 DEF Records, Pages
  <2>. HIDE DEF m
  <2>5. [m EXCEPT !.seen = S] \in Records BY <2>3 DEF Records, Pages
  <2>6. \A x \in Records : [x EXCEPT !.pages = p] \in Records BY DEF Records, Pages
  <2>. QED BY <2>4, <2>5, <2>6
<1>2. n.at = at /\ n.ring = q.ring /\ n.seen = S /\ n.next = next /\ n.pages = q.pages + 1 /\ n.txt = q.txt BY
   DEF Records, Pages
<1>3. SameWho(n, q) BY DEF Records, Pages, SameWho
<1>4. n.late = q.late BY Zenon DEF Records, Pages
<1>6. SameAnswer(n, q) BY DEF Records, Pages, SameAnswer
<1>. QED BY <1>1, <1>2, <1>3, <1>4, <1>6

Fresh(n) == /\ n.tries = 0 /\ n.next = 1 /\ n.seen = {} /\ n.pages = 0
            /\ n.answer = "none" /\ n.reasons = {}

LEMMA BeganShape ==
    ASSUME NEW kind \in {"append", "rotate", "create", "verify", "checklist"}, NEW step \in Steps \ {"done"}
    PROVE  /\ Began(kind, step) \in Records /\ Began(kind, step).at = step /\ Began(kind, step).kind = kind
           /\ Fresh(Began(kind, step)) /\ Began(kind, step).since = 0
<1>1. NoKeys \in [Kids -> KeyRows] /\ NoTxt \in Txts BY DEF NoKeys, NoKey, KeyRows, NoTxt, Txts
<1>2. Began(kind, step) \in Records BY <1>1 DEF Records, Began, New, Steps
<1>. QED BY <1>2 DEF Began, New, Fresh

Started(att, since) == [Began("append", "ensure") EXCEPT !.att = att, !.since = since]
Restarted(att, since, tries) == [Began("append", "ensure") EXCEPT !.att = att, !.since = since, !.tries = tries]

LEMMA BeganAppendShape ==
    ASSUME NEW att \in Atts, NEW since \in Nat, NEW tries \in Nat, NEW n,
           n = Restarted(att, since, tries) \/ (n = Started(att, since) /\ tries = 0)
    PROVE  /\ n \in Records /\ n.at = "ensure" /\ n.kind = "append" /\ n.att = att /\ n.since = since
           /\ n.tries = tries /\ n.pages = 0 /\ n.answer = "none"
<1>. DEFINE b == Began("append", "ensure")
<1>1. b \in Records /\ b.at = "ensure" /\ b.kind = "append" /\ b.tries = 0 /\ b.pages = 0 /\ b.answer = "none"
  BY BeganShape DEF Steps, Fresh
<1>2. n = [b EXCEPT !.att = att, !.since = since, !.tries = tries] \/ (n = [b EXCEPT !.att = att, !.since = since] /\ tries = 0)
  BY DEF Started, Restarted
<1>. HIDE DEF b
<1>3. CASE n = [b EXCEPT !.att = att, !.since = since, !.tries = tries]
  <2>1. n \in Records BY <1>1, <1>3 DEF Records
  <2>. QED BY <1>1, <1>3, <2>1 DEF Records
<1>4. CASE n = [b EXCEPT !.att = att, !.since = since] /\ tries = 0
  <2>1. n \in Records BY <1>1, <1>4 DEF Records
  <2>. QED BY <1>1, <1>4, <2>1 DEF Records
<1>. QED BY <1>2, <1>3, <1>4

LEMMA BeganVerifyShape ==
    ASSUME NEW t \in Txts, NEW since \in Nat, NEW n,
           n = [Began("verify", "ensure") EXCEPT !.txt = t, !.since = since]
    PROVE  /\ n \in Records /\ n.at = "ensure" /\ n.kind = "verify" /\ n.since = since /\ n.txt = t
           /\ Fresh(n)
<1>. DEFINE b == Began("verify", "ensure")
<1>1. b \in Records /\ b.at = "ensure" /\ b.kind = "verify" /\ Fresh(b)
  BY BeganShape DEF Steps
<1>. HIDE DEF b
<1>2. n = [b EXCEPT !.txt = t, !.since = since] BY DEF b
<1>3. n \in Records
  <2>1. NoKeys \in [Kids -> KeyRows] BY DEF NoKeys, NoKey, KeyRows
  <2>. QED BY <2>1 DEF Records, Began, New
<1>. QED BY <1>1, <1>2, <1>3 DEF Records, Fresh

LEMMA BeganNumberShape ==
    ASSUME NEW i \in Nat, NEW n, n = [Began("create", "time") EXCEPT !.n = i]
    PROVE  n \in Records /\ n.at = "time" /\ n.kind = "create" /\ n.n = i /\ Fresh(n)
<1>. DEFINE b == Began("create", "time")
<1>1. b \in Records /\ b.at = "time" /\ b.kind = "create" /\ Fresh(b)
  BY BeganShape DEF Steps
<1>. HIDE DEF b
<1>2. n = [b EXCEPT !.n = i] BY DEF b
<1>3. n \in Records BY <1>1, <1>2 DEF Records
<1>. QED BY <1>1, <1>2, <1>3 DEF Records, Fresh

LEMMA BeganKeyShape ==
    ASSUME NEW k \in Kids, NEW n, n = [Began("checklist", "head") EXCEPT !.key = k]
    PROVE  n \in Records /\ n.at = "head" /\ n.kind = "checklist" /\ n.key = k /\ Fresh(n)
<1>. DEFINE b == Began("checklist", "head")
<1>1. b \in Records /\ b.at = "head" /\ b.kind = "checklist" /\ Fresh(b)
  BY BeganShape DEF Steps
<1>. HIDE DEF b
<1>2. n = [b EXCEPT !.key = k] BY DEF b
<1>3. n \in Records BY <1>1, <1>2 DEF Records
<1>. QED BY <1>1, <1>2, <1>3 DEF Records, Fresh

Verdict(S, since, late, a, why) ==
    [New EXCEPT !.at = "done", !.kind = "verify", !.seen = S, !.since = since, !.late = late,
       !.answer = a, !.reasons = why]

Verdicts == {"verified", "refused"}
Whys == SUBSET {"chain", "unknown_key", "bad_signature", "window", "active_key", "head"}

LEMMA VerdictShape ==
    ASSUME NEW S \in SUBSET Entries, NEW since \in Nat, NEW late \in BOOLEAN, NEW a \in Verdicts,
           NEW why \in Whys, NEW n,
           n = Verdict(S, since, late, a, why)
    PROVE  /\ n \in Records /\ n.at = "done" /\ n.kind = "verify" /\ n.seen = S /\ n.since = since
           /\ n.answer = a /\ n.reasons = why /\ n.pages = 0
<1>1. NoKeys \in [Kids -> KeyRows] /\ NoTxt \in Txts BY DEF NoKeys, NoKey, KeyRows, NoTxt, Txts
<1>2. n \in Records BY <1>1 DEF Records, New, Verdict, Verdicts, Whys
<1>3. n.at = "done" /\ n.kind = "verify" /\ n.seen = S /\ n.since = since /\ n.answer = a /\ n.reasons = why /\ n.pages = 0
  BY <1>2 DEF Records, New, Verdict, Verdicts, Whys
<1>. QED BY <1>2, <1>3

LEMMA RotatedShape ==
    ASSUME NEW n, n = [New EXCEPT !.at = "done", !.kind = "rotate", !.answer = "rotated"]
    PROVE  n \in Records /\ n.at = "done" /\ n.kind = "rotate" /\ n.answer = "rotated" /\ n.pages = 0
<1>1. NoKeys \in [Kids -> KeyRows] /\ NoTxt \in Txts BY DEF NoKeys, NoKey, KeyRows, NoTxt, Txts
<1>2. n \in Records BY <1>1 DEF Records, New
<1>. QED BY <1>2 DEF Records, New

----------------------------------------------------------------------------
(* Requests that end or go on *)

Ended(q, answer) == [New EXCEPT !.at = "done", !.kind = q.kind, !.att = q.att, !.since = q.since, !.answer = answer]

LEMMA EndShape ==
    ASSUME NEW q \in Records, NEW a \in Answers, NEW n, n = Ended(q, a)
    PROVE  /\ n \in Records /\ n.at = "done" /\ n.kind = q.kind /\ n.att = q.att /\ n.since = q.since
           /\ n.answer = a /\ n.pages = 0 /\ n.reasons = {}
<1>1. New.pages = 0 /\ New.reasons = {} BY DEF New
<1>2. n \in Records
  <2>1. NoKeys \in [Kids -> KeyRows] /\ NoTxt \in Txts BY DEF NoKeys, NoKey, KeyRows, NoTxt, Txts
  <2>2. q.kind \in {"none", "append", "rotate", "create", "verify", "checklist"} /\ q.att \in Atts \cup {None}
        /\ q.since \in Nat
    BY DEF Records
  <2>. QED BY <2>1, <2>2 DEF Records, Ended, Answers, New
<1>3. /\ n.at = "done" /\ n.kind = q.kind /\ n.att = q.att /\ n.since = q.since /\ n.answer = a
      /\ n.pages = New.pages /\ n.reasons = New.reasons
  BY NewShape DEF Records, Ended
<1>. QED BY <1>1, <1>2, <1>3

\* A request that ends, other than with a verdict.
LEMMA EndOK ==
    ASSUME NEW r \in Requests, NEW q \in Records, RequestOK(q, r), NEW a \in Answers \ {"verified", "refused"},
           NEW n, n = Ended(q, a), AppendIsTrue(n)
    PROVE  n \in Records /\ RequestOK(n, r)
<1>1. /\ n \in Records /\ n.at = "done" /\ n.kind = q.kind /\ n.att = q.att /\ n.since = q.since
      /\ n.answer = a /\ n.pages = 0 /\ n.reasons = {}
  BY EndShape
<1>2. KindOK(n) BY <1>1 DEF RequestOK, KindOK
<1>3. KeysOK(n, r) BY <1>1 DEF KeysOK, Rotating
<1>4. AppendOK(n) /\ SignsOK(n) BY <1>1 DEF AppendOK, SignsOK
<1>5. ReadOK(n) /\ VerdictIsTrue(n) BY <1>1 DEF RequestOK, ReadOK, VerdictIsTrue
<1>. QED BY <1>1, <1>2, <1>3, <1>4, <1>5 DEF RequestOK

\* A step that changes nothing of the site.
LEMMA SameSite ==
    ASSUME UNCHANGED <<clock, identity, keys, log, past>>, NEW x, NEW q, req'[x] = q, RequestOK(q, x)
    PROVE  RequestOK(req[x], x)'
<1>1. KindOK(req[x])' BY DEF RequestOK, KindOK
<1>2. KeysOK(req[x], x)' BY DEF RequestOK, KeysOK, Rotating, Rows, Unnumbered
<1>3. AppendOK(req[x])' BY DEF RequestOK, AppendOK, EntryOK, Starts, Follows, HashOf
<1>4. SignsOK(req[x])' BY DEF RequestOK, SignsOK, Owns, Rows
<1>5. ReadOK(req[x])' BY DEF RequestOK, ReadOK, RingOK, Rows, Published, HashOf
<1>6. AppendIsTrue(req[x])' BY DEF RequestOK, AppendIsTrue
<1>7. VerdictIsTrue(req[x])' BY DEF RequestOK, VerdictIsTrue
<1>. QED BY <1>1, <1>2, <1>3, <1>4, <1>5, <1>6, <1>7 DEF RequestOK

LEMMA CalmKeeps ==
    ASSUME IInv, UNCHANGED <<backend, clock, identity, keys, log, txt, past>>,
           NEW r \in Requests, NEW n, Becomes(r, n), n \in Records, RequestOK(n, r)
    PROVE  IInv'
<1>1. TypeOK' BY DEF IInv, TypeOK, Becomes
<1>2. SiteOK'
  <2>1. SiteOK BY DEF IInv
  <2>2. RowsOK' BY <2>1 DEF SiteOK, RowsOK, Rows, ActiveKeys, Unnumbered
  <2>3. ChainOK' BY <2>1 DEF SiteOK, ChainOK, Linked, Starts, Follows, HashOf
  <2>4. NamesOK' BY <2>1 DEF SiteOK, NamesOK, Owns, Rows
  <2>5. TimesOK' /\ WindowsOK' BY <2>1 DEF SiteOK, TimesOK, WindowsOK
  <2>6. Published(txt.h)' BY <2>1 DEF SiteOK, Published, HashOf
  <2>. QED BY <2>2, <2>3, <2>4, <2>5, <2>6 DEF SiteOK
<1>3. ASSUME NEW x \in Requests PROVE RequestOK(req[x], x)'
  <2>1. req'[x] = IF x = r THEN n ELSE req[x] BY DEF IInv, TypeOK, Becomes
  <2>2. RequestOK(req'[x], x) BY <2>1 DEF IInv
  <2>. QED BY <2>2, SameSite
<1>. QED BY <1>1, <1>2, <1>3 DEF IInv

LEMMA Here ==
    ASSUME IInv, NEW r \in Requests
    PROVE  /\ TypeOK /\ SiteOK /\ req[r] \in Records /\ RequestOK(req[r], r)
           /\ Cardinality(log) \in Nat
  BY CardNat DEF IInv, TypeOK

\* A request that goes on to a step other than the reading of a page.
LEMMA MoveOK ==
    ASSUME NEW r \in Requests, NEW q \in Records, RequestOK(q, r), q.at # "done",
           NEW n \in Records, n.at \notin {"done", "page"}, SameWho(n, q), SameReads(n, q), SameAnswer(n, q),
           KindOK(n), KeysOK(n, r), AppendOK(n), SignsOK(n)
    PROVE  RequestOK(n, r)
<1>1. ReadOK(n)
  <2>1. n.kind = q.kind /\ n.since = q.since BY DEF SameWho
  <2>2. n.seen = q.seen /\ n.next = q.next /\ n.txt = q.txt /\ n.pages = q.pages /\ n.ring = q.ring BY
     DEF SameReads
  <2>3. n.late = q.late BY Zenon DEF SameReads
  <2>4. ReadOK(q) BY DEF RequestOK
  <2>5. q.kind = "verify" => /\ q.since <= Cardinality(log) /\ q.seen = {e \in log : e.seq < q.next}
                             /\ q.next \in 1..(Cardinality(log) + 1) /\ Published(q.txt.h)
    BY <2>4 DEF ReadOK
  <2>6. ASSUME q.kind = "verify", q.pages # 0 PROVE RingOK(q.ring) /\ (~q.late => q.ring = keys)
    BY <2>4, <2>6 DEF ReadOK
  <2>7. ASSUME q.kind = "verify", q.pages # 0 PROVE RingOK(n.ring) /\ (~n.late => n.ring = keys)
    <3>1. RingOK(n.ring) BY <2>2, <2>6, <2>7
    <3>2. ~n.late => n.ring = keys BY <2>2, <2>3, <2>6, <2>7, Zenon
    <3>. QED BY <3>1, <3>2
  <2>. QED BY <2>1, <2>2, <2>5, <2>7 DEF ReadOK
<1>2. AppendIsTrue(n) BY DEF RequestOK, AppendIsTrue, SameWho, SameAnswer
<1>3. VerdictIsTrue(n)
  <2>1. n.kind = q.kind /\ n.since = q.since BY DEF SameWho
  <2>2. n.seen = q.seen BY DEF SameReads
  <2>3. n.late = q.late BY Zenon DEF SameReads
  <2>4. n.answer = q.answer /\ n.reasons = q.reasons BY DEF SameAnswer
  <2>5. VerdictIsTrue(q) BY DEF RequestOK
  <2>. QED BY <2>1, <2>2, <2>3, <2>4, <2>5, Zenon DEF VerdictIsTrue
<1>. QED BY <1>1, <1>2, <1>3 DEF RequestOK

\* A request that goes on to a step of ensureKeys().
LEMMA EnsureOK ==
    ASSUME NEW r \in Requests, NEW q \in Records, RequestOK(q, r), q.at \in {"ensure", "copy", "pending", "max", "backfill"},
           NEW n \in Records, n.at \in {"copy", "pending", "max", "backfill"},
           SameWho(n, q), SameReads(n, q), SameAnswer(n, q),
           n.at = "copy" => Rows = {} /\ n.key = identity,
           n.at \in {"pending", "max", "backfill"} => Rows # {},
           n.at \in {"max", "backfill"} => {First, Second} \subseteq Rows /\ q.pages = 0
    PROVE  RequestOK(n, r)
<1>1. KindOK(n) BY DEF RequestOK, KindOK, SameWho
<1>2. KeysOK(n, r)
  <2>1. KeysOK(q, r) /\ q.kind # "create" BY DEF RequestOK, KindOK
  <2>2. n.pages = q.pages /\ n.kind = q.kind BY DEF SameReads, SameWho
  <2>. QED BY <2>1, <2>2 DEF KeysOK, Rotating
<1>3. AppendOK(n) BY DEF RequestOK, AppendOK, SameWho
<1>4. SignsOK(n) BY DEF SignsOK
<1>. QED BY <1>1, <1>2, <1>3, <1>4, MoveOK

\* A request that has ensured the keys.
LEMMA EnsuredOK ==
    ASSUME NEW r \in Requests, NEW q \in Records, q = req[r], RequestOK(q, r), q.at \in {"pending", "max", "backfill"},
           Unnumbered = {}, NEW n, n = [q EXCEPT !.at = Ensured(r)]
    PROVE  n \in Records /\ RequestOK(n, r)
<1>1. q.kind \in {"append", "rotate", "verify"} BY DEF RequestOK, KindOK
<1>2. Ensured(r) = CASE q.kind = "append" -> "key" [] q.kind = "rotate" -> "last" [] OTHER -> "keys"
  BY DEF Ensured
<1>3. Ensured(r) \in {"key", "last", "keys"} BY <1>1, <1>2
<1>4. /\ n \in Records /\ n.at = Ensured(r) /\ SameWho(n, q) /\ SameSigns(n, q) /\ SameReads(n, q)
      /\ SameAnswer(n, q)
  <2>1. Ensured(r) \in Steps BY <1>3 DEF Steps
  <2>. QED BY <2>1, GoShape
<1>5. KindOK(n) BY <1>1, <1>2, <1>4 DEF RequestOK, KindOK, SameWho
<1>6. KeysOK(n, r)
  <2>1. KeysOK(q, r) BY DEF RequestOK
  <2>2. n.pages = q.pages /\ n.kind = q.kind BY <1>4 DEF SameReads, SameWho
  <2>. QED BY <2>1, <2>2, <1>1, <1>3, <1>4 DEF KeysOK, Rotating
<1>7. AppendOK(n) BY <1>3, <1>4 DEF RequestOK, AppendOK, SameWho
<1>8. SignsOK(n) BY <1>3, <1>4 DEF SignsOK
<1>. QED BY <1>3, <1>4, <1>5, <1>6, <1>7, <1>8, MoveOK

----------------------------------------------------------------------------
(* Steps that change nothing of the site *)

LEMMA LookForRowsKeeps == ASSUME IInv, backend' = backend, NEW r \in Requests, LookForRows(r) PROVE IInv'
<1>. DEFINE q == req[r]
<1>0. q \in Records /\ RequestOK(q, r) /\ q.at = "ensure" BY Here DEF LookForRows, At
<1>1. ASSUME Rows = {} PROVE IInv'
  <2>. DEFINE n == Keyed(q, "copy", identity)
  <2>1. identity \in Kids \cup {None} BY DEF IInv, TypeOK
  <2>2. n \in Records /\ n.at = "copy" /\ n.key = identity /\ SameWho(n, q) /\ SameReads(n, q) /\ SameAnswer(n, q)
    <3>1. "copy" \in Steps BY DEF Steps
    <3>. QED BY <1>0, <2>1, <3>1, KeyShape
  <2>. HIDE DEF n
  <2>3. RequestOK(n, r) BY <1>0, <1>1, <2>2, EnsureOK
  <2>4. Becomes(r, n) BY <1>1 DEF LookForRows, n, Keyed
  <2>. QED BY <2>2, <2>3, <2>4, CalmKeeps DEF LookForRows
<1>2. ASSUME Rows # {} PROVE IInv'
  <2>. DEFINE n == [q EXCEPT !.at = "pending"]
  <2>2. n \in Records /\ n.at = "pending" /\ SameWho(n, q) /\ SameReads(n, q) /\ SameAnswer(n, q)
    BY <1>0, GoShape DEF Steps
  <2>. HIDE DEF n
  <2>3. RequestOK(n, r) BY <1>0, <1>2, <2>2, EnsureOK
  <2>4. Becomes(r, n) BY <1>2 DEF LookForRows, Goes, n
  <2>. QED BY <2>2, <2>3, <2>4, CalmKeeps DEF LookForRows
<1>. QED BY <1>1, <1>2

LEMMA ReadPendingKeeps == ASSUME IInv, backend' = backend, NEW r \in Requests, ReadPending(r) PROVE IInv'
<1>. DEFINE q == req[r]
<1>0. q \in Records /\ RequestOK(q, r) /\ q.at = "pending" BY Here DEF ReadPending, At
<1>1. ASSUME Unnumbered = {} PROVE IInv'
  <2>. DEFINE n == [q EXCEPT !.at = Ensured(r)]
  <2>1. n \in Records /\ RequestOK(n, r) BY <1>0, <1>1, EnsuredOK
  <2>. HIDE DEF n
  <2>2. Becomes(r, n) BY <1>1 DEF ReadPending, Goes, n
  <2>. QED BY <2>1, <2>2, CalmKeeps DEF ReadPending
<1>2. ASSUME Unnumbered # {} PROVE IInv'
  <2>. DEFINE n == [q EXCEPT !.at = "max"]
  <2>2. n \in Records /\ n.at = "max" /\ SameWho(n, q) /\ SameReads(n, q) /\ SameAnswer(n, q)
    BY <1>0, GoShape DEF Steps
  <2>. HIDE DEF n
  <2>3. {First, Second} \subseteq Rows /\ Rows # {} /\ q.pages = 0
    BY <1>0, <1>2 DEF IInv, SiteOK, RowsOK, RequestOK, KeysOK
  <2>4. RequestOK(n, r) BY <1>0, <2>2, <2>3, EnsureOK
  <2>5. Becomes(r, n) BY <1>2 DEF ReadPending, Goes, n
  <2>. QED BY <2>2, <2>4, <2>5, CalmKeeps DEF ReadPending
<1>. QED BY <1>1, <1>2

LEMMA ReadMaxPendingKeeps == ASSUME IInv, backend' = backend, NEW r \in Requests, ReadMaxPending(r) PROVE IInv'
<1>. DEFINE q == req[r]
<1>0. q \in Records /\ RequestOK(q, r) /\ q.at = "max" BY Here DEF ReadMaxPending, At
<1>1. PICK i \in 0..MaxId : Becomes(r, [q EXCEPT !.at = "backfill", !.n = i]) BY DEF ReadMaxPending
<1>. DEFINE n == Numbers(q, "backfill", i)
<1>2. i \in Nat BY BoundsAssumption
<1>3. n \in Records /\ n.at = "backfill" /\ SameWho(n, q) /\ SameReads(n, q) /\ SameAnswer(n, q)
  <2>1. "backfill" \in Steps BY DEF Steps
  <2>. QED BY <1>0, <1>2, <2>1, NumberShape
<1>4. Becomes(r, n) BY <1>1 DEF Numbers
<1>. HIDE DEF n
<1>5. {First, Second} \subseteq Rows /\ Rows # {} /\ q.pages = 0 BY <1>0 DEF RequestOK, KeysOK
<1>6. RequestOK(n, r) BY <1>0, <1>3, <1>5, EnsureOK
<1>. QED BY <1>3, <1>4, <1>6, CalmKeeps DEF ReadMaxPending

LEMMA ReadActiveKeyKeeps == ASSUME IInv, backend' = backend, NEW r \in Requests, ReadActiveKey(r) PROVE IInv'
<1>. DEFINE q == req[r]
<1>0. q \in Records /\ RequestOK(q, r) /\ q.at = "key" /\ q.kind = "append" BY Here
   DEF ReadActiveKey, At, RequestOK, KindOK
<1>1. Rows # {} /\ Unnumbered = {} BY <1>0 DEF RequestOK, KeysOK
<1>2. ActiveKeys = {identity} BY <1>1 DEF IInv, SiteOK, RowsOK
<1>3. identity \in Rows BY <1>2 DEF ActiveKeys, Rows
<1>4. keys[identity].id # 0 BY <1>1, <1>3 DEF Unnumbered
<1>5. PICK kid \in ActiveKeys : keys[kid].id # 0 /\ Becomes(r, [q EXCEPT !.at = "sign", !.key = kid, !.n = keys[kid].id])
  BY <1>2, <1>4 DEF ReadActiveKey
<1>. DEFINE n == Signer(q, "sign", kid, keys[kid].id)
<1>6. kid \in Kids /\ kid \in Rows /\ keys[kid].id \in Nat BY DEF ActiveKeys, Rows, IInv, TypeOK, KeyRows
<1>7. /\ n \in Records /\ n.at = "sign" /\ n.key = kid /\ n.n = keys[kid].id /\ SameWho(n, q) /\ SameReads(n, q)
      /\ SameAnswer(n, q)
  <2>1. "sign" \in Steps BY DEF Steps
  <2>. QED BY <1>0, <1>6, <2>1, SignerShape
<1>8. Becomes(r, n) BY <1>5 DEF Signer
<1>. HIDE DEF n
<1>9. KindOK(n) BY <1>0, <1>7 DEF RequestOK, KindOK, SameWho
<1>10. KeysOK(n, r)
  <2>1. KeysOK(q, r) BY <1>0 DEF RequestOK
  <2>2. n.kind = q.kind BY <1>7 DEF SameWho
  <2>. QED BY <2>1, <2>2, <1>0, <1>1, <1>7 DEF KeysOK, Rotating
<1>11. AppendOK(n) BY <1>0, <1>7 DEF RequestOK, AppendOK, SameWho
<1>12. SignsOK(n) BY <1>5, <1>6, <1>7 DEF SignsOK, Owns
<1>13. RequestOK(n, r) BY <1>0, <1>7, <1>9, <1>10, <1>11, <1>12, MoveOK
<1>. QED BY <1>7, <1>8, <1>13, CalmKeeps DEF ReadActiveKey

\* The head of the log has the number of its entries.
LEMMA HeadIsLast ==
    ASSUME IInv, NEW h \in log, IsHead(h, log)
    PROVE  h.seq = Cardinality(log) /\ h \in Entries
<1>1. {e.seq : e \in log} = 1..Cardinality(log) /\ Cardinality(log) \in Nat /\ h \in Entries
  BY CardNat DEF IInv, SiteOK, ChainOK, TypeOK
<1>2. h.seq \in 1..Cardinality(log) BY <1>1
<1>3. Cardinality(log) \in 1..Cardinality(log) BY <1>1, <1>2
<1>4. PICK e \in log : e.seq = Cardinality(log) BY <1>1, <1>3
<1>. QED BY <1>1, <1>2, <1>4 DEF IsHead

LEMMA SignEntryKeeps == ASSUME IInv, backend' = backend, NEW r \in Requests, SignEntry(r) PROVE IInv'
<1>. DEFINE q == req[r]
<1>0. /\ q \in Records /\ RequestOK(q, r) /\ q.at = "sign" /\ q.kind = "append" /\ q.att \in Atts
      /\ Cardinality(log) \in Nat /\ q.n \in Nat /\ q.since \in Nat /\ q.tries \in Nat /\ clock \in Nat
  BY Here DEF SignEntry, At, RequestOK, KindOK, Records, IInv, TypeOK
<1>1. Owns(q.key, q.n) /\ q.n # 0 /\ q.key \in Kids /\ keys[q.key].from \in Nat
  BY <1>0 DEF RequestOK, SignsOK, Owns, Rows, IInv, TypeOK, KeyRows
<1>2. Cardinality(log) >= q.since + q.tries BY <1>0 DEF RequestOK, AppendOK
<1>. DEFINE Made(seq, prev, ts) == [seq |-> seq, prev |-> prev, ts |-> ts, att |-> q.att, key |-> q.key, id |-> q.n]
<1>3. ASSUME NEW seq \in Nat, NEW prev \in Hashes \cup {None}, NEW ts \in Nat,
             Starts(Made(seq, prev, ts)) \/ \E e \in log : Follows(Made(seq, prev, ts), e),
             seq > Cardinality(log), clock <= ts, ~past.setBack => ts <= clock,
             Becomes(r, [q EXCEPT !.at = "duplicate", !.entry = Made(seq, prev, ts)])
      PROVE  IInv'
  <2>. DEFINE e == Made(seq, prev, ts)
              n == Makes(q, "duplicate", e)
  <2>1. e \in Entries /\ e.seq = seq /\ e.ts = ts /\ e.att = q.att /\ e.key = q.key /\ e.id = q.n
    BY <1>0, <1>1 DEF Entries, AllAtts
  <2>2. Starts(e) \/ \E f \in log : Follows(e, f) BY <1>3
  <2>3. Becomes(r, [q EXCEPT !.at = "duplicate", !.entry = e]) BY <1>3
  <2>. HIDE DEF e, Made
  <2>4. /\ n \in Records /\ n.at = "duplicate" /\ n.key = q.key /\ n.n = q.n /\ n.entry = e /\ SameWho(n, q)
        /\ SameReads(n, q) /\ SameAnswer(n, q)
    <3>1. "duplicate" \in Steps BY DEF Steps
    <3>. QED BY <1>0, <2>1, <3>1, EntryShape
  <2>5. Becomes(r, n) BY <2>3 DEF Makes
  <2>. HIDE DEF n
  <2>6. KindOK(n) BY <1>0, <2>4 DEF KindOK, SameWho
  <2>7. KeysOK(n, r)
    <3>1. KeysOK(q, r) BY <1>0 DEF RequestOK
    <3>2. n.kind = q.kind BY <2>4 DEF SameWho
    <3>. QED BY <3>1, <3>2, <1>0, <2>4 DEF KeysOK, Rotating
  <2>8. AppendOK(n)
    <3>1. n.att = q.att /\ n.since = q.since /\ n.tries = q.tries BY <2>4 DEF SameWho
    <3>2. EntryOK(n) BY <1>0, <1>2, <1>3, <2>1, <2>2, <2>4, <3>1 DEF EntryOK
    <3>. QED BY <1>0, <2>4, <3>1, <3>2 DEF RequestOK, AppendOK
  <2>9. SignsOK(n)
    <3>1. ~past.setBack => keys[q.key].from <= clock BY <1>1 DEF IInv, SiteOK, TimesOK
    <3>2. ~past.setBack => e.ts <= clock /\ keys[q.key].from <= e.ts BY <1>0, <1>1, <1>3, <2>1, <3>1
    <3>. QED BY <1>1, <2>4, <3>2 DEF SignsOK
  <2>10. RequestOK(n, r) BY <1>0, <2>4, <2>6, <2>7, <2>8, <2>9, MoveOK
  <2>. QED BY <2>4, <2>5, <2>10, CalmKeeps DEF SignEntry
<1>4. CASE log = {} /\ Becomes(r, [q EXCEPT !.at = "duplicate", !.entry = Made(1, None, clock)])
  <2>1. Cardinality(log) = 0 BY <1>4, FS_EmptySet
  <2>2. Starts(Made(1, None, clock)) BY DEF Starts
  <2>3. 1 \in Nat /\ 1 > Cardinality(log) /\ clock <= clock BY <1>0, <2>1
  <2>. HIDE DEF Made
  <2>. QED BY <1>0, <1>3, <1>4, <2>2, <2>3
<1>5. ASSUME NEW h \in log, IsHead(h, log),
             Becomes(r, [q EXCEPT !.at = "duplicate", !.entry = Made(h.seq + 1, HashOf(h), TimeAfter(h))])
      PROVE  IInv'
  <2>1. h.seq = Cardinality(log) /\ h \in Entries BY <1>5, HeadIsLast
  <2>2. h.ts \in Nat /\ TimeAfter(h) \in Nat /\ clock <= TimeAfter(h) /\ h.ts <= TimeAfter(h)
    BY <1>0, <2>1 DEF Entries, TimeAfter
  <2>3. ~past.setBack => TimeAfter(h) <= clock
    BY <1>0, <1>5, <2>2 DEF IInv, SiteOK, TimesOK, TimeAfter
  <2>4. HashOf(h) \in Hashes BY <2>1 DEF HashOf, Hashes, Entries
  <2>5. Follows(Made(h.seq + 1, HashOf(h), TimeAfter(h)), h) BY <2>2 DEF Follows
  <2>6. h.seq + 1 \in Nat /\ h.seq + 1 > Cardinality(log) BY <1>0, <2>1
  <2>. HIDE DEF Made
  <2>. QED BY <1>3, <1>5, <2>2, <2>3, <2>4, <2>5, <2>6
<1>. QED BY <1>4, <1>5 DEF SignEntry

LEMMA CheckDuplicateKeeps == ASSUME IInv, backend' = backend, NEW r \in Requests, CheckDuplicate(r) PROVE IInv'
<1>. DEFINE q == req[r]
<1>0. q \in Records /\ RequestOK(q, r) /\ q.at = "duplicate" /\ q.kind = "append"
  BY Here DEF CheckDuplicate, At, RequestOK, KindOK
<1>1. ASSUME NEW e \in log, e.att = q.att, Ends(r, "duplicate") PROVE IInv'
  <2>. DEFINE n == Ended(q, "duplicate")
  <2>1. n.kind = q.kind /\ n.att = q.att /\ n.answer = "duplicate" BY <1>0, EndShape DEF Answers
  <2>2. Becomes(r, n) BY <1>1 DEF Ends, Ended
  <2>. HIDE DEF n
  <2>3. AppendIsTrue(n) BY <1>1, <2>1 DEF AppendIsTrue
  <2>4. n \in Records /\ RequestOK(n, r) BY <1>0, <2>3, EndOK DEF Answers, n
  <2>. QED BY <2>2, <2>4, CalmKeeps DEF CheckDuplicate
<1>2. ASSUME \A e \in log : e.att # q.att, Goes(r, "insert") PROVE IInv'
  <2>. DEFINE n == [q EXCEPT !.at = "insert"]
  <2>1. n \in Records /\ n.at = "insert" /\ SameWho(n, q) /\ SameSigns(n, q) /\ SameReads(n, q) /\ SameAnswer(n, q)
    BY <1>0, GoShape DEF Steps
  <2>2. Becomes(r, n) BY <1>2 DEF Goes
  <2>. HIDE DEF n
  <2>3. KindOK(n) BY <1>0, <2>1 DEF RequestOK, KindOK, SameWho
  <2>4. KeysOK(n, r)
    <3>1. KeysOK(q, r) BY <1>0 DEF RequestOK
    <3>2. n.kind = q.kind BY <2>1 DEF SameWho
    <3>. QED BY <3>1, <3>2, <1>0, <2>1 DEF KeysOK, Rotating
  <2>5. AppendOK(n)
    <3>1. AppendOK(q) BY <1>0 DEF RequestOK
    <3>. QED BY <1>0, <1>2, <2>1, <3>1 DEF AppendOK, EntryOK, SameWho, SameSigns
  <2>6. SignsOK(n)
    <3>1. SignsOK(q) BY <1>0 DEF RequestOK
    <3>. QED BY <1>0, <2>1, <3>1 DEF SignsOK, SameSigns
  <2>7. RequestOK(n, r) BY <1>0, <2>1, <2>3, <2>4, <2>5, <2>6, MoveOK
  <2>. QED BY <2>1, <2>2, <2>7, CalmKeeps DEF CheckDuplicate
<1>. QED BY <1>1, <1>2 DEF CheckDuplicate

LEMMA BeginAppendKeeps ==
    ASSUME IInv, backend' = backend, NEW r \in Requests, NEW att \in Atts, BeginAppend(r, att)
    PROVE  IInv'
<1>. DEFINE q == req[r]
<1>0. q \in Records /\ RequestOK(q, r) /\ q.at = "new" /\ q.kind = "none" /\ Cardinality(log) \in Nat
  BY Here DEF BeginAppend, At, RequestOK, KindOK
<1>1. ASSUME identity = None PROVE IInv'
  <2>. DEFINE n == Ended(q, "no_identity")
  <2>1. n.kind = q.kind BY <1>0, EndShape DEF Answers
  <2>2. Becomes(r, n) BY <1>1 DEF BeginAppend, Ends, Ended
  <2>. HIDE DEF n
  <2>3. AppendIsTrue(n) BY <1>0, <2>1 DEF AppendIsTrue
  <2>4. n \in Records /\ RequestOK(n, r) BY <1>0, <2>3, EndOK DEF Answers, n
  <2>. QED BY <2>2, <2>4, CalmKeeps DEF BeginAppend
<1>2. ASSUME identity # None PROVE IInv'
  <2>. DEFINE n == Started(att, Cardinality(log))
  <2>1. /\ n \in Records /\ n.at = "ensure" /\ n.kind = "append" /\ n.att = att /\ n.since = Cardinality(log)
        /\ n.tries = 0 /\ n.pages = 0 /\ n.answer = "none"
    BY <1>0, BeganAppendShape
  <2>2. Becomes(r, n) BY <1>2 DEF BeginAppend, Started
  <2>. HIDE DEF n
  <2>3. KindOK(n) BY <2>1 DEF KindOK
  <2>4. KeysOK(n, r) BY <1>0, <1>2, <2>1 DEF RequestOK, KeysOK, Rotating
  <2>5. AppendOK(n) BY <1>0, <2>1, BoundsAssumption DEF AppendOK
  <2>6. SignsOK(n) /\ ReadOK(n) /\ AppendIsTrue(n) /\ VerdictIsTrue(n)
    BY <2>1 DEF SignsOK, ReadOK, AppendIsTrue, VerdictIsTrue
  <2>7. RequestOK(n, r) BY <2>3, <2>4, <2>5, <2>6 DEF RequestOK
  <2>. QED BY <2>1, <2>2, <2>7, CalmKeeps DEF BeginAppend
<1>. QED BY <1>1, <1>2

LEMMA BeginRotateKeeps == ASSUME IInv, backend' = backend, NEW r \in Requests, BeginRotate(r) PROVE IInv'
<1>. DEFINE q == req[r]
<1>0. q \in Records /\ RequestOK(q, r) /\ q.at = "new" /\ q.kind = "none"
  BY Here DEF BeginRotate, At, RequestOK, KindOK
<1>1. ASSUME identity = None PROVE IInv'
  <2>. DEFINE n == Ended(q, "no_identity")
  <2>1. n.kind = q.kind BY <1>0, EndShape DEF Answers
  <2>2. Becomes(r, n) BY <1>1 DEF BeginRotate, Ends, Ended
  <2>. HIDE DEF n
  <2>3. AppendIsTrue(n) BY <1>0, <2>1 DEF AppendIsTrue
  <2>4. n \in Records /\ RequestOK(n, r) BY <1>0, <2>3, EndOK DEF Answers, n
  <2>. QED BY <2>2, <2>4, CalmKeeps DEF BeginRotate
<1>2. ASSUME identity # None PROVE IInv'
  <2>. DEFINE n == Began("rotate", "ensure")
  <2>1. n \in Records /\ n.at = "ensure" /\ n.kind = "rotate" /\ Fresh(n)
    BY BeganShape DEF Steps
  <2>2. Becomes(r, n) BY <1>2 DEF BeginRotate
  <2>. HIDE DEF n
  <2>3. KindOK(n) BY <2>1 DEF KindOK
  <2>4. KeysOK(n, r) BY <1>0, <1>2, <2>1 DEF RequestOK, KeysOK, Rotating, Fresh
  <2>5. AppendOK(n) /\ SignsOK(n) /\ ReadOK(n) /\ AppendIsTrue(n) /\ VerdictIsTrue(n)
    BY <2>1 DEF AppendOK, SignsOK, ReadOK, AppendIsTrue, VerdictIsTrue
  <2>6. RequestOK(n, r) BY <2>3, <2>4, <2>5 DEF RequestOK
  <2>. QED BY <2>1, <2>2, <2>6, CalmKeeps DEF BeginRotate
<1>. QED BY <1>1, <1>2

LEMMA BeginCreateKeeps == ASSUME IInv, backend' = backend, NEW r \in Requests, BeginCreate(r) PROVE IInv'
<1>. DEFINE q == req[r]
<1>0. q \in Records /\ RequestOK(q, r) /\ q.at = "new" /\ q.kind = "none"
  BY Here DEF BeginCreate, At, RequestOK, KindOK
<1>1. ASSUME identity # None PROVE IInv'
  <2>. DEFINE n == Ended(q, "exists")
  <2>1. n.kind = q.kind BY <1>0, EndShape DEF Answers
  <2>2. Becomes(r, n) BY <1>1 DEF BeginCreate, Ends, Ended
  <2>. HIDE DEF n
  <2>3. AppendIsTrue(n) BY <1>0, <2>1 DEF AppendIsTrue
  <2>4. n \in Records /\ RequestOK(n, r) BY <1>0, <2>3, EndOK DEF Answers, n
  <2>. QED BY <2>2, <2>4, CalmKeeps DEF BeginCreate
<1>2. ASSUME identity = None PROVE IInv'
  <2>. DEFINE n == [Began("create", "time") EXCEPT !.n = 1]
  <2>1. n \in Records /\ n.at = "time" /\ n.kind = "create" /\ n.n = 1 /\ Fresh(n) BY BeganNumberShape
  <2>2. Becomes(r, n) BY <1>2 DEF BeginCreate
  <2>. HIDE DEF n
  <2>3. KindOK(n) BY <2>1 DEF KindOK
  <2>4. KeysOK(n, r) BY <1>0, <2>1 DEF RequestOK, KeysOK, Rotating, Fresh
  <2>5. AppendOK(n) /\ SignsOK(n) /\ ReadOK(n) /\ AppendIsTrue(n) /\ VerdictIsTrue(n)
    BY <2>1 DEF AppendOK, SignsOK, ReadOK, AppendIsTrue, VerdictIsTrue
  <2>6. RequestOK(n, r) BY <2>3, <2>4, <2>5 DEF RequestOK
  <2>. QED BY <2>1, <2>2, <2>6, CalmKeeps DEF BeginCreate
<1>. QED BY <1>1, <1>2

LEMMA BeginVerifyKeeps == ASSUME IInv, backend' = backend, NEW r \in Requests, BeginVerify(r) PROVE IInv'
<1>. DEFINE q == req[r]
            n == [Began("verify", "ensure") EXCEPT !.txt = txt, !.since = Cardinality(log)]
<1>0. q \in Records /\ RequestOK(q, r) /\ q.at = "new" /\ Cardinality(log) \in Nat
  BY Here DEF BeginVerify, At
<1>1. /\ n \in Records /\ n.at = "ensure" /\ n.kind = "verify" /\ n.since = Cardinality(log) /\ n.txt = txt
      /\ Fresh(n)
  BY <1>0, BeganVerifyShape DEF IInv, TypeOK
<1>2. Becomes(r, n) BY DEF BeginVerify
<1>. HIDE DEF n
<1>3. KindOK(n) BY <1>1 DEF KindOK
<1>4. identity # None BY DEF IInv, SiteOK, RowsOK, BeginVerify
<1>5. KeysOK(n, r) BY <1>0, <1>1, <1>4 DEF RequestOK, KeysOK, Rotating, Fresh
<1>6. ReadOK(n)
  <2>1. \A e \in log : e.seq \in 1..Cardinality(log) BY DEF IInv, SiteOK, ChainOK
  <2>2. {e \in log : e.seq < 1} = {} BY <1>0, <2>1
  <2>3. Published(n.txt.h) BY <1>1 DEF IInv, SiteOK
  <2>. QED BY <1>0, <1>1, <2>2, <2>3 DEF ReadOK, Fresh
<1>7. AppendOK(n) /\ SignsOK(n) /\ AppendIsTrue(n) /\ VerdictIsTrue(n)
  BY <1>1 DEF AppendOK, SignsOK, AppendIsTrue, VerdictIsTrue, Fresh
<1>8. RequestOK(n, r) BY <1>3, <1>5, <1>6, <1>7 DEF RequestOK
<1>. QED BY <1>1, <1>2, <1>8, CalmKeeps DEF BeginVerify

LEMMA BeginChecklistKeeps == ASSUME IInv, backend' = backend, NEW r \in Requests, BeginChecklist(r) PROVE IInv'
<1>. DEFINE q == req[r]
            n == [Began("checklist", "head") EXCEPT !.key = identity]
<1>0. q \in Records /\ RequestOK(q, r) /\ q.at = "new" BY Here DEF BeginChecklist, At
<1>1. n \in Records /\ n.at = "head" /\ n.kind = "checklist" /\ n.key = identity /\ Fresh(n)
  BY BeganKeyShape DEF IInv, TypeOK, BeginChecklist
<1>2. Becomes(r, n) BY DEF BeginChecklist
<1>. HIDE DEF n
<1>3. KindOK(n) BY <1>1 DEF KindOK
<1>4. KeysOK(n, r) BY <1>0, <1>1 DEF RequestOK, KeysOK, Rotating, Fresh, BeginChecklist
<1>5. AppendOK(n) /\ SignsOK(n) /\ ReadOK(n) /\ AppendIsTrue(n) /\ VerdictIsTrue(n)
  BY <1>1 DEF AppendOK, SignsOK, ReadOK, AppendIsTrue, VerdictIsTrue
<1>6. RequestOK(n, r) BY <1>3, <1>4, <1>5 DEF RequestOK
<1>. QED BY <1>1, <1>2, <1>6, CalmKeeps DEF BeginChecklist

\* The INSERT of an append that meets another entry.
LEMMA ConflictKeeps ==
    ASSUME IInv, backend' = backend, NEW r \in Requests, InsertEntry(r),
           NEW e \in log, e.seq = req[r].entry.seq \/ e.att = req[r].entry.att
    PROVE  IInv'
<1>. DEFINE q == req[r]
<1>0. /\ q \in Records /\ RequestOK(q, r) /\ q.at = "insert" /\ q.kind = "append" /\ q.att \in Atts
      /\ Cardinality(log) \in Nat /\ q.since \in Nat /\ q.tries \in Nat /\ MaxAttempts \in Nat
  BY Here, BoundsAssumption DEF InsertEntry, At, RequestOK, KindOK, Records
<1>1. EntryOK(q) /\ q.tries < MaxAttempts /\ ((\A f \in log : f.att # q.att) \/ Cardinality(log) > q.since + q.tries)
  BY <1>0 DEF RequestOK, AppendOK
<1>2. Cardinality(log) > q.since + q.tries
  <2>1. CASE e.seq = q.entry.seq
    <3>1. e.seq \in 1..Cardinality(log) BY DEF IInv, SiteOK, ChainOK
    <3>. QED BY <1>0, <1>1, <2>1, <3>1 DEF EntryOK
  <2>2. CASE e.att = q.entry.att BY <1>1, <2>2 DEF EntryOK
  <2>. QED BY <2>1, <2>2
<1>3. ASSUME LastAttempt(r) PROVE IInv'
  <2>. DEFINE n == Ended(q, "conflict")
  <2>1. n.kind = q.kind /\ n.answer = "conflict" /\ n.since = q.since BY <1>0, EndShape DEF Answers
  <2>2. Becomes(r, n) BY <1>3 DEF InsertEntry, Ends, Ended
  <2>. HIDE DEF n
  <2>3. AppendIsTrue(n) BY <1>0, <1>2, <1>3, <2>1 DEF AppendIsTrue, LastAttempt
  <2>4. n \in Records /\ RequestOK(n, r) BY <1>0, <2>3, EndOK DEF Answers, n
  <2>. QED BY <2>2, <2>4, CalmKeeps DEF InsertEntry
<1>4. ASSUME ~LastAttempt(r) PROVE IInv'
  <2>. DEFINE n == Restarted(q.att, q.since, q.tries + 1)
  <2>1. /\ n \in Records /\ n.at = "ensure" /\ n.kind = "append" /\ n.att = q.att /\ n.since = q.since
        /\ n.tries = q.tries + 1 /\ n.pages = 0 /\ n.answer = "none"
    <3>1. q.tries + 1 \in Nat BY <1>0
    <3>. QED BY <1>0, <3>1, BeganAppendShape
  <2>2. Becomes(r, n) BY <1>4 DEF InsertEntry, Restarted
  <2>. HIDE DEF n
  <2>3. KindOK(n) BY <1>0, <2>1 DEF KindOK
  <2>4. KeysOK(n, r) BY <1>0, <2>1 DEF RequestOK, KeysOK, Rotating
  <2>5. AppendOK(n) BY <1>0, <1>1, <1>2, <1>4, <2>1 DEF AppendOK, LastAttempt
  <2>6. SignsOK(n) /\ ReadOK(n) /\ AppendIsTrue(n) /\ VerdictIsTrue(n)
    BY <2>1 DEF SignsOK, ReadOK, AppendIsTrue, VerdictIsTrue
  <2>7. RequestOK(n, r) BY <2>3, <2>4, <2>5, <2>6 DEF RequestOK
  <2>. QED BY <2>1, <2>2, <2>7, CalmKeeps DEF InsertEntry
<1>. QED BY <1>3, <1>4

LEMMA ReadLastSequenceKeeps == ASSUME IInv, backend' = backend, NEW r \in Requests, ReadLastSequence(r) PROVE IInv'
<1>. DEFINE q == req[r]
<1>0. q \in Records /\ RequestOK(q, r) /\ q.at = "last" /\ q.kind = "rotate"
  BY Here DEF ReadLastSequence, At, RequestOK, KindOK
<1>1. PICK i \in 0..(MaxId - 1) : Becomes(r, [q EXCEPT !.at = "time", !.n = i + 1]) BY DEF ReadLastSequence
<1>. DEFINE n == Numbers(q, "time", i + 1)
<1>2. i + 1 \in Nat /\ i + 1 # 0 BY BoundsAssumption
<1>3. n \in Records /\ n.at = "time" /\ n.n = i + 1 /\ SameWho(n, q) /\ SameReads(n, q) /\ SameAnswer(n, q)
  <2>1. "time" \in Steps BY DEF Steps
  <2>. QED BY <1>0, <1>2, <2>1, NumberShape
<1>4. Becomes(r, n) BY <1>1 DEF Numbers
<1>. HIDE DEF n
<1>5. KindOK(n) BY <1>0, <1>3 DEF KindOK, SameWho
<1>6. KeysOK(n, r)
  <2>1. KeysOK(q, r) BY <1>0 DEF RequestOK
  <2>2. n.kind = q.kind BY <1>3 DEF SameWho
  <2>. QED BY <2>1, <2>2, <1>0, <1>2, <1>3 DEF KeysOK, Rotating
<1>7. AppendOK(n) /\ SignsOK(n) BY <1>0, <1>3 DEF AppendOK, SignsOK, SameWho
<1>8. RequestOK(n, r) BY <1>0, <1>3, <1>5, <1>6, <1>7, MoveOK
<1>. QED BY <1>3, <1>4, <1>8, CalmKeeps DEF ReadLastSequence

LEMMA TakeTimeKeeps == ASSUME IInv, backend' = backend, NEW r \in Requests, TakeTime(r) PROVE IInv'
<1>. DEFINE q == req[r]
            n == Times(q, "commit", clock, log)
<1>0. q \in Records /\ RequestOK(q, r) /\ q.at = "time" /\ q.kind \in {"rotate", "create"}
  BY Here DEF TakeTime, At, RequestOK, KindOK
<1>1. clock \in Nat /\ log \in SUBSET Entries BY DEF IInv, TypeOK
<1>2. /\ n \in Records /\ n.at = "commit" /\ n.n = q.n /\ n.ts = clock /\ n.seen = log /\ SameWho(n, q)
      /\ SameAnswer(n, q) /\ n.pages = q.pages
  <2>1. "commit" \in Steps BY DEF Steps
  <2>. QED BY <1>0, <1>1, <2>1, TimeShape
<1>3. Becomes(r, n) BY DEF TakeTime, Times
<1>. HIDE DEF n
<1>4. n.kind = q.kind BY <1>2 DEF SameWho
<1>5. KindOK(n) BY <1>0, <1>2, <1>4 DEF KindOK
<1>6. KeysOK(n, r)
  <2>1. KeysOK(q, r) BY <1>0 DEF RequestOK
  <2>. QED BY <2>1, <1>0, <1>2, <1>4 DEF KeysOK, Rotating
<1>7. SignsOK(n)
  <2>1. ~past.setBack => \A e \in log : e.ts <= clock BY DEF IInv, SiteOK, TimesOK
  <2>. QED BY <1>1, <1>2, <2>1 DEF SignsOK
<1>8. AppendOK(n) /\ ReadOK(n) /\ AppendIsTrue(n) /\ VerdictIsTrue(n)
  BY <1>0, <1>4 DEF AppendOK, ReadOK, AppendIsTrue, VerdictIsTrue
<1>9. RequestOK(n, r) BY <1>5, <1>6, <1>7, <1>8 DEF RequestOK
<1>. QED BY <1>2, <1>3, <1>9, CalmKeeps DEF TakeTime

\* A transaction that the unique indexes undo.
LEMMA FailureKeeps ==
    ASSUME IInv, UNCHANGED <<backend, clock, identity, keys, log, txt, past>>, NEW r \in Requests,
           Ends(r, "failed"), req[r].kind # "append"
    PROVE  IInv'
<1>. DEFINE q == req[r]
            n == Ended(q, "failed")
<1>0. q \in Records /\ RequestOK(q, r) BY Here
<1>1. n.kind = q.kind BY <1>0, EndShape DEF Answers
<1>2. Becomes(r, n) BY DEF Ends, Ended
<1>. HIDE DEF n
<1>3. AppendIsTrue(n) BY <1>1 DEF AppendIsTrue
<1>4. n \in Records /\ RequestOK(n, r) BY <1>0, <1>3, EndOK DEF Answers, n
<1>. QED BY <1>2, <1>4, CalmKeeps

----------------------------------------------------------------------------
(* The verifier *)

\* The signed entries of the log have their key among the rows that a verifier got, alone.
LEMMA NamedIsSigner ==
    ASSUME IInv, ~past.renumbered, NEW ring \in [Kids -> KeyRows], RingOK(ring), NEW e \in log
    PROVE  Named(e, ring) \subseteq {e.key}
<1>1. e.key \in Rows /\ (e.id # 0 => keys[e.key].id = e.id) BY DEF IInv, SiteOK, NamesOK, Owns
<1>2. ASSUME NEW kid \in Named(e, ring), e.id # 0 PROVE kid = e.key
  <2>1. kid \in Rows /\ ring[kid].id = keys[kid].id /\ ring[kid].id = e.id
    BY <1>2 DEF Named, RingOK
  <2>2. keys[kid].id = keys[e.key].id /\ keys[kid].id # 0 BY <1>1, <1>2, <2>1
  <2>. QED BY <1>1, <2>1, <2>2 DEF IInv, SiteOK, RowsOK
<1>3. ASSUME NEW kid \in Named(e, ring), e.id = 0 PROVE kid = e.key BY <1>3 DEF Named
<1>. QED BY <1>2, <1>3

\* With the keys of the site, every entry finds its key.
LEMMA KeysAreFound ==
    ASSUME IInv, ~past.renumbered
    PROVE  Known(log, keys)
<1>1. ASSUME NEW e \in log PROVE Named(e, keys) # {}
  <2>1. e.key \in Rows /\ (e.id # 0 => keys[e.key].id = e.id) BY DEF IInv, SiteOK, NamesOK, Owns
  <2>2. e.key \in Named(e, keys) BY <2>1 DEF Named, Rows
  <2>. QED BY <2>2
<1>. QED BY <1>1 DEF Known

\* Nor is an entry outside the window of its key.
LEMMA WindowsHold ==
    ASSUME IInv, ~past.renumbered, ~past.setBack, ~past.overtaken, NEW ring \in [Kids -> KeyRows], RingOK(ring)
    PROVE  InWindows(log, ring)
<1>1. ASSUME NEW e \in log, NEW kid \in Named(e, ring) PROVE InWindow(e, ring[kid])
  <2>1. kid = e.key /\ ring[kid].state # "none" /\ kid \in Kids BY <1>1, NamedIsSigner DEF Named
  <2>2. ring[kid].from = keys[kid].from /\ (ring[kid].state = "retired" => keys[kid].state = "retired" /\ ring[kid].to = keys[kid].to)
    BY <2>1 DEF RingOK
  <2>3. keys[kid].from <= e.ts BY <2>1 DEF IInv, SiteOK, TimesOK
  <2>4. keys[kid].state = "retired" => e.ts <= keys[kid].to BY <2>1 DEF IInv, SiteOK, WindowsOK
  <2>. QED BY <2>2, <2>3, <2>4 DEF InWindow
<1>. QED BY <1>1 DEF InWindows

LEMMA OwnRing ==
    ASSUME IInv, Unnumbered = {}
    PROVE  RingOK(keys) /\ keys \in [Kids -> KeyRows]
  BY DEF RingOK, Rows, Unnumbered, IInv, TypeOK

LEMMA ListKeysKeeps == ASSUME IInv, backend' = backend, NEW r \in Requests, ListKeys(r) PROVE IInv'
<1>. DEFINE q == req[r]
            ring == IF q.pages = 0 THEN keys ELSE q.ring
            n == Rings(q, "page", ring)
<1>0. q \in Records /\ RequestOK(q, r) /\ q.at = "keys" /\ q.kind = "verify"
  BY Here DEF ListKeys, At, RequestOK, KindOK
<1>1. Rows # {} /\ Unnumbered = {} BY <1>0 DEF RequestOK, KeysOK
<1>2. ring \in [Kids -> KeyRows] BY <1>0, <1>1, OwnRing DEF Records
<1>3. RingOK(ring) /\ (~q.late => ring = keys)
  <2>1. CASE q.pages = 0 BY <1>1, <2>1, OwnRing
  <2>2. CASE q.pages # 0
    <3>1. RingOK(q.ring) /\ (~q.late => q.ring = keys) BY <1>0, <2>2 DEF RequestOK, ReadOK
    <3>. QED BY <2>2, <3>1, Zenon
  <2>. QED BY <2>1, <2>2
<1>4. Becomes(r, n) BY DEF ListKeys, Rings
<1>. HIDE DEF ring
<1>5. /\ n \in Records /\ n.at = "page" /\ n.ring = ring /\ n.seen = q.seen /\ n.next = q.next
      /\ n.txt = q.txt /\ n.late = q.late /\ SameWho(n, q) /\ SameAnswer(n, q)
  <2>1. "page" \in Steps BY DEF Steps
  <2>. QED BY <1>0, <1>2, <2>1, RingShape
<1>. HIDE DEF n
<1>6. n.kind = q.kind /\ n.since = q.since /\ n.answer = q.answer /\ n.reasons = q.reasons BY <1>5
   DEF SameWho, SameAnswer
<1>7. KindOK(n) BY <1>0, <1>5, <1>6 DEF KindOK
<1>8. KeysOK(n, r)
  <2>1. KeysOK(q, r) BY <1>0 DEF RequestOK
  <2>. QED BY <2>1, <1>0, <1>1, <1>5, <1>6 DEF KeysOK, Rotating
<1>9. ReadOK(n)
  <2>1. /\ q.since <= Cardinality(log) /\ q.seen = {e \in log : e.seq < q.next}
        /\ q.next \in 1..(Cardinality(log) + 1) /\ Published(q.txt.h)
    BY <1>0 DEF RequestOK, ReadOK
  <2>2. RingOK(n.ring) BY <1>3, <1>5
  <2>3. ~n.late => n.ring = keys BY <1>3, <1>5, Zenon
  <2>. QED BY <2>1, <2>2, <2>3, <1>5, <1>6 DEF ReadOK
<1>10. AppendOK(n) /\ SignsOK(n) /\ AppendIsTrue(n) BY <1>0, <1>5, <1>6 DEF AppendOK, SignsOK, AppendIsTrue
<1>11. VerdictIsTrue(n)
  <2>1. VerdictIsTrue(q) BY <1>0 DEF RequestOK
  <2>2. n.seen = q.seen BY <1>5
  <2>3. n.late = q.late BY <1>5, Zenon
  <2>. QED BY <2>1, <2>2, <2>3, <1>6, Zenon DEF VerdictIsTrue
<1>12. RequestOK(n, r) BY <1>7, <1>8, <1>9, <1>10, <1>11 DEF RequestOK
<1>. QED BY <1>4, <1>5, <1>12, CalmKeeps DEF ListKeys

\* A page has the first entries, so what is left begins after all of it.
LEMMA PageIsFirst ==
    ASSUME IInv, NEW next \in Nat, NEW f \in Page(next), NEW e \in From(next) \ Page(next)
    PROVE  f.seq < e.seq
<1>. DEFINE Before(x) == {y \in From(next) : y.seq < x.seq}
<1>1. From(next) \subseteq log /\ IsFiniteSet(log) BY DEF From, IInv, SiteOK, ChainOK
<1>2. f \in From(next) /\ Cardinality(Before(f)) < PageLimit BY DEF Page
<1>3. ~(Cardinality(Before(e)) < PageLimit) BY DEF Page
<1>4. \A x \in log : x.seq \in Nat BY DEF IInv, TypeOK, Entries
<1>5. IsFiniteSet(Before(f)) /\ IsFiniteSet(Before(e)) BY <1>1, FS_Subset
<1>6. ASSUME ~(f.seq < e.seq) PROVE FALSE
  <2>1. e.seq <= f.seq BY <1>1, <1>2, <1>4, <1>6
  <2>2. Before(e) \subseteq Before(f) BY <1>1, <1>2, <1>4, <2>1
  <2>3. Cardinality(Before(e)) <= Cardinality(Before(f)) BY <1>5, <2>2, FS_Subset
  <2>4. Cardinality(Before(e)) \in Nat /\ Cardinality(Before(f)) \in Nat BY <1>5, FS_CardinalityType
  <2>5. PageLimit \in Nat BY BoundsAssumption
  <2>. QED BY <1>2, <1>3, <2>3, <2>4, <2>5
<1>. QED BY <1>6

LEMMA ListEntriesKeeps == ASSUME IInv, backend' = backend, NEW r \in Requests, ListEntries(r) PROVE IInv'
<1>. DEFINE q == req[r]
            rest == From(q.next) \ Page(q.next)
            seen == q.seen \cup Page(q.next)
            why == Refusals(seen, q.ring, q.txt)
<1>0. /\ q \in Records /\ RequestOK(q, r) /\ q.at = "page" /\ q.kind = "verify" /\ Cardinality(log) \in Nat
      /\ q.next \in Nat /\ q.since \in Nat /\ q.ring \in [Kids -> KeyRows] /\ q.pages \in Nat
  BY Here DEF ListEntries, At, RequestOK, KindOK, Records
<1>1. /\ q.since <= Cardinality(log) /\ q.seen = {e \in log : e.seq < q.next}
      /\ q.next \in 1..(Cardinality(log) + 1) /\ Published(q.txt.h) /\ RingOK(q.ring)
  BY <1>0 DEF RequestOK, ReadOK
<1>2. ~q.late => q.ring = keys BY <1>0 DEF RequestOK, ReadOK
<1>3. log \subseteq Entries /\ \A e \in log : e.seq \in Nat /\ e.seq \in 1..Cardinality(log)
  BY DEF IInv, SiteOK, ChainOK, TypeOK, Entries
<1>4. Page(q.next) \subseteq From(q.next) /\ From(q.next) \subseteq log BY DEF Page, From
<1>5. ASSUME rest = {} PROVE IInv'
  <2>1. seen = log BY <1>0, <1>1, <1>3, <1>4, <1>5 DEF From
  <2>. DEFINE a == IF why = {} THEN "verified" ELSE "refused"
              n == Verdict(seen, q.since, q.late, a, why)
  <2>2. Becomes(r, n) BY <1>5 DEF ListEntries, Verdict
  <2>3. why \in Whys BY DEF Refusals, Whys
  <2>4. a \in Verdicts BY DEF Verdicts
  <2>5. why = Refusals(log, q.ring, q.txt) BY <2>1
  <2>6. q.late \in BOOLEAN BY <1>0 DEF Records
  <2>. HIDE DEF a, why
  <2>7. /\ n \in Records /\ n.at = "done" /\ n.kind = "verify" /\ n.seen = seen /\ n.since = q.since
        /\ n.answer = a /\ n.reasons = why /\ n.pages = 0 /\ n.late = q.late
    <3>1. seen \in SUBSET Entries BY <1>3, <2>1
    <3>2. n = Verdict(seen, q.since, q.late, a, why) OBVIOUS
    <3>3. q.since \in Nat BY <1>0
    <3>. HIDE DEF seen, n, q
    <3>4. n \in Records BY <2>3, <2>4, <2>6, <3>1, <3>2, <3>3, VerdictShape
    <3>5. n.at = "done" /\ n.kind = "verify" BY <2>3, <2>4, <2>6, <3>1, <3>2, <3>3, VerdictShape
    <3>6. n.seen = seen BY <2>3, <2>4, <2>6, <3>1, <3>2, <3>3, VerdictShape
    <3>7. n.since = q.since BY <2>3, <2>4, <2>6, <3>1, <3>2, <3>3, VerdictShape
    <3>8. n.answer = a BY <2>3, <2>4, <2>6, <3>1, <3>2, <3>3, VerdictShape
    <3>9. n.reasons = why /\ n.pages = 0 BY <2>3, <2>4, <2>6, <3>1, <3>2, <3>3, VerdictShape
    <3>10. n.late = q.late BY <3>2, Zenon DEF Verdict, New
    <3>. QED BY <3>4, <3>5, <3>6, <3>7, <3>8, <3>9, <3>10, Zenon
  <2>. HIDE DEF n
  <2>8. VerdictIsTrue(n)
    <3>1. \A e \in log : e.seq <= n.since => e \in n.seen BY <2>1, <2>7
    <3>2. Linked(log) BY DEF IInv, SiteOK, ChainOK
    <3>3. Anchored(log, q.txt.h) BY <1>1 DEF Anchored, Published
    <3>4. why \cap {"chain", "head"} = {} BY <2>5, <3>2, <3>3 DEF Refusals
    <3>5. ASSUME ~q.late, ~past.renumbered PROVE why \cap {"unknown_key", "bad_signature"} = {}
      <4>1. Known(log, q.ring) BY <1>2, <3>5, KeysAreFound
      <4>2. Signed(log, q.ring) BY <1>0, <1>1, <3>5, NamedIsSigner DEF Signed
      <4>. QED BY <2>5, <4>1, <4>2 DEF Refusals
    <3>6. ASSUME ~past.setBack, ~past.overtaken, ~past.renumbered PROVE "window" \notin why
      <4>1. InWindows(log, q.ring) BY <1>0, <1>1, <3>6, WindowsHold
      <4>. QED BY <2>5, <4>1 DEF Refusals
    <3>7. why \cap {"unknown_key", "bad_signature"} # {} => n.late \/ past.renumbered
      BY <2>7, <3>5, Zenon
    <3>8. "window" \in why => past.setBack \/ past.overtaken \/ past.renumbered BY <3>6, Zenon
    <3>9. n.reasons = why BY <2>7
    <3>. QED BY <3>1, <3>4, <3>7, <3>8, <3>9, Zenon DEF VerdictIsTrue
  <2>9. KindOK(n) /\ KeysOK(n, r) /\ AppendOK(n) /\ SignsOK(n) /\ AppendIsTrue(n)
    BY <2>7 DEF KindOK, KeysOK, Rotating, AppendOK, SignsOK, AppendIsTrue
  <2>10. ReadOK(n) BY <1>1, <2>7 DEF ReadOK
  <2>11. RequestOK(n, r) BY <2>8, <2>9, <2>10 DEF RequestOK
  <2>. QED BY <2>2, <2>7, <2>11, CalmKeeps DEF ListEntries
<1>6. ASSUME rest # {}, q.pages + 1 = MaxPages PROVE IInv'
  <2>. DEFINE n == Ended(q, "incomplete")
  <2>1. n.kind = q.kind BY <1>0, EndShape DEF Answers
  <2>2. Becomes(r, n) BY <1>6 DEF ListEntries, Ends, Ended
  <2>. HIDE DEF n
  <2>3. AppendIsTrue(n) BY <1>0, <2>1 DEF AppendIsTrue
  <2>4. n \in Records /\ RequestOK(n, r) BY <1>0, <2>3, EndOK DEF Answers, n
  <2>. QED BY <2>2, <2>4, CalmKeeps DEF ListEntries
<1>7. ASSUME rest # {}, q.pages + 1 # MaxPages PROVE IInv'
  <2>1. PICK e \in rest : /\ \A f \in rest : e.seq <= f.seq
                          /\ Becomes(r, [q EXCEPT !.at = "ensure", !.next = e.seq, !.seen = seen, !.pages = @ + 1])
    BY <1>7 DEF ListEntries
  <2>. DEFINE n == Pages(q, "ensure", e.seq, seen)
  <2>2. Becomes(r, n) BY <2>1 DEF Pages
  <2>3. seen \in SUBSET Entries /\ e \in log /\ e.seq \in Nat BY <1>1, <1>3, <1>4
  <2>4. /\ n \in Records /\ n.at = "ensure" /\ n.ring = q.ring /\ n.seen = seen /\ n.next = e.seq
        /\ n.pages = q.pages + 1 /\ n.txt = q.txt /\ n.late = q.late /\ SameWho(n, q) /\ SameAnswer(n, q)
    <3>1. "ensure" \in Steps BY DEF Steps
    <3>. QED BY <1>0, <2>3, <3>1, PageShape
  <2>5. seen = {f \in log : f.seq < e.seq}
    <3>1. ASSUME NEW f \in seen PROVE f \in log /\ f.seq < e.seq
      <4>1. CASE f \in q.seen BY <1>0, <1>1, <1>3, <2>3, <4>1 DEF From
      <4>2. CASE f \in Page(q.next) BY <1>0, <1>4, <4>2, PageIsFirst
      <4>. QED BY <4>1, <4>2
    <3>2. ASSUME NEW f \in log, f.seq < e.seq PROVE f \in seen
      <4>1. f \notin rest BY <1>3, <2>1, <2>3, <3>2
      <4>2. f.seq < q.next \/ f \in From(q.next) BY <1>0, <1>3 DEF From
      <4>. QED BY <1>1, <4>1, <4>2
    <3>. QED BY <3>1, <3>2
  <2>6. n.kind = q.kind /\ n.since = q.since /\ n.answer = q.answer /\ n.reasons = q.reasons
    BY <2>4 DEF SameWho, SameAnswer
  <2>. HIDE DEF n, seen
  <2>7. KindOK(n) BY <1>0, <2>4, <2>6 DEF KindOK
  <2>8. KeysOK(n, r)
    <3>1. KeysOK(q, r) BY <1>0 DEF RequestOK
    <3>. QED BY <3>1, <1>0, <2>4, <2>6 DEF KeysOK, Rotating
  <2>9. ReadOK(n)
    <3>1. RingOK(n.ring) BY <1>1, <2>4
    <3>2. ~n.late => n.ring = keys BY <1>2, <2>4, Zenon
    <3>3. n.next \in 1..(Cardinality(log) + 1) BY <1>0, <1>3, <2>3, <2>4
    <3>. QED BY <1>0, <1>1, <2>4, <2>5, <2>6, <3>1, <3>2, <3>3 DEF ReadOK
  <2>10. AppendOK(n) /\ SignsOK(n) /\ AppendIsTrue(n) BY <1>0, <2>4, <2>6 DEF AppendOK, SignsOK, AppendIsTrue
  <2>11. VerdictIsTrue(n)
    <3>1. VerdictIsTrue(q) BY <1>0 DEF RequestOK
    <3>2. \A f \in q.seen : f \in n.seen BY <2>4 DEF seen
    <3>3. n.late = q.late BY <2>4, Zenon
    <3>. QED BY <2>6, <3>1, <3>2, <3>3, Zenon DEF VerdictIsTrue
  <2>12. RequestOK(n, r) BY <2>7, <2>8, <2>9, <2>10, <2>11 DEF RequestOK
  <2>. QED BY <2>2, <2>4, <2>12, CalmKeeps DEF ListEntries
<1>. QED BY <1>5, <1>6, <1>7

----------------------------------------------------------------------------
(* Steps that change the site *)

LEMMA SiteKeeps ==
    ASSUME IInv, TypeOK', SiteOK', Drift, NEW r \in Requests, RequestOK(req[r], r)',
           \A x \in Requests \ {r} :
              /\ Alike(x)
              /\ req[x].at # "done" => keys'[x] = keys[x] /\ (identity' = identity \/ identity' # x)
              /\ keys' # keys /\ Rows # {} /\ req[x].kind = "verify" /\ req[x].at # "done" => req'[x].late
    PROVE  IInv'
<1>1. ASSUME NEW x \in Requests \ {r} PROVE RequestOK(req[x], x)' BY RequestDrifts
<1>. QED BY <1>1 DEF IInv

LEMMA OthersAreAlike ==
    ASSUME IInv, NEW r \in Requests, NEW n, Becomes(r, n), NEW x \in Requests \ {r}
    PROVE  Alike(x) /\ req'[x] = req[x]
<1>1. req'[x] = req[x] BY DEF IInv, TypeOK, Becomes
<1>. QED BY <1>1, Zenon DEF Alike, SameWho, SameSigns, SameAnswer

LEMMA OthersAreLate ==
    ASSUME IInv, NEW r \in Requests, NEW n \in Records, ChangesKeys(r, n)
    PROVE  /\ req' \in [Requests -> Records] /\ req'[r] = n
           /\ \A x \in Requests \ {r} : Alike(x) /\ (req[x].kind = "verify" /\ req[x].at # "done" => req'[x].late)
<1>1. req'[r] = n BY DEF ChangesKeys
<1>2. ASSUME NEW x \in Requests, x # r
      PROVE  /\ req'[x] \in Records /\ Alike(x)
             /\ req[x].kind = "verify" /\ req[x].at # "done" => req'[x].late
  <2>. DEFINE m == req[x].late \/ (req[x].kind = "verify" /\ req[x].at # "done")
  <2>1. req[x] \in Records BY DEF IInv, TypeOK
  <2>2. req'[x] = [req[x] EXCEPT !.late = m] BY <1>2 DEF ChangesKeys
  <2>3. m \in BOOLEAN OBVIOUS
  <2>4. req'[x].late = m BY <2>1, <2>2, Zenon DEF Records
  <2>. HIDE DEF m
  <2>5. req'[x] \in Records BY <2>1, <2>2, <2>3 DEF Records
  <2>6. req'[x].at = req[x].at /\ SameWho(req'[x], req[x]) BY <2>1, <2>2 DEF Records, SameWho
  <2>7. SameSigns(req'[x], req[x]) /\ SameAnswer(req'[x], req[x]) BY <2>1, <2>2
     DEF Records, SameSigns, SameAnswer
  <2>8. /\ req'[x].next = req[x].next /\ req'[x].ring = req[x].ring /\ req'[x].seen = req[x].seen
        /\ req'[x].pages = req[x].pages /\ req'[x].txt = req[x].txt
    BY <2>1, <2>2 DEF Records
  <2>9. (req[x].late => req'[x].late) /\ (req[x].kind = "verify" /\ req[x].at # "done" => req'[x].late)
    BY <2>4, Zenon DEF m
  <2>. QED BY <2>5, <2>6, <2>7, <2>8, <2>9, Zenon DEF Alike
<1>3. req' \in [Requests -> Records] BY <1>1, <1>2 DEF ChangesKeys
<1>. QED BY <1>1, <1>2, <1>3

\* A request that has just ended, other than a verifier.
LEMMA DoneOK ==
    ASSUME NEW r \in Requests, req'[r].at = "done", req'[r].pages = 0, req'[r].kind # "verify",
           req'[r].kind = "append" => req'[r].att \in Atts, AppendIsTrue(req[r])'
    PROVE  RequestOK(req[r], r)'
  BY DEF RequestOK, KindOK, KeysOK, Rotating, AppendOK, SignsOK, ReadOK, VerdictIsTrue

LEMMA CopyIdentityKeeps == ASSUME IInv, backend' = backend, NEW r \in Requests, CopyIdentity(r) PROVE IInv'
<1>. DEFINE q == req[r]
            n == [q EXCEPT !.at = "pending"]
<1>0. q \in Records /\ RequestOK(q, r) /\ q.at = "copy" /\ RowsOK /\ Cardinality(log) \in Nat
  BY Here DEF CopyIdentity, At, SiteOK
<1>1. /\ n \in Records /\ n.at = "pending" /\ SameWho(n, q) /\ SameSigns(n, q) /\ SameReads(n, q)
      /\ SameAnswer(n, q)
  BY <1>0, GoShape DEF Steps
<1>2. Becomes(r, n) BY DEF CopyIdentity, Goes
<1>. HIDE DEF n
<1>3. ASSUME Ignored(q.key) PROVE IInv'
  <2>1. Rows # {} BY <1>3 DEF Ignored, ActiveKeys, Rows, Taken
  <2>2. keys' = keys BY <1>3 DEF CopyIdentity
  <2>3. RequestOK(n, r) BY <1>0, <1>1, <2>1, EnsureOK
  <2>. QED BY <1>1, <1>2, <2>2, <2>3, CalmKeeps DEF CopyIdentity
<1>4. ASSUME ~Ignored(q.key) PROVE IInv'
  <2>1. Rows = {} BY <1>0, <1>4 DEF Ignored, RowsOK
  <2>2. identity = First /\ q.key = First /\ log = {} /\ First \in Kids /\ First \notin Requests /\ First # None
    BY <1>0, <2>1, NamesAssumption DEF RowsOK, RequestOK, KeysOK, Kids
  <2>3. keys' = [keys EXCEPT ![First] = [state |-> "active", from |-> 0, to |-> 0, id |-> 1]]
    BY <1>4, <2>2 DEF CopyIdentity
  <2>4. keys \in [Kids -> KeyRows] /\ \A kid \in Kids : keys[kid] = NoKey
    BY <1>0, <2>1 DEF IInv, TypeOK, RowsOK
  <2>5. /\ keys' \in [Kids -> KeyRows] /\ keys'[First].state = "active" /\ keys'[First].from = 0
        /\ keys'[First].id = 1 /\ \A kid \in Kids \ {First} : keys'[kid] = NoKey
    BY <2>2, <2>3, <2>4 DEF KeyRows
  <2>6. Rows' = {First} /\ ActiveKeys' = {First} /\ Unnumbered' = {}
    BY <2>2, <2>5 DEF Rows, ActiveKeys, Unnumbered, NoKey
  <2>7. TypeOK' BY <1>1, <1>2, <2>5 DEF IInv, TypeOK, Becomes, CopyIdentity
  <2>8. SiteOK'
    <3>1. RowsOK' BY <2>2, <2>5, <2>6 DEF RowsOK, CopyIdentity
    <3>2. ChainOK' BY DEF IInv, SiteOK, ChainOK, Linked, Starts, Follows, HashOf, CopyIdentity
    <3>3. clock \in Nat BY DEF IInv, TypeOK
    <3>4. NamesOK' /\ TimesOK' /\ WindowsOK'
      BY <2>2, <2>4, <2>5, <3>3 DEF NamesOK, TimesOK, WindowsOK, CopyIdentity, NoKey
    <3>5. Published(txt.h)' BY DEF IInv, SiteOK, Published, HashOf, CopyIdentity
    <3>. QED BY <3>1, <3>2, <3>4, <3>5 DEF SiteOK
  <2>9. Drift
    <3>1. KeysDrift BY <2>1, <2>2, <2>6 DEF KeysDrift, CopyIdentity
    <3>2. LogDrift BY <1>0 DEF LogDrift, CopyIdentity
    <3>3. clock \in Nat BY DEF IInv, TypeOK
    <3>. QED BY <3>1, <3>2, <3>3 DEF Drift, CopyIdentity
  <2>10. RequestOK(req[r], r)'
    <3>1. req'[r] = n BY <1>2 DEF IInv, TypeOK, Becomes
    <3>2. n.kind = q.kind /\ n.att = q.att /\ n.since = q.since /\ n.tries = q.tries /\ n.pages = q.pages
          /\ n.answer = q.answer /\ n.seen = q.seen /\ n.next = q.next /\ n.txt = q.txt /\ n.reasons = q.reasons
      BY <1>1 DEF SameWho, SameReads, SameAnswer
    <3>3. q.pages = 0 BY <1>0, <2>1 DEF RequestOK, KeysOK
    <3>4. KindOK(req[r])' BY <1>0, <1>1, <3>1, <3>2 DEF RequestOK, KindOK
    <3>5. KeysOK(req[r], r)'
      <4>1. r \in Kids /\ r # First BY <2>2 DEF Kids
      <4>2. keys'[r] = NoKey /\ identity' # r BY <2>2, <2>5, <4>1 DEF CopyIdentity
      <4>. QED BY <1>1, <2>2, <2>6, <3>1, <3>2, <3>3, <4>2 DEF KeysOK, Rotating, CopyIdentity
    <3>6. AppendOK(req[r])' BY <1>0, <1>1, <3>1, <3>2 DEF RequestOK, AppendOK, CopyIdentity
    <3>7. SignsOK(req[r])' BY <1>1, <3>1 DEF SignsOK
    <3>8. ReadOK(req[r])'
      BY <1>0, <1>1, <3>1, <3>2, <3>3 DEF RequestOK, ReadOK, Published, HashOf, CopyIdentity
    <3>9. AppendIsTrue(req[r])' BY <1>0, <3>1, <3>2 DEF RequestOK, AppendIsTrue, CopyIdentity
    <3>10. VerdictIsTrue(req[r])'
      <4>1. VerdictIsTrue(q) BY <1>0 DEF RequestOK
      <4>2. n.late = q.late BY <1>1, Zenon DEF SameReads
      <4>3. log' = log /\ past' = past BY DEF CopyIdentity
      <4>. QED BY <3>1, <3>2, <4>1, <4>2, <4>3, Zenon DEF VerdictIsTrue
    <3>. QED BY <3>4, <3>5, <3>6, <3>7, <3>8, <3>9, <3>10 DEF RequestOK
  <2>11. ASSUME NEW x \in Requests \ {r}
         PROVE  Alike(x) /\ keys'[x] = keys[x] /\ identity' = identity
    <3>1. Alike(x) BY <1>2, OthersAreAlike
    <3>2. x \in Kids \ {First} BY <2>2 DEF Kids
    <3>. QED BY <3>1, <3>2, <2>4, <2>5 DEF CopyIdentity
  <2>. QED BY <2>1, <2>7, <2>8, <2>9, <2>10, <2>11, SiteKeeps
<1>. QED BY <1>3, <1>4


LEMMA BackfillKeeps == ASSUME IInv, backend' = backend, NEW r \in Requests, Backfill(r) PROVE IInv'
<1>. DEFINE q == req[r]
            i == q.n
            n == [q EXCEPT !.at = Ensured(r)]
            taken == \/ \E kid \in Rows \ {First} : keys[kid].id = i + 1
                     \/ \E kid \in Rows \ {First, Second} : keys[kid].id = i + 2
            numbered == [keys EXCEPT ![First].id = i + 1, ![Second].id = i + 2]
<1>0. /\ q \in Records /\ RequestOK(q, r) /\ q.at = "backfill" /\ RowsOK /\ Cardinality(log) \in Nat
      /\ i \in Nat /\ keys \in [Kids -> KeyRows]
  BY Here DEF Backfill, At, SiteOK, Records, TypeOK
<1>1. {First, Second} \subseteq Rows /\ q.pages = 0 /\ First # Second /\ {First, Second} \subseteq Kids
  BY <1>0, NamesAssumption DEF RequestOK, KeysOK, Kids
<1>2. q.kind \in {"append", "rotate", "verify"} BY <1>0 DEF RequestOK, KindOK
<1>3. Ensured(r) = CASE q.kind = "append" -> "key" [] q.kind = "rotate" -> "last" [] OTHER -> "keys"
  BY DEF Ensured
<1>4. Ensured(r) \in {"key", "last", "keys"} BY <1>2, <1>3
<1>5. /\ n \in Records /\ n.at = Ensured(r) /\ SameWho(n, q) /\ SameSigns(n, q) /\ SameReads(n, q)
      /\ SameAnswer(n, q)
  <2>1. Ensured(r) \in Steps BY <1>4 DEF Steps
  <2>. QED BY <1>0, <2>1, GoShape
<1>6. Unnumbered # {} => \A kid \in Rows : keys[kid].id = 0 BY <1>0 DEF RowsOK, Unnumbered
<1>7. ASSUME taken PROVE IInv'
  <2>1. Unnumbered = {} BY <1>0, <1>6, <1>7
  <2>2. RequestOK(n, r) BY <1>0, <2>1, EnsuredOK
  <2>3. Becomes(r, n) BY <1>7 DEF Backfill, Goes
  <2>4. keys' = keys /\ past' = past BY <1>7 DEF Backfill
  <2>. QED BY <1>5, <2>2, <2>3, <2>4, CalmKeeps DEF Backfill
<1>8. ASSUME ~taken PROVE IInv'
  <2>1. keys' = numbered /\ past' = [past EXCEPT !.renumbered = @ \/ (Unnumbered = {} /\ numbered # keys)]
        /\ ChangesKeys(r, n)
    BY <1>8 DEF Backfill
  <2>2. UNCHANGED <<clock, identity, log, txt>> BY DEF Backfill
  <2>. HIDE DEF n
  <2>3. keys' \in [Kids -> KeyRows] BY <1>0, <1>1, <2>1 DEF KeyRows
  <2>4. \A kid \in Kids : /\ keys'[kid].state = keys[kid].state /\ keys'[kid].from = keys[kid].from
                          /\ keys'[kid].to = keys[kid].to
    BY <1>0, <1>1, <2>1 DEF KeyRows
  <2>5. /\ keys'[First].id = i + 1 /\ keys'[Second].id = i + 2
        /\ \A kid \in Kids \ {First, Second} : keys'[kid] = keys[kid]
    BY <1>0, <1>1, <2>1 DEF KeyRows
  <2>6. Rows' = Rows /\ ActiveKeys' = ActiveKeys BY <2>4 DEF Rows, ActiveKeys
  <2>7. Rows \subseteq Kids BY DEF Rows
  <2>8. Unnumbered' = {}
    <3>1. ASSUME NEW kid \in Rows PROVE keys'[kid].id # 0
      <4>1. CASE kid \in {First, Second} BY <1>0, <2>5, <4>1
      <4>2. CASE kid \notin {First, Second}
        <5>1. Unnumbered = {} BY <1>0, <4>2 DEF RowsOK
        <5>. QED BY <2>5, <2>7, <4>2, <5>1 DEF Unnumbered
      <4>. QED BY <4>1, <4>2
    <3>. QED BY <2>6, <3>1 DEF Unnumbered
  <2>9. /\ past' \in [setBack : BOOLEAN, overtaken : BOOLEAN, renumbered : BOOLEAN]
        /\ past'.setBack = past.setBack /\ past'.overtaken = past.overtaken
    BY <2>1, Zenon DEF IInv, TypeOK
  <2>10. past.renumbered => past'.renumbered BY <2>1, Zenon DEF IInv, TypeOK
  <2>11. Unnumbered = {} /\ numbered # keys => past'.renumbered BY <2>1, Zenon DEF IInv, TypeOK
  <2>12. ASSUME NEW kid \in Rows, keys[kid].id # 0, ~past'.renumbered PROVE keys'[kid].id = keys[kid].id
    <3>1. Unnumbered = {} BY <1>6, <2>12
    <3>2. numbered = keys BY <2>11, <2>12, <3>1
    <3>. QED BY <2>1, <3>2
  <2>13. /\ req' \in [Requests -> Records] /\ req'[r] = n
         /\ \A x \in Requests \ {r} : Alike(x) /\ (req[x].kind = "verify" /\ req[x].at # "done" => req'[x].late)
    BY <1>5, <2>1, OthersAreLate
  <2>14. TypeOK' BY <2>2, <2>3, <2>9, <2>13 DEF IInv, TypeOK
  <2>15. SiteOK'
    <3>1. RowsOK'
      <4>1. ASSUME NEW k \in Rows, NEW l \in Rows, keys'[k].id = keys'[l].id PROVE k = l
        <5>1. \A kid \in Rows \ {First} : keys[kid].id # i + 1 BY <1>8
        <5>2. \A kid \in Rows \ {First, Second} : keys[kid].id # i + 2 BY <1>8
        <5>3. CASE k \in {First, Second} \/ l \in {First, Second} BY <1>0, <1>1, <2>5, <2>7, <4>1, <5>1, <5>2, <5>3
        <5>4. CASE k \notin {First, Second} /\ l \notin {First, Second}
          <6>1. keys[k].id = keys[l].id BY <2>5, <2>7, <4>1, <5>4
          <6>2. Unnumbered = {} BY <1>0, <5>4 DEF RowsOK
          <6>3. keys[k].id # 0 BY <6>2 DEF Unnumbered
          <6>. QED BY <1>0, <6>1, <6>3 DEF RowsOK
        <5>. QED BY <5>3, <5>4
      <4>2. \A kid \in Kids \ Rows : keys'[kid] = NoKey BY <1>0, <1>1, <2>5 DEF RowsOK
      <4>. QED BY <1>0, <1>1, <2>2, <2>6, <2>8, <4>1, <4>2 DEF RowsOK
    <3>2. ChainOK' BY <2>2 DEF IInv, SiteOK, ChainOK, Linked, Starts, Follows, HashOf
    <3>3. NamesOK'
      <4>1. ASSUME NEW e \in log
            PROVE  e.key \in Rows' /\ (e.id # 0 /\ ~past'.renumbered => keys'[e.key].id = e.id)
        <5>1. e.key \in Rows /\ (e.id # 0 /\ ~past.renumbered => keys[e.key].id = e.id)
          BY Zenon DEF IInv, SiteOK, NamesOK, Owns
        <5>2. ASSUME e.id # 0, ~past'.renumbered PROVE keys'[e.key].id = e.id
          <6>1. ~past.renumbered BY <2>10, <5>2
          <6>2. keys[e.key].id = e.id BY <5>1, <5>2, <6>1
          <6>. QED BY <2>12, <5>1, <5>2, <6>2
        <5>. QED BY <2>6, <5>1, <5>2
      <4>. QED BY <2>2, <4>1 DEF NamesOK, Owns
    <3>4. \A e \in log : e.key \in Kids BY DEF IInv, TypeOK, Entries
    <3>5. TimesOK' BY <2>2, <2>4, <2>9, <3>4 DEF IInv, SiteOK, TimesOK
    <3>6. WindowsOK'
      <4>1. ASSUME ~past'.setBack, ~past'.overtaken PROVE \A e \in log : keys'[e.key].state = "retired" => e.ts <= keys'[e.key].to
        <5>1. ~past.setBack /\ ~past.overtaken BY <2>9, <4>1
        <5>. QED BY <2>4, <3>4, <5>1 DEF IInv, SiteOK, WindowsOK
      <4>. QED BY <2>2, <4>1 DEF WindowsOK
    <3>7. Published(txt.h)' BY <2>2 DEF IInv, SiteOK, Published, HashOf
    <3>. QED BY <3>1, <3>2, <3>3, <3>5, <3>6, <3>7 DEF SiteOK
  <2>16. Drift
    <3>1. \A kid \in Rows : keys[kid].id # 0 => keys'[kid].id # 0 BY <1>0, <2>5, <2>7
    <3>2. KeysDrift
      <4>1. \A kid \in Rows : keys[kid].id # 0 => keys'[kid].id # 0 /\ (~past'.renumbered => keys'[kid].id = keys[kid].id)
        BY <2>12, <3>1
      <4>. QED BY <1>1, <2>2, <2>4, <2>6, <2>7, <2>8, <4>1 DEF KeysDrift
    <3>3. LogDrift BY <1>0, <2>2 DEF LogDrift
    <3>4. clock <= clock' BY <2>2 DEF IInv, TypeOK
    <3>. QED BY <2>9, <2>10, <3>2, <3>3, <3>4, Zenon DEF Drift
  <2>17. RequestOK(req[r], r)'
    <3>2. n.kind = q.kind /\ n.att = q.att /\ n.since = q.since /\ n.tries = q.tries /\ n.pages = q.pages
          /\ n.answer = q.answer /\ n.seen = q.seen /\ n.next = q.next /\ n.txt = q.txt /\ n.reasons = q.reasons
      BY <1>5 DEF SameWho, SameReads, SameAnswer
    <3>4. KindOK(req[r])' BY <1>0, <1>2, <1>3, <1>5, <2>13, <3>2 DEF RequestOK, KindOK
    <3>5. KeysOK(req[r], r)'
      <4>1. r \in Kids \ {First, Second} BY NamesAssumption DEF Kids
      <4>2. keys[r] = NoKey /\ identity # r /\ identity # None BY <1>0, <1>2 DEF RequestOK, KeysOK
      <4>3. keys'[r] = NoKey BY <2>5, <4>1, <4>2
      <4>4. Rows' # {} BY <1>1, <2>6
      <4>. QED BY <1>1, <1>4, <1>5, <2>2, <2>8, <2>13, <3>2, <4>2, <4>3, <4>4 DEF KeysOK, Rotating
    <3>6. AppendOK(req[r])' BY <1>0, <1>4, <1>5, <2>2, <2>13, <3>2 DEF RequestOK, AppendOK
    <3>7. SignsOK(req[r])' BY <1>4, <1>5, <2>13 DEF SignsOK
    <3>8. ReadOK(req[r])'
      BY <1>0, <1>1, <1>4, <1>5, <2>2, <2>13, <3>2 DEF RequestOK, ReadOK, Published, HashOf
    <3>9. AppendIsTrue(req[r])' BY <1>0, <2>2, <2>13, <3>2 DEF RequestOK, AppendIsTrue
    <3>10. VerdictIsTrue(req[r])'
      <4>1. VerdictIsTrue(q) BY <1>0 DEF RequestOK
      <4>2. n.late = q.late BY <1>5, Zenon DEF SameReads
      <4>3. log' = log BY <2>2
      <4>. QED BY <2>9, <2>10, <2>13, <3>2, <4>1, <4>2, <4>3, Zenon DEF VerdictIsTrue
    <3>. QED BY <3>4, <3>5, <3>6, <3>7, <3>8, <3>9, <3>10 DEF RequestOK
  <2>18. ASSUME NEW x \in Requests \ {r} PROVE keys'[x] = keys[x]
    <3>1. x \in Kids \ {First, Second} BY NamesAssumption DEF Kids
    <3>. QED BY <2>5, <3>1
  <2>. QED BY <2>2, <2>13, <2>14, <2>15, <2>16, <2>17, <2>18, SiteKeeps
<1>. QED BY <1>7, <1>8


\* The INSERT of an append that meets no other entry.
LEMMA LoggedKeeps ==
    ASSUME IInv, backend' = backend, NEW r \in Requests, InsertEntry(r),
           \A e \in log : e.seq # req[r].entry.seq /\ e.att # req[r].entry.att
    PROVE  IInv'
<1>. DEFINE q == req[r]
            new == q.entry
            n == Ended(q, "logged")
<1>0. /\ q \in Records /\ RequestOK(q, r) /\ q.at = "insert" /\ q.kind = "append" /\ q.att \in Atts
      /\ Cardinality(log) \in Nat /\ clock \in Nat
  BY Here DEF InsertEntry, At, RequestOK, KindOK, TypeOK
<1>1. /\ new \in Entries /\ new.att = q.att /\ new.key = q.key /\ new.id = q.n
      /\ Starts(new) \/ \E e \in log : Follows(new, e)
  BY <1>0 DEF RequestOK, AppendOK, EntryOK
<1>2. /\ q.n # 0 /\ Owns(q.key, q.n)
      /\ ~past.setBack => new.ts <= clock /\ keys[q.key].from <= new.ts
  BY <1>0 DEF RequestOK, SignsOK
<1>3. Rows # {} /\ Unnumbered = {} BY <1>0 DEF RequestOK, KeysOK
<1>4. /\ log' = log \cup {new} /\ past' = [past EXCEPT !.overtaken = @ \/ keys[new.key].state # "active"]
      /\ Becomes(r, n)
  BY DEF InsertEntry, Ends, Ended
<1>5. UNCHANGED <<clock, identity, keys, txt>> BY DEF InsertEntry
<1>6. /\ n \in Records /\ n.at = "done" /\ n.kind = "append" /\ n.att = q.att /\ n.answer = "logged" /\ n.pages = 0
  BY <1>0, EndShape DEF Answers
<1>. HIDE DEF n
<1>7. /\ past' \in [setBack : BOOLEAN, overtaken : BOOLEAN, renumbered : BOOLEAN]
      /\ past'.setBack = past.setBack /\ past'.renumbered = past.renumbered
  BY <1>4, Zenon DEF IInv, TypeOK
<1>8. (past.overtaken => past'.overtaken) /\ (keys[new.key].state # "active" => past'.overtaken)
  BY <1>4, Zenon DEF IInv, TypeOK
<1>9. /\ IsFiniteSet(log) /\ {e.seq : e \in log} = 1..Cardinality(log) /\ Linked(log)
      /\ \A e, f \in log : e.att = f.att => e = f
      /\ log \subseteq Entries
  BY DEF IInv, SiteOK, ChainOK, TypeOK
<1>10. new \notin log OBVIOUS
<1>11. IsFiniteSet(log') /\ Cardinality(log') = Cardinality(log) + 1 BY <1>4, <1>9, <1>10, FS_AddElement
<1>12. new.seq = Cardinality(log) + 1
  <2>1. new.seq \notin 1..Cardinality(log) BY <1>9
  <2>2. CASE Starts(new)
    <3>1. new.seq = 1 BY <2>2 DEF Starts
    <3>. QED BY <1>0, <2>1, <3>1
  <2>3. ASSUME NEW e \in log, Follows(new, e) PROVE new.seq = Cardinality(log) + 1
    <3>1. new.seq = e.seq + 1 /\ e.seq \in 1..Cardinality(log) BY <1>9, <2>3 DEF Follows
    <3>. QED BY <1>0, <2>1, <3>1
  <2>. QED BY <1>1, <2>2, <2>3
<1>13. TypeOK' BY <1>1, <1>4, <1>5, <1>6, <1>7, <1>9 DEF IInv, TypeOK, Becomes
<1>14. SiteOK'
  <2>1. RowsOK' BY <1>3, <1>5 DEF IInv, SiteOK, RowsOK, Rows, ActiveKeys, Unnumbered
  <2>2. ChainOK'
    <3>1. {e.seq : e \in log'} = 1..Cardinality(log')
      <4>1. {e.seq : e \in log'} = {e.seq : e \in log} \cup {new.seq} BY <1>4
      <4>2. 1..(Cardinality(log) + 1) = (1..Cardinality(log)) \cup {Cardinality(log) + 1} BY <1>0
      <4>. QED BY <1>9, <1>11, <1>12, <4>1, <4>2
    <3>2. ASSUME NEW e \in log' PROVE Starts(e) \/ \E f \in log' : Follows(e, f)
      BY <1>1, <1>4, <1>9 DEF Linked
    <3>3. ASSUME NEW e \in log', NEW f \in log', e.seq = f.seq PROVE e = f
      BY <1>4, <1>9, <3>3 DEF Linked
    <3>4. ASSUME NEW e \in log', NEW f \in log', e.att = f.att PROVE e = f
      BY <1>4, <1>9, <3>4
    <3>5. Linked(log')
      <4>. HIDE DEF new
      <4>. QED BY <3>2, <3>3 DEF Linked
    <3>6. Linked(log)' BY <3>5 DEF Linked, Starts, Follows, HashOf
    <3>. QED BY <1>11, <3>1, <3>4, <3>6 DEF ChainOK
  <2>3. NamesOK'
    <3>1. \A e \in log : Owns(e.key, e.id) BY DEF IInv, SiteOK, NamesOK
    <3>2. \A e \in log' : Owns(e.key, e.id) BY <1>1, <1>2, <1>4, <3>1
    <3>3. \A e \in log' : e.key \in Rows /\ (e.id # 0 /\ ~past.renumbered => keys[e.key].id = e.id)
      BY <3>2, Zenon DEF Owns
    <3>4. Rows' = Rows /\ keys' = keys BY <1>5 DEF Rows
    <3>. QED BY <1>7, <3>3, <3>4, Zenon DEF NamesOK, Owns
  <2>4. TimesOK' BY <1>1, <1>2, <1>4, <1>5, <1>7 DEF IInv, SiteOK, TimesOK
  <2>5. WindowsOK'
    <3>1. ASSUME ~past'.setBack, ~past'.overtaken, NEW e \in log', keys[e.key].state = "retired"
          PROVE  e.ts <= keys[e.key].to
      <4>1. ~past.setBack /\ ~past.overtaken /\ keys[new.key].state = "active" BY <1>7, <1>8, <3>1
      <4>2. e \in log BY <1>4, <3>1, <4>1
      <4>. QED BY <3>1, <4>1, <4>2 DEF IInv, SiteOK, WindowsOK
    <3>. QED BY <1>5, <3>1 DEF WindowsOK
  <2>6. Published(txt.h)' BY <1>4, <1>5 DEF IInv, SiteOK, Published, HashOf
  <2>. QED BY <2>1, <2>2, <2>3, <2>4, <2>5, <2>6 DEF SiteOK
<1>15. Drift
  <2>1. KeysDrift BY <1>5 DEF KeysDrift, Rows, Unnumbered
  <2>2. LogDrift BY <1>0, <1>4, <1>11, <1>12 DEF LogDrift
  <2>3. clock <= clock' BY <1>0, <1>5
  <2>. QED BY <1>7, <1>8, <2>1, <2>2, <2>3, Zenon DEF Drift
<1>16. req'[r] = n BY <1>4 DEF IInv, TypeOK, Becomes
<1>17. RequestOK(req[r], r)'
  <2>1. AppendIsTrue(req[r])' BY <1>1, <1>4, <1>6, <1>16 DEF AppendIsTrue
  <2>. QED BY <1>0, <1>6, <1>16, <2>1, DoneOK
<1>18. \A x \in Requests \ {r} : Alike(x) BY <1>4, OthersAreAlike
<1>. QED BY <1>5, <1>13, <1>14, <1>15, <1>17, <1>18, SiteKeeps

\* The time that a transaction writes is not in the future.
LEMMA TimeIsPast ==
    ASSUME IInv, NEW r \in Requests, Commits(r)
    PROVE  /\ Time(r) \in Nat /\ (~past.setBack => Time(r) <= clock)
           /\ req[r].at \in {"time", "commit"} /\ req[r].n \in Nat \ {0} /\ keys[r] = NoKey /\ identity # r
           /\ ~past.setBack /\ ~Overtaken(r) => \A e \in log : e.ts <= Time(r)
<1>. DEFINE q == req[r]
<1>0. /\ q \in Records /\ RequestOK(q, r) /\ clock \in Nat /\ q.ts \in Nat /\ q.n \in Nat
      /\ q.at \in {"time", "commit"}
  BY Here DEF Commits, At, TypeOK, Records
<1>1. q.n # 0 /\ keys[r] = NoKey /\ identity # r BY <1>0 DEF RequestOK, KeysOK
<1>2. CASE backend = "d1"
  <2>1. q.at = "commit" /\ Time(r) = q.ts BY <1>2 DEF Commits, At, Time
  <2>2. ~past.setBack => q.ts <= clock /\ \A e \in q.seen : e.ts <= q.ts BY <1>0, <2>1 DEF RequestOK, SignsOK
  <2>3. ~Overtaken(r) => log = q.seen BY <1>2 DEF Overtaken
  <2>. QED BY <1>0, <1>1, <2>1, <2>2, <2>3
<1>3. CASE backend # "d1"
  <2>1. Time(r) = clock BY <1>3 DEF Time
  <2>2. ~past.setBack => \A e \in log : e.ts <= clock BY DEF IInv, SiteOK, TimesOK
  <2>. QED BY <1>0, <1>1, <2>1, <2>2
<1>. QED BY <1>2, <1>3

LEMMA CommitRotationKeeps == ASSUME IInv, backend' = backend, NEW r \in Requests, CommitRotation(r) PROVE IInv'
<1>. DEFINE q == req[r]
            n == [New EXCEPT !.at = "done", !.kind = "rotate", !.answer = "rotated"]
<1>0. /\ q \in Records /\ RequestOK(q, r) /\ q.kind = "rotate" /\ RowsOK /\ Cardinality(log) \in Nat /\ clock \in Nat
      /\ keys \in [Kids -> KeyRows] /\ r \in Kids
  BY Here DEF CommitRotation, SiteOK, TypeOK, Kids
<1>1. /\ Time(r) \in Nat /\ (~past.setBack => Time(r) <= clock)
      /\ q.at \in {"time", "commit"} /\ q.n \in Nat \ {0} /\ keys[r] = NoKey /\ identity # r
      /\ ~past.setBack /\ ~Overtaken(r) => \A e \in log : e.ts <= Time(r)
  BY TimeIsPast DEF CommitRotation
<1>2. Rows # {} /\ Unnumbered = {} /\ r \notin Rows
  BY <1>0, <1>1 DEF RequestOK, KeysOK, Rotating, Rows, NoKey
<1>3. ASSUME Taken(q.n) PROVE IInv'
  <2>1. Ends(r, "failed") /\ UNCHANGED <<clock, identity, keys, log, txt, past>> BY <1>3 DEF CommitRotation
  <2>. QED BY <1>0, <2>1, FailureKeeps
<1>4. ASSUME ~Taken(q.n) PROVE IInv'
  <2>1. /\ identity' = r /\ past' = [past EXCEPT !.overtaken = @ \/ Overtaken(r)] /\ ChangesKeys(r, n)
        /\ keys' = [kid \in Kids |-> IF kid = r THEN Inserted(r)
                                     ELSE IF ClosesKey(keys[kid]) THEN Closed(keys[kid], Time(r)) ELSE keys[kid]]
        /\ UNCHANGED <<clock, log, txt>>
    BY <1>4 DEF CommitRotation
  <2>2. n \in Records /\ n.at = "done" /\ n.kind = "rotate" /\ n.answer = "rotated" /\ n.pages = 0 BY RotatedShape
  <2>. HIDE DEF n
  <2>3. keys'[r].state = "active" /\ keys'[r].from = Time(r) /\ keys'[r].id = q.n /\ keys'[r] \in KeyRows
    BY <1>0, <1>1, <2>1 DEF Inserted, KeyRows
  <2>4. ASSUME NEW kid \in Kids, kid # r, keys[kid].state = "active"
        PROVE  /\ keys'[kid].state = "retired" /\ keys'[kid].to = Time(r) /\ keys'[kid].from = keys[kid].from
               /\ keys'[kid].id = keys[kid].id /\ keys'[kid] \in KeyRows
    <3>1. keys'[kid] = [keys[kid] EXCEPT !.state = "retired", !.to = Time(r)]
      BY <2>1, <2>4 DEF ClosesKey, Closed
    <3>. QED BY <1>0, <1>1, <3>1 DEF KeyRows
  <2>5. ASSUME NEW kid \in Kids, kid # r, keys[kid].state # "active" PROVE keys'[kid] = keys[kid]
    BY <2>1, <2>5 DEF ClosesKey
  <2>6. keys' \in [Kids -> KeyRows]
    <3>1. \A kid \in Kids : keys'[kid] \in KeyRows BY <1>0, <2>3, <2>4, <2>5
    <3>. QED BY <2>1, <3>1
  <2>7. ASSUME NEW kid \in Kids, kid # r
        PROVE  /\ keys'[kid].from = keys[kid].from /\ keys'[kid].id = keys[kid].id /\ keys'[kid].state # "active"
               /\ keys'[kid].state = "none" <=> keys[kid].state = "none"
    BY <2>4, <2>5, <2>7
  <2>8. Rows' = Rows \cup {r} /\ ActiveKeys' = {r} /\ Unnumbered' = {}
    <3>1. Rows' = Rows \cup {r} BY <1>0, <2>3, <2>7 DEF Rows
    <3>2. ActiveKeys' = {r} BY <1>0, <2>3, <2>7 DEF ActiveKeys
    <3>3. ASSUME NEW kid \in Rows' PROVE keys'[kid].id # 0
      <4>1. CASE kid = r BY <1>1, <2>3, <4>1
      <4>2. CASE kid # r BY <1>2, <2>7, <3>1, <4>2 DEF Unnumbered, Rows
      <4>. QED BY <4>1, <4>2
    <3>. QED BY <3>1, <3>2, <3>3 DEF Unnumbered
  <2>9. /\ past' \in [setBack : BOOLEAN, overtaken : BOOLEAN, renumbered : BOOLEAN]
        /\ past'.setBack = past.setBack /\ past'.renumbered = past.renumbered
    <3>1. Overtaken(r) \in BOOLEAN BY DEF Overtaken
    <3>. QED BY <2>1, <3>1, Zenon DEF IInv, TypeOK
  <2>10. (past.overtaken => past'.overtaken) /\ (Overtaken(r) => past'.overtaken)
    BY <2>1, Zenon DEF IInv, TypeOK
  <2>11. /\ req' \in [Requests -> Records] /\ req'[r] = n
         /\ \A x \in Requests \ {r} : Alike(x) /\ (req[x].kind = "verify" /\ req[x].at # "done" => req'[x].late)
    BY <2>1, <2>2, OthersAreLate
  <2>12. TypeOK' BY <1>0, <2>1, <2>6, <2>9, <2>11 DEF IInv, TypeOK
  <2>13. r # None BY NamesAssumption DEF Kids
  <2>14. \A e \in log : e.key \in Rows /\ e.key \in Kids /\ e.key # r
    BY <1>2 DEF IInv, SiteOK, NamesOK, Owns, Rows
  <2>15. SiteOK'
    <3>1. RowsOK'
      <4>1. ASSUME NEW k \in Rows', NEW l \in Rows', keys'[k].id = keys'[l].id, keys'[k].id # 0 PROVE k = l
        <5>1. \A kid \in Rows : kid \in Kids /\ kid # r /\ keys'[kid].id = keys[kid].id /\ keys[kid].id # q.n
          BY <1>2, <1>4, <2>7 DEF Rows, Taken
        <5>. QED BY <1>0, <2>3, <2>8, <4>1, <5>1 DEF RowsOK
      <4>2. \A kid \in Kids \ Rows' : keys'[kid] = NoKey
        BY <1>0, <2>5, <2>8 DEF RowsOK, Rows
      <4>. QED BY <2>1, <2>8, <2>13, <4>1, <4>2 DEF RowsOK
    <3>2. ChainOK' BY <2>1 DEF IInv, SiteOK, ChainOK, Linked, Starts, Follows, HashOf
    <3>3. NamesOK'
      <4>1. \A e \in log : e.id # 0 /\ ~past.renumbered => keys[e.key].id = e.id
        BY Zenon DEF IInv, SiteOK, NamesOK, Owns
      <4>2. \A e \in log : keys'[e.key].id = keys[e.key].id /\ e.key \in Rows' BY <2>7, <2>8, <2>14
      <4>3. \A e \in log : e.key \in Rows' /\ (e.id # 0 /\ ~past'.renumbered => keys'[e.key].id = e.id)
        BY <2>9, <4>1, <4>2
      <4>. QED BY <2>1, <4>3 DEF NamesOK, Owns
    <3>4. TimesOK'
      <4>1. ASSUME ~past'.setBack PROVE /\ \A kid \in Kids : keys'[kid].from <= clock
                                        /\ \A e \in log : e.ts <= clock /\ keys'[e.key].from <= e.ts
        <5>1. ~past.setBack BY <2>9, <4>1
        <5>2. /\ \A kid \in Kids : keys[kid].from <= clock
              /\ \A e \in log : e.ts <= clock /\ keys[e.key].from <= e.ts
          BY <5>1 DEF IInv, SiteOK, TimesOK
        <5>. QED BY <1>1, <2>3, <2>7, <2>14, <5>1, <5>2
      <4>. QED BY <2>1, <4>1 DEF TimesOK
    <3>5. WindowsOK'
      <4>1. ASSUME ~past'.setBack, ~past'.overtaken, NEW e \in log, keys'[e.key].state = "retired"
            PROVE  e.ts <= keys'[e.key].to
        <5>1. ~past.setBack /\ ~past.overtaken /\ ~Overtaken(r) BY <2>9, <2>10, <4>1
        <5>2. CASE keys[e.key].state = "active" BY <1>1, <2>4, <2>14, <5>1, <5>2
        <5>3. CASE keys[e.key].state # "active"
          <6>1. keys'[e.key] = keys[e.key] BY <2>5, <2>14, <5>3
          <6>. QED BY <4>1, <5>1, <6>1 DEF IInv, SiteOK, WindowsOK
        <5>. QED BY <5>2, <5>3
      <4>. QED BY <2>1, <4>1 DEF WindowsOK
    <3>6. Published(txt.h)' BY <2>1 DEF IInv, SiteOK, Published, HashOf
    <3>. QED BY <3>1, <3>2, <3>3, <3>4, <3>5, <3>6 DEF SiteOK
  <2>16. Drift
    <3>1. ASSUME NEW kid \in Rows
          PROVE  /\ keys'[kid].from = keys[kid].from
                 /\ keys[kid].state = "retired" => keys'[kid].state = "retired" /\ keys'[kid].to = keys[kid].to
                 /\ keys'[kid].id = keys[kid].id
      <4>1. kid \in Kids /\ kid # r BY <1>2 DEF Rows
      <4>. QED BY <2>5, <2>7, <4>1
    <3>2. KeysDrift BY <2>1, <2>8, <2>13, <3>1 DEF KeysDrift
    <3>3. LogDrift BY <1>0, <2>1 DEF LogDrift
    <3>4. clock <= clock' BY <1>0, <2>1
    <3>. QED BY <2>9, <2>10, <3>2, <3>3, <3>4, Zenon DEF Drift
  <2>17. RequestOK(req[r], r)' BY <2>2, <2>11, DoneOK DEF AppendIsTrue
  <2>18. ASSUME NEW x \in Requests \ {r}, req[x].at # "done" PROVE keys'[x] = keys[x] /\ identity' # x
    <3>1. keys[x] = NoKey BY <2>18 DEF IInv, RequestOK, KeysOK
    <3>2. x \in Kids /\ keys[x].state # "active" BY <3>1 DEF Kids, NoKey
    <3>. QED BY <2>1, <2>5, <3>2
  <2>. QED BY <2>11, <2>12, <2>15, <2>16, <2>17, <2>18, SiteKeeps
<1>. QED BY <1>3, <1>4


LEMMA CommitCreationKeeps == ASSUME IInv, backend' = backend, NEW r \in Requests, CommitCreation(r) PROVE IInv'
<1>. DEFINE q == req[r]
            n == Ended(q, "created")
<1>0. /\ q \in Records /\ RequestOK(q, r) /\ q.kind = "create" /\ RowsOK /\ Cardinality(log) \in Nat /\ clock \in Nat
      /\ keys \in [Kids -> KeyRows] /\ r \in Kids /\ r # None
  BY Here, NamesAssumption DEF CommitCreation, SiteOK, TypeOK, Kids
<1>1. /\ Time(r) \in Nat /\ (~past.setBack => Time(r) <= clock)
      /\ q.n \in Nat \ {0} /\ keys[r] = NoKey
  BY TimeIsPast DEF CommitCreation
<1>2. ASSUME identity # None \/ Taken(q.n) PROVE IInv'
  <2>1. Ends(r, "failed") /\ UNCHANGED <<clock, identity, keys, log, txt, past>> BY <1>2 DEF CommitCreation
  <2>. QED BY <1>0, <2>1, FailureKeeps
<1>3. ASSUME identity = None, ~Taken(q.n) PROVE IInv'
  <2>1. /\ identity' = r /\ keys' = [keys EXCEPT ![r] = Inserted(r)] /\ Becomes(r, n)
        /\ UNCHANGED <<clock, log, txt, past>>
    BY <1>3 DEF CommitCreation, Ends, Ended
  <2>2. Rows = {} /\ log = {} /\ \A kid \in Kids : keys[kid] = NoKey BY <1>0, <1>3 DEF RowsOK
  <2>3. n \in Records /\ n.at = "done" /\ n.kind = "create" /\ n.answer = "created" /\ n.pages = 0
    BY <1>0, EndShape DEF Answers
  <2>. HIDE DEF n
  <2>4. /\ keys' \in [Kids -> KeyRows] /\ keys'[r].state = "active" /\ keys'[r].from = Time(r) /\ keys'[r].id = q.n
        /\ \A kid \in Kids \ {r} : keys'[kid] = NoKey
    BY <1>0, <1>1, <2>1, <2>2 DEF Inserted, KeyRows
  <2>5. Rows' = {r} /\ ActiveKeys' = {r} /\ Unnumbered' = {}
    BY <1>0, <1>1, <2>4 DEF Rows, ActiveKeys, Unnumbered, NoKey
  <2>6. req'[r] = n /\ \A x \in Requests \ {r} : Alike(x) BY <2>1, OthersAreAlike DEF IInv, TypeOK, Becomes
  <2>7. TypeOK' BY <1>0, <2>1, <2>3, <2>4 DEF IInv, TypeOK, Becomes
  <2>8. SiteOK'
    <3>1. RowsOK' BY <1>0, <2>1, <2>4, <2>5 DEF RowsOK
    <3>2. ChainOK' BY <2>1 DEF IInv, SiteOK, ChainOK, Linked, Starts, Follows, HashOf
    <3>3. NamesOK' /\ WindowsOK' BY <2>1, <2>2 DEF NamesOK, WindowsOK
    <3>4. TimesOK' BY <1>0, <1>1, <2>1, <2>2, <2>4 DEF TimesOK, NoKey
    <3>5. Published(txt.h)' BY <2>1 DEF IInv, SiteOK, Published, HashOf
    <3>. QED BY <3>1, <3>2, <3>3, <3>4, <3>5 DEF SiteOK
  <2>9. Drift
    <3>1. KeysDrift BY <1>3, <2>2, <2>5 DEF KeysDrift
    <3>2. LogDrift BY <1>0, <2>1 DEF LogDrift
    <3>. QED BY <1>0, <2>1, <3>1, <3>2 DEF Drift
  <2>10. RequestOK(req[r], r)' BY <2>3, <2>6, DoneOK DEF AppendIsTrue
  <2>11. ASSUME NEW x \in Requests \ {r} PROVE keys'[x] = keys[x] /\ identity' # x
    <3>1. x \in Kids \ {r} BY DEF Kids
    <3>. QED BY <2>1, <2>2, <2>4, <3>1
  <2>. QED BY <2>2, <2>6, <2>7, <2>8, <2>9, <2>10, <2>11, SiteKeeps
<1>. QED BY <1>2, <1>3

LEMMA PublishTxtKeeps == ASSUME IInv, backend' = backend, NEW r \in Requests, PublishTxt(r) PROVE IInv'
<1>. DEFINE q == req[r]
            n == Ended(q, "published")
<1>0. q \in Records /\ RequestOK(q, r) /\ q.at = "head" /\ q.kind = "checklist"
  BY Here DEF PublishTxt, At, RequestOK, KindOK
<1>1. q.key \in Kids /\ identity # None BY <1>0 DEF RequestOK, KeysOK, Records
<1>2. UNCHANGED <<clock, identity, keys, log, past>> BY DEF PublishTxt
<1>3. n.kind = q.kind BY <1>0, EndShape DEF Answers
<1>4. Becomes(r, n) BY DEF PublishTxt, Ends, Ended
<1>. HIDE DEF n
<1>5. AppendIsTrue(n) BY <1>0, <1>3 DEF AppendIsTrue
<1>6. n \in Records /\ RequestOK(n, r) BY <1>0, <1>5, EndOK DEF Answers, n
<1>7. txt' \in Txts /\ txt'.k = q.key /\ Published(txt'.h)
  <2>1. CASE log = {} /\ txt' = [k |-> q.key, h |-> None] BY <1>1, <2>1 DEF Txts, Published
  <2>2. ASSUME NEW e \in log, txt' = [k |-> q.key, h |-> HashOf(e)]
        PROVE  txt' \in Txts /\ txt'.k = q.key /\ Published(txt'.h)
    <3>1. e \in Entries BY DEF IInv, TypeOK
    <3>2. HashOf(e) \in Hashes BY <3>1 DEF HashOf, Hashes, Entries
    <3>3. txt' \in Txts /\ txt'.k = q.key /\ txt'.h = HashOf(e) BY <1>1, <2>2, <3>2 DEF Txts
    <3>. QED BY <3>3 DEF Published
  <2>. QED BY <2>1, <2>2 DEF PublishTxt
<1>8. TypeOK' BY <1>2, <1>4, <1>6, <1>7 DEF IInv, TypeOK, Becomes
<1>9. SiteOK'
  <2>1. SiteOK BY DEF IInv
  <2>2. RowsOK' BY <1>1, <1>2, <2>1 DEF SiteOK, RowsOK, Rows, ActiveKeys, Unnumbered
  <2>3. ChainOK' BY <1>2, <2>1 DEF SiteOK, ChainOK, Linked, Starts, Follows, HashOf
  <2>4. NamesOK' BY <1>2, <2>1 DEF SiteOK, NamesOK, Owns, Rows
  <2>5. TimesOK' /\ WindowsOK' BY <1>2, <2>1 DEF SiteOK, TimesOK, WindowsOK
  <2>6. Published(txt.h)' BY <1>2, <1>7 DEF Published, HashOf
  <2>. QED BY <2>2, <2>3, <2>4, <2>5, <2>6 DEF SiteOK
<1>10. ASSUME NEW x \in Requests PROVE RequestOK(req[x], x)'
  <2>1. req'[x] = IF x = r THEN n ELSE req[x] BY <1>4 DEF IInv, TypeOK, Becomes
  <2>2. RequestOK(req'[x], x) BY <1>6, <2>1 DEF IInv
  <2>. QED BY <1>2, <2>2, SameSite
<1>. QED BY <1>8, <1>9, <1>10 DEF IInv

LEMMA TickKeeps == ASSUME IInv, backend' = backend, Tick PROVE IInv'
<1>1. UNCHANGED <<identity, keys, log, txt, req, past>> /\ clock' = clock + 1 /\ clock \in Nat
  BY DEF Tick, IInv, TypeOK
<1>2. TypeOK' BY <1>1 DEF IInv, TypeOK
<1>3. SiteOK'
  <2>1. SiteOK BY DEF IInv
  <2>2. RowsOK' BY <1>1, <2>1 DEF SiteOK, RowsOK, Rows, ActiveKeys, Unnumbered
  <2>3. ChainOK' BY <1>1, <2>1 DEF SiteOK, ChainOK, Linked, Starts, Follows, HashOf
  <2>4. NamesOK' BY <1>1, <2>1 DEF SiteOK, NamesOK, Owns, Rows
  <2>5. TimesOK'
    <3>1. ASSUME ~past.setBack PROVE /\ \A kid \in Kids : keys[kid].from <= clock'
                                     /\ \A e \in log : e.ts <= clock' /\ keys[e.key].from <= e.ts
      <4>1. /\ \A kid \in Kids : keys[kid].from <= clock /\ keys[kid].from \in Nat
            /\ \A e \in log : e.ts <= clock /\ keys[e.key].from <= e.ts /\ e.ts \in Nat
        BY <2>1, <3>1 DEF SiteOK, TimesOK, IInv, TypeOK, KeyRows, Entries
      <4>. QED BY <1>1, <4>1
    <3>. QED BY <1>1, <3>1 DEF TimesOK
  <2>6. WindowsOK' BY <1>1, <2>1 DEF SiteOK, WindowsOK
  <2>7. Published(txt.h)' BY <1>1, <2>1 DEF SiteOK, Published, HashOf
  <2>. QED BY <2>2, <2>3, <2>4, <2>5, <2>6, <2>7 DEF SiteOK
<1>4. Drift
  <2>1. KeysDrift BY <1>1 DEF KeysDrift, Rows, Unnumbered
  <2>2. LogDrift BY <1>1, CardNat DEF LogDrift
  <2>. QED BY <1>1, <2>1, <2>2 DEF Drift
<1>5. ASSUME NEW x \in Requests PROVE RequestOK(req[x], x)'
  <2>1. Alike(x) BY <1>1, Zenon DEF Alike, SameWho, SameSigns, SameAnswer
  <2>. QED BY <1>1, <1>2, <1>4, <2>1, RequestDrifts
<1>. QED BY <1>2, <1>3, <1>5 DEF IInv

LEMMA SetBackKeeps == ASSUME IInv, backend' = backend, SetBack PROVE IInv'
<1>1. UNCHANGED <<identity, keys, log, txt, req>> /\ clock' = clock - 1 /\ clock > 0 /\ clock \in Nat
  BY DEF SetBack, IInv, TypeOK
<1>2. /\ past' \in [setBack : BOOLEAN, overtaken : BOOLEAN, renumbered : BOOLEAN] /\ past'.setBack
      /\ past'.overtaken = past.overtaken /\ past'.renumbered = past.renumbered
  BY Zenon DEF SetBack, IInv, TypeOK
<1>3. TypeOK' BY <1>1, <1>2 DEF IInv, TypeOK
<1>4. SiteOK'
  <2>1. SiteOK BY DEF IInv
  <2>2. RowsOK' BY <1>1, <2>1 DEF SiteOK, RowsOK, Rows, ActiveKeys, Unnumbered
  <2>3. ChainOK' BY <1>1, <2>1 DEF SiteOK, ChainOK, Linked, Starts, Follows, HashOf
  <2>4. NamesOK'
    <3>1. NamesOK BY <2>1 DEF SiteOK
    <3>2. \A e \in log : e.key \in Rows /\ (e.id # 0 /\ ~past.renumbered => keys[e.key].id = e.id)
      BY <3>1, Zenon DEF NamesOK, Owns
    <3>3. Rows' = Rows BY <1>1 DEF Rows
    <3>. QED BY <1>1, <1>2, <3>2, <3>3, Zenon DEF NamesOK, Owns
  <2>5. TimesOK' /\ WindowsOK' BY <1>2, Zenon DEF TimesOK, WindowsOK
  <2>6. Published(txt.h)' BY <1>1, <2>1 DEF SiteOK, Published, HashOf
  <2>. QED BY <2>2, <2>3, <2>4, <2>5, <2>6 DEF SiteOK
<1>5. Drift
  <2>1. KeysDrift BY <1>1 DEF KeysDrift, Rows, Unnumbered
  <2>2. LogDrift BY <1>1, CardNat DEF LogDrift
  <2>. QED BY <1>2, <2>1, <2>2, Zenon DEF Drift
<1>6. ASSUME NEW x \in Requests PROVE RequestOK(req[x], x)'
  <2>1. Alike(x) BY <1>1, Zenon DEF Alike, SameWho, SameSigns, SameAnswer
  <2>. QED BY <1>1, <1>3, <1>5, <2>1, RequestDrifts
<1>. QED BY <1>3, <1>4, <1>6 DEF IInv

----------------------------------------------------------------------------
(* The initial states *)

LEMMA InitHolds == Init => IInv
<1>. SUFFICES ASSUME Init PROVE IInv OBVIOUS
<1>. DEFINE active(id) == [state |-> "active", from |-> 0, to |-> 0, id |-> id]
<1>0. /\ First \in Kids /\ Second \in Kids /\ First # Second /\ First \notin Requests /\ Second \notin Requests
      /\ None \notin Kids /\ OldAtt \in AllAtts
  BY NamesAssumption DEF Kids, AllAtts
<1>1. NoKeys \in [Kids -> KeyRows] /\ \A kid \in Kids : NoKeys[kid] = NoKey BY DEF NoKeys, NoKey, KeyRows
<1>2. /\ New \in Records /\ New.at = "new" /\ New.kind = "none" /\ New.pages = 0 /\ New.answer = "none"
  BY NewShape DEF New
<1>3. /\ clock = 0 /\ backend \in {"sqlite", "d1"} /\ req = [r \in Requests |-> New]
      /\ past = [setBack |-> FALSE, overtaken |-> FALSE, renumbered |-> FALSE]
  BY DEF Init
<1>4. txt.k = identity /\ txt.h = None /\ (identity \in Kids \cup {None} => txt \in Txts) BY
   DEF Init, NoTxt, Txts
<1>. DEFINE Shape == /\ identity \in Kids \cup {None} /\ keys \in [Kids -> KeyRows] /\ log \in SUBSET Entries
                     /\ RowsOK /\ ChainOK /\ \A kid \in Kids : keys[kid].from = 0
                     /\ \A e \in log : Owns(e.key, e.id) /\ e.ts = 0
                     /\ \A r \in Requests : keys[r] = NoKey /\ identity # r
<1>6. ASSUME log = {} PROVE ChainOK
  <2>1. IsFiniteSet(log) /\ Cardinality(log) = 0 BY <1>6, FS_EmptySet
  <2>2. {e.seq : e \in log} = {} BY <1>6
  <2>3. 1..0 = {} OBVIOUS
  <2>. QED BY <1>6, <2>1, <2>2, <2>3 DEF ChainOK, Linked
<1>7. ASSUME identity = None, keys = NoKeys, log = {} PROVE Shape
  <2>1. Rows = {} /\ ActiveKeys = {} /\ Unnumbered = {} BY <1>1, <1>7 DEF Rows, ActiveKeys, Unnumbered, NoKey
  <2>. QED BY <1>0, <1>1, <1>4, <1>6, <1>7, <2>1 DEF RowsOK, NoKey, Kids
<1>8. ASSUME identity = First, keys = NoKeys, log = {} PROVE Shape
  <2>1. Rows = {} /\ ActiveKeys = {} /\ Unnumbered = {} BY <1>1, <1>8 DEF Rows, ActiveKeys, Unnumbered, NoKey
  <2>. QED BY <1>0, <1>1, <1>4, <1>6, <1>8, <2>1 DEF RowsOK, NoKey, Kids
<1>9. ASSUME identity = First, keys = [NoKeys EXCEPT ![First] = active(1)], log = {} PROVE Shape
  <2>1. /\ keys \in [Kids -> KeyRows] /\ keys[First] = active(1) /\ \A kid \in Kids \ {First} : keys[kid] = NoKey
    BY <1>0, <1>1, <1>9 DEF KeyRows
  <2>2. Rows = {First} /\ ActiveKeys = {First} /\ Unnumbered = {}
    BY <1>0, <2>1 DEF Rows, ActiveKeys, Unnumbered, NoKey
  <2>3. RowsOK BY <1>0, <1>4, <1>9, <2>1, <2>2 DEF RowsOK
  <2>. QED BY <1>0, <1>6, <1>9, <2>1, <2>3 DEF NoKey, Kids
<1>10. ASSUME identity = Second, log = {OldEntry},
              keys = [NoKeys EXCEPT ![First] = [active(0) EXCEPT !.state = "retired"], ![Second] = active(0)]
       PROVE  Shape
  <2>1. /\ keys \in [Kids -> KeyRows] /\ keys[First] = [state |-> "retired", from |-> 0, to |-> 0, id |-> 0]
        /\ keys[Second] = active(0) /\ \A kid \in Kids \ {First, Second} : keys[kid] = NoKey
    BY <1>0, <1>1, <1>10 DEF KeyRows
  <2>2. Rows = {First, Second} /\ ActiveKeys = {Second} /\ Unnumbered = {First, Second}
    BY <1>0, <2>1 DEF Rows, ActiveKeys, Unnumbered, NoKey
  <2>3. RowsOK BY <1>0, <1>4, <1>10, <2>1, <2>2 DEF RowsOK
  <2>4. IsFiniteSet(log) /\ Cardinality(log) = 1 BY <1>10, FS_Singleton
  <2>5. OldEntry \in Entries /\ OldEntry.seq = 1 /\ OldEntry.prev = None /\ OldEntry.key = First /\ OldEntry.id = 0 /\ OldEntry.ts = 0
    BY <1>0 DEF OldEntry, Entries
  <2>6. ChainOK
    <3>1. {e.seq : e \in log} = 1..1 BY <1>10, <2>5
    <3>2. Linked(log) BY <1>10, <2>5 DEF Linked, Starts
    <3>. QED BY <1>10, <2>4, <3>1, <3>2 DEF ChainOK
  <2>7. \A e \in log : Owns(e.key, e.id) /\ e.ts = 0 BY <1>10, <2>2, <2>5 DEF Owns
  <2>. QED BY <1>0, <1>10, <2>1, <2>3, <2>5, <2>6, <2>7 DEF NoKey, Kids
<1>11. Shape BY <1>7, <1>8, <1>9, <1>10 DEF Init
<1>12. TypeOK BY <1>2, <1>3, <1>4, <1>11 DEF TypeOK
<1>13. SiteOK
  <2>1. TimesOK BY <1>0, <1>3, <1>11 DEF TimesOK, Owns, Rows
  <2>2. WindowsOK
    <3>1. \A e \in log : e.ts = 0 /\ e.key \in Kids BY <1>11 DEF Owns, Rows
    <3>2. \A kid \in Kids : keys[kid].to \in Nat BY <1>11 DEF KeyRows
    <3>. QED BY <3>1, <3>2 DEF WindowsOK
  <2>. QED BY <1>4, <1>11, <2>1, <2>2 DEF SiteOK, NamesOK, Published
<1>14. ASSUME NEW r \in Requests PROVE RequestOK(req[r], r)
  <2>1. req[r] = New BY <1>3
  <2>2. KindOK(New) BY <1>2 DEF KindOK
  <2>3. KeysOK(New, r) BY <1>2, <1>11 DEF KeysOK, Rotating
  <2>4. AppendOK(New) /\ SignsOK(New) /\ ReadOK(New) /\ AppendIsTrue(New) /\ VerdictIsTrue(New)
    BY <1>2 DEF AppendOK, SignsOK, ReadOK, AppendIsTrue, VerdictIsTrue
  <2>. QED BY <2>1, <2>2, <2>3, <2>4 DEF RequestOK
<1>. QED BY <1>12, <1>13, <1>14 DEF IInv

LEMMA StutterKeeps == IInv /\ UNCHANGED vars => IInv'
<1>. SUFFICES ASSUME IInv, UNCHANGED vars PROVE IInv' OBVIOUS
<1>1. TypeOK' BY DEF IInv, TypeOK, vars
<1>2. SiteOK'
  <2>1. SiteOK BY DEF IInv
  <2>2. RowsOK' BY <2>1 DEF SiteOK, RowsOK, Rows, ActiveKeys, Unnumbered, vars
  <2>3. ChainOK' BY <2>1 DEF SiteOK, ChainOK, Linked, Starts, Follows, HashOf, vars
  <2>4. NamesOK' BY <2>1 DEF SiteOK, NamesOK, Owns, Rows, vars
  <2>5. TimesOK' /\ WindowsOK' BY <2>1 DEF SiteOK, TimesOK, WindowsOK, vars
  <2>6. Published(txt.h)' BY <2>1 DEF SiteOK, Published, HashOf, vars
  <2>. QED BY <2>2, <2>3, <2>4, <2>5, <2>6 DEF SiteOK
<1>3. ASSUME NEW x \in Requests PROVE RequestOK(req[x], x)'
  <2>1. RequestOK(req'[x], x) BY DEF IInv, vars
  <2>. QED BY <2>1, SameSite DEF vars
<1>. QED BY <1>1, <1>2, <1>3 DEF IInv

LEMMA InsertEntryKeeps == ASSUME IInv, backend' = backend, NEW r \in Requests, InsertEntry(r) PROVE IInv'
<1>1. CASE \E e \in log : e.seq = req[r].entry.seq \/ e.att = req[r].entry.att BY <1>1, ConflictKeeps
<1>2. CASE ~\E e \in log : e.seq = req[r].entry.seq \/ e.att = req[r].entry.att BY <1>2, LoggedKeeps
<1>. QED BY <1>1, <1>2

LEMMA NextKeeps == IInv /\ [Next]_vars => IInv'
<1>. SUFFICES ASSUME IInv, [Next]_vars PROVE IInv' OBVIOUS
<1>1. CASE UNCHANGED vars BY <1>1, StutterKeeps
<1>2. CASE Tick /\ backend' = backend BY <1>2, TickKeeps
<1>3. CASE SetBack /\ backend' = backend BY <1>3, SetBackKeeps
<1>4. ASSUME backend' = backend, NEW r \in Requests, Begin(r) PROVE IInv'
  BY <1>4, BeginAppendKeeps, BeginRotateKeeps, BeginCreateKeeps, BeginVerifyKeeps, BeginChecklistKeeps
     DEF Begin
<1>5. ASSUME backend' = backend, NEW r \in Requests, EnsureKeys(r) PROVE IInv'
  BY <1>5, LookForRowsKeeps, CopyIdentityKeeps, ReadPendingKeeps, ReadMaxPendingKeeps, BackfillKeeps
     DEF EnsureKeys
<1>6. ASSUME backend' = backend, NEW r \in Requests, Append(r) PROVE IInv'
  BY <1>6, ReadActiveKeyKeeps, SignEntryKeeps, CheckDuplicateKeeps, InsertEntryKeeps DEF Append
<1>7. ASSUME backend' = backend, NEW r \in Requests, Replace(r) PROVE IInv'
  BY <1>7, ReadLastSequenceKeeps, TakeTimeKeeps, CommitRotationKeeps, CommitCreationKeeps DEF Replace
<1>8. ASSUME backend' = backend, NEW r \in Requests, Publish(r) PROVE IInv'
  BY <1>8, ListKeysKeeps, ListEntriesKeeps, PublishTxtKeeps DEF Publish
<1>. QED BY <1>1, <1>2, <1>3, <1>4, <1>5, <1>6, <1>7, <1>8 DEF Next

----------------------------------------------------------------------------
(* Theorems *)

\* The inductive invariant holds for any number of requests and attestations, any page
\* size, any number of attempts, and on both databases.
THEOREM Invariance == Spec => []IInv
  BY InitHolds, NextKeeps, PTL DEF Spec

\* The log is one chain without gaps, forks or steps back in time, and no attestation is
\* in it twice, whatever appendAttestation() calls run at once.
THEOREM ChainCorrect == Spec => []HistoryIsAChain
<1>1. IInv => HistoryIsAChain BY DEF IInv, SiteOK, ChainOK, HistoryIsAChain
<1>. QED BY <1>1, Invariance, PTL

\* The site has one active key, that of its identity, and no number twice, whatever
\* rotations, creations and numberings of old keys run at once.
THEOREM ActiveKeyCorrect == Spec => []OneActiveKey
<1>1. IInv => OneActiveKey BY DEF IInv, SiteOK, RowsOK, OneActiveKey
<1>. QED BY <1>1, Invariance, PTL

LEMMA FailuresHold == IInv => FailuresAreExplained
<1>. SUFFICES ASSUME IInv PROVE FailuresAreExplained OBVIOUS
<1>. DEFINE reasons == Refusals(log, keys, NoTxt)
<1>1. Linked(log) BY DEF IInv, SiteOK, ChainOK
<1>2. ActiveIn(keys, NoTxt.k) /\ Anchored(log, NoTxt.h) BY DEF ActiveIn, Anchored, NoTxt
<1>3. reasons \subseteq {"unknown_key", "bad_signature", "window"} BY <1>1, <1>2 DEF Refusals
<1>4. ASSUME ~past.renumbered PROVE reasons \cap {"unknown_key", "bad_signature"} = {}
  <2>1. Known(log, keys) BY <1>4, KeysAreFound
  <2>2. ASSUME NEW e \in log PROVE Named(e, keys) \subseteq {e.key}
    <3>1. e.key \in Rows /\ (e.id # 0 => keys[e.key].id = e.id) BY <1>4 DEF IInv, SiteOK, NamesOK, Owns
    <3>. QED BY <3>1 DEF Named, Rows, IInv, SiteOK, RowsOK
  <2>3. Signed(log, keys) BY <2>2 DEF Signed
  <2>. QED BY <2>1, <2>3 DEF Refusals
<1>5. ASSUME ~past.setBack, ~past.overtaken, ~past.renumbered PROVE "window" \notin reasons
  <2>1. ASSUME NEW e \in log, NEW kid \in Named(e, keys) PROVE InWindow(e, keys[kid])
    <3>1. e.key \in Rows /\ (e.id # 0 => keys[e.key].id = e.id) BY <1>5 DEF IInv, SiteOK, NamesOK, Owns
    <3>2. kid = e.key BY <2>1, <3>1 DEF Named, Rows, IInv, SiteOK, RowsOK
    <3>3. keys[e.key].from <= e.ts BY <1>5, <3>1 DEF IInv, SiteOK, TimesOK
    <3>4. keys[e.key].state = "retired" => e.ts <= keys[e.key].to BY <1>5 DEF IInv, SiteOK, WindowsOK
    <3>. QED BY <3>2, <3>3, <3>4 DEF InWindow
  <2>2. InWindows(log, keys) BY <2>1 DEF InWindows
  <2>. QED BY <2>2 DEF Refusals
<1>6. reasons \cap {"unknown_key", "bad_signature"} # {} => past.renumbered BY <1>4, Zenon
<1>7. "window" \in reasons => past.setBack \/ past.overtaken \/ past.renumbered BY <1>5, Zenon
<1>. QED BY <1>3, <1>6, <1>7, Zenon DEF FailuresAreExplained

\* The history of the site verifies under the site's keys but for the races and the
\* clock that FailuresAreExplained names.
THEOREM FailuresCorrect == Spec => []FailuresAreExplained
  BY FailuresHold, Invariance, PTL

\* What a verifier that reads page by page answers is true, or is owed to a change of the
\* keys while it was reading.
THEOREM VerdictsCorrect == Spec => []VerdictsAreTrue
<1>1. IInv => VerdictsAreTrue BY DEF IInv, RequestOK, VerdictsAreTrue
<1>. QED BY <1>1, Invariance, PTL

\* An attestation that is answered for is in the log, and no append fails but after
\* an entry of another came in during each attempt.
THEOREM AppendsCorrect == Spec => []AppendsAreTrue
<1>1. IInv => AppendsAreTrue BY DEF IInv, RequestOK, AppendsAreTrue
<1>. QED BY <1>1, Invariance, PTL


\* A step that changes no date of a retired key, and no number but as Backfill does.
KeepsKeys == \A kid \in Rows :
    /\ keys[kid].state = "retired" => [keys'[kid] EXCEPT !.id = 0] = [keys[kid] EXCEPT !.id = 0]
    /\ keys[kid].id # 0 /\ ~past'.renumbered => keys'[kid].id = keys[kid].id

LEMMA NumberingKeepsKeys == ASSUME IInv, NEW r \in Requests, Backfill(r) PROVE KeepsKeys
<1>. DEFINE i == req[r].n
            numbered == [keys EXCEPT ![First].id = i + 1, ![Second].id = i + 2]
<1>1. keys' = keys \/ (keys' = numbered /\ past' = [past EXCEPT !.renumbered = @ \/ (Unnumbered = {} /\ numbered # keys)])
  BY DEF Backfill
<1>2. First # Second /\ {First, Second} \subseteq Kids /\ keys \in [Kids -> KeyRows] /\ i \in Nat /\ RowsOK
  BY Here, NamesAssumption DEF Kids, TypeOK, SiteOK, Records
<1>3. ASSUME NEW kid \in Rows, keys[kid].state = "retired"
      PROVE  [keys'[kid] EXCEPT !.id = 0] = [keys[kid] EXCEPT !.id = 0]
  <2>1. kid \in Kids /\ keys[kid] \in KeyRows BY <1>2 DEF Rows
  <2>2. CASE keys' = keys BY <2>2
  <2>3. CASE keys' = numbered
    <3>1. keys'[kid] \in KeyRows /\ keys'[kid].state = keys[kid].state /\ keys'[kid].from = keys[kid].from
          /\ keys'[kid].to = keys[kid].to
      BY <1>2, <2>1, <2>3 DEF KeyRows
    <3>. QED BY <2>1, <3>1 DEF KeyRows
  <2>. QED BY <1>1, <2>2, <2>3
<1>4. ASSUME NEW kid \in Rows, keys[kid].id # 0, ~past'.renumbered PROVE keys'[kid].id = keys[kid].id
  <2>1. Unnumbered = {} BY <1>2, <1>4 DEF RowsOK, Unnumbered
  <2>2. keys' = numbered /\ numbered # keys => past'.renumbered
    BY <1>1, <2>1, Zenon DEF IInv, TypeOK
  <2>. QED BY <1>1, <1>4, <2>2
<1>. QED BY <1>3, <1>4 DEF KeepsKeys

LEMMA RotationKeepsKeys == ASSUME IInv, NEW r \in Requests, CommitRotation(r) PROVE KeepsKeys
<1>1. keys' = keys \/ keys' = [kid \in Kids |-> IF kid = r THEN Inserted(r)
                                     ELSE IF ClosesKey(keys[kid]) THEN Closed(keys[kid], Time(r)) ELSE keys[kid]]
  BY DEF CommitRotation
<1>2. keys[r] = NoKey /\ keys \in [Kids -> KeyRows] BY TimeIsPast DEF CommitRotation, IInv, TypeOK
<1>3. ASSUME NEW kid \in Rows
      PROVE  /\ keys[kid].state = "retired" => keys'[kid] = keys[kid]
             /\ keys'[kid].id = keys[kid].id
  <2>1. kid \in Kids /\ kid # r /\ keys[kid] \in KeyRows BY <1>2 DEF Rows, NoKey
  <2>2. CASE keys[kid].state = "active"
    <3>1. keys'[kid] = keys[kid] \/ keys'[kid] = [keys[kid] EXCEPT !.state = "retired", !.to = Time(r)]
      BY <1>1, <2>1, <2>2 DEF ClosesKey, Closed
    <3>. QED BY <2>1, <2>2, <3>1 DEF KeyRows
  <2>3. CASE keys[kid].state # "active" BY <1>1, <2>1, <2>3 DEF ClosesKey
  <2>. QED BY <2>2, <2>3
<1>. QED BY <1>3 DEF KeepsKeys

LEMMA CreationKeepsKeys ==
    ASSUME IInv, NEW r \in Requests, CommitCreation(r) \/ CopyIdentity(r)
    PROVE  KeepsKeys
<1>1. ASSUME CommitCreation(r) PROVE KeepsKeys
  <2>1. identity # None => keys' = keys BY <1>1 DEF CommitCreation
  <2>2. identity = None => Rows = {} BY DEF IInv, SiteOK, RowsOK
  <2>. QED BY <2>1, <2>2 DEF KeepsKeys
<1>2. ASSUME CopyIdentity(r) PROVE KeepsKeys
  <2>1. Ignored(req[r].key) => keys' = keys BY <1>2 DEF CopyIdentity
  <2>2. ~Ignored(req[r].key) => Rows = {} BY DEF Ignored, IInv, SiteOK, RowsOK
  <2>. QED BY <2>1, <2>2 DEF KeepsKeys
<1>. QED BY <1>1, <1>2

LEMMA StepsKeepThePast == IInv /\ [Next]_vars => log \subseteq log' /\ KeepsKeys
<1>. SUFFICES ASSUME IInv, [Next]_vars PROVE log \subseteq log' /\ KeepsKeys OBVIOUS
<1>0. keys' = keys => KeepsKeys BY DEF KeepsKeys
<1>1. CASE UNCHANGED vars BY <1>0, <1>1 DEF vars
<1>2. CASE Tick \/ SetBack BY <1>0, <1>2 DEF Tick, SetBack
<1>3. ASSUME NEW r \in Requests, Begin(r) PROVE log \subseteq log' /\ KeepsKeys
  BY <1>0, <1>3 DEF Begin, BeginAppend, BeginRotate, BeginCreate, BeginVerify, BeginChecklist
<1>4. ASSUME NEW r \in Requests, EnsureKeys(r) PROVE log \subseteq log' /\ KeepsKeys
  <2>1. log' = log BY <1>4 DEF EnsureKeys, LookForRows, CopyIdentity, ReadPending, ReadMaxPending, Backfill
  <2>2. LookForRows(r) \/ ReadPending(r) \/ ReadMaxPending(r) => keys' = keys
    BY DEF LookForRows, ReadPending, ReadMaxPending
  <2>. QED BY <1>0, <1>4, <2>1, <2>2, NumberingKeepsKeys, CreationKeepsKeys DEF EnsureKeys
<1>5. ASSUME NEW r \in Requests, Append(r) PROVE log \subseteq log' /\ KeepsKeys
  BY <1>0, <1>5 DEF Append, ReadActiveKey, SignEntry, CheckDuplicate, InsertEntry
<1>6. ASSUME NEW r \in Requests, Replace(r) PROVE log \subseteq log' /\ KeepsKeys
  <2>1. log' = log BY <1>6 DEF Replace, ReadLastSequence, TakeTime, CommitRotation, CommitCreation
  <2>2. ReadLastSequence(r) \/ TakeTime(r) => keys' = keys BY DEF ReadLastSequence, TakeTime
  <2>. QED BY <1>0, <1>6, <2>1, <2>2, RotationKeepsKeys, CreationKeepsKeys DEF Replace
<1>7. ASSUME NEW r \in Requests, Publish(r) PROVE log \subseteq log' /\ KeepsKeys
  BY <1>0, <1>7 DEF Publish, ListKeys, ListEntries, PublishTxt
<1>. QED BY <1>1, <1>2, <1>3, <1>4, <1>5, <1>6, <1>7 DEF Next

\* No entry is changed or removed, a retired key keeps its dates, and a number changes
\* only when two requests number the keys at once.
THEOREM PastCorrect == Spec => PastIsKept
<1>1. IInv /\ [Next]_vars =>
        [log \subseteq log' /\
         \A kid \in Rows :
            /\ keys[kid].state = "retired" => [keys'[kid] EXCEPT !.id = 0] = [keys[kid] EXCEPT !.id = 0]
            /\ keys[kid].id # 0 /\ ~past'.renumbered => keys'[kid].id = keys[kid].id]_vars
  BY StepsKeepThePast DEF KeepsKeys
<1>. QED BY <1>1, Invariance, PTL DEF Spec, PastIsKept
============================================================================
