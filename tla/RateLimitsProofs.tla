-------------------------- MODULE RateLimitsProofs ---------------------------
(* Proofs about RateLimits, for every value of its constants. *)
EXTENDS RateLimits, FiniteSetTheorems, TLAPS

Failures == {"ipFailures", "userFailures"}

\* Where a request is once it was counted under kind k.
Later(k) ==
    CASE k = "attempt"    -> {"verifying", "ipFailures", "userFailures", "clearing", "refused", "ended"}
      [] k = "ipFailures" -> {"userFailures", "refused", "ended"}
      [] k = "resetIp"    -> {"resetUser", "refused", "ended"}
      [] k = "actionIp"   -> {"actionActor", "refused", "ended"}
      [] OTHER            -> {"refused", "ended"}

\* The buckets that may decide about x.
Own(x) == {Bucket(x, k) : k \in Kinds \ {"userFailures"}}

IsOver(r, x, hits) ==
    \E h \in hits : h.req = r /\ h.bucket \in Own(x) /\ h.count > Limit[h.bucket.kind]

CountedOnce ==
    /\ \A h \in past.hits : req[h.req].at \in Later(h.bucket.kind)
    /\ \A g, h \in past.hits : g.req = h.req /\ g.bucket.kind = h.bucket.kind => g = h

\* The counts of one request are those of a login, or none of them is.
LoginsStayLogins ==
    \A g, h \in past.hits :
        g.req = h.req /\ g.bucket.kind \in ShortKinds => h.bucket.kind \in ShortKinds

CountsAreHits ==
    /\ IsFiniteSet(past.hits)
    /\ \A b \in Buckets, w \in Windows : counts[b][w] <= Cardinality(HitsOf(b, w))
    /\ \A h \in past.hits : h.count <= Cardinality(HitsOf(h.bucket, h.start))

OnTimeHitsDiffer ==
    \A h \in past.hits : h.onTime /\ h.bucket.kind \notin Failures =>
        /\ past.deleted <= h.start => h.count <= counts[h.bucket][h.start]
        /\ \A g \in past.hits :
             g.onTime /\ g.bucket = h.bucket /\ g.start = h.start /\ g.count = h.count => g = h

AttemptsAreOnTime ==
    backend = "sqlite" =>
        /\ \A h \in past.hits : h.bucket.kind = "attempt" => h.onTime
        /\ \A r \in Requests : req[r].at # "attempt"

OverIsEarned ==
    \A r \in Requests :
        /\ req[r].at = "refused" => req[r].over
        /\ req[r].over => IsOver(r, req[r], past.hits)

IInv ==
    /\ TypeOK /\ CountedOnce /\ CountsAreHits /\ OnTimeHitsDiffer
    /\ AttemptsAreOnTime /\ OverIsEarned /\ LoginsStayLogins

-----------------------------------------------------------------------------
(* Shapes and counts *)

States == Kinds \cup {"new", "verifying", "clearing", "refused", "ended"}
Shape == [at : States, ip : Ips \cup {None}, user : Users \cup {None}, start : 0 .. clock,
          sent : BOOLEAN, over : BOOLEAN]
HitShape == [req : Requests, bucket : Buckets, start : Windows, count : Nat \ {0}, onTime : BOOLEAN]
Tables == [Buckets -> [Windows -> Nat]]

\* What every counted request is, beyond its shape.
Fits(r, x, hits) ==
    /\ x \in Shape
    /\ x.at \notin {"new", "ended"} => x.ip \in Ips /\ x.user \in Users
    /\ \A h \in hits : h.req = r => x.at \in Later(h.bucket.kind)
    /\ x.at = "refused" => x.over
    /\ x.over => IsOver(r, x, hits)

\* A table from which only rows before `deleted`, and counts of failures, have gone.
Shrinks(table, deleted) ==
    /\ table \in Tables
    /\ deleted \in 0 .. clock /\ past.deleted <= deleted
    /\ \A b \in Buckets, w \in Windows :
         /\ table[b][w] <= counts[b][w]
         /\ deleted <= w /\ b.kind \notin Failures => table[b][w] = counts[b][w]

LEMMA HitsOfFinite ==
    ASSUME IInv, NEW b, NEW w
    PROVE  IsFiniteSet(HitsOf(b, w)) /\ Cardinality(HitsOf(b, w)) \in Nat
BY FS_Subset, FS_CardinalityType DEF IInv, CountsAreHits, HitsOf

LEMMA EndedShape == ASSUME IInv PROVE Ended \in Shape /\ Ended.at = "ended" /\ ~Ended.over
<1>1. 0 \in 0 .. clock BY ClockAssumption DEF IInv, TypeOK, Windows
<1>2. New \in Shape /\ ~New.over BY <1>1 DEF New, Shape, States
<1>3. Ended = [New EXCEPT !.at = "ended"] /\ "ended" \in States BY DEF Ended, States
<1>. QED BY <1>2, <1>3 DEF Shape

LEMMA BucketShape ==
    ASSUME NEW x, x.ip \in Ips, x.user \in Users, NEW k \in Kinds
    PROVE  Bucket(x, k) \in Buckets /\ Bucket(x, k).kind = k
BY DEF Bucket, Buckets, Kinds, IpKinds, UserKinds

LEMMA LaterAfter ==
    ASSUME NEW k \in Kinds, NEW at \in Kinds, NEW over \in BOOLEAN
    PROVE  /\ After(at, over) \in Later(at)
           /\ at \in Later(k) => After(at, over) \in Later(k)
           /\ at \notin Later(at)
           /\ at \in Later(k) => (at \in ShortKinds <=> k \in ShortKinds)
           /\ After(at, over) \in States \ {"new", "attempt"}
           /\ After(at, over) = "refused" => over
BY DEF After, Later, Kinds, IpKinds, UserKinds, ShortKinds, States

LEMMA PurgedShrinks ==
    ASSUME IInv, NEW start \in 0 .. clock
    PROVE  Shrinks(Purged(start), Deleted(start)) /\ start <= Deleted(start)
<1>1. start \in Int /\ past.deleted \in 0 .. clock /\ clock \in Windows /\ counts \in Tables
  BY ClockAssumption DEF IInv, TypeOK, Windows, Tables
<1>2. Purged(start) \in Tables BY <1>1 DEF Purged, Tables
<1>3. Deleted(start) \in 0 .. clock /\ past.deleted <= Deleted(start) /\ start <= Deleted(start)
  BY <1>1 DEF Deleted
<1>4. ASSUME NEW b \in Buckets, NEW w \in Windows
      PROVE  /\ Purged(start)[b][w] <= counts[b][w]
             /\ Deleted(start) <= w => Purged(start)[b][w] = counts[b][w]
  <2>1. counts[b][w] \in Nat /\ w \in Int BY <1>1, ClockAssumption DEF Tables, Windows
  <2>2. Purged(start)[b][w] = IF w < start THEN 0 ELSE counts[b][w] BY DEF Purged
  <2>3. Deleted(start) <= w => ~(w < start) BY <1>1, <1>3, <2>1 DEF Windows
  <2>. QED BY <2>1, <2>2, <2>3
<1>. QED BY <1>2, <1>3, <1>4 DEF Shrinks

-----------------------------------------------------------------------------
(* Steps *)

LEMMA InitInv == Init => IInv
<1> SUFFICES ASSUME Init PROVE IInv OBVIOUS
<1>1. past.hits = {} BY DEF Init
<1>2. \A r \in Requests : req[r] = New BY DEF Init
<1>3. TypeOK
  BY ClockAssumption, QuartersAssumption DEF Init, TypeOK, New, Windows, Kinds
<1>4. CountedOnce /\ OnTimeHitsDiffer BY <1>1 DEF CountedOnce, OnTimeHitsDiffer
<1>5. CountsAreHits
  <2>1. IsFiniteSet(past.hits) BY <1>1, FS_EmptySet
  <2>2. \A b \in Buckets, w \in Windows : counts[b][w] = 0 BY DEF Init
  <2>3. \A b, w : HitsOf(b, w) = {} BY <1>1 DEF HitsOf
  <2>. QED BY <1>1, <2>1, <2>2, <2>3, FS_EmptySet DEF CountsAreHits
<1>6. AttemptsAreOnTime BY <1>1, <1>2 DEF AttemptsAreOnTime, New
<1>7. OverIsEarned BY <1>2 DEF OverIsEarned, New
<1>8. LoginsStayLogins BY <1>1 DEF LoginsStayLogins
<1>. QED BY <1>3, <1>4, <1>5, <1>6, <1>7, <1>8 DEF IInv

\* A step in which request r becomes x and nothing is counted.
LEMMA MoveInv ==
    ASSUME IInv, NEW r \in Requests, NEW x, Fits(r, x, past.hits),
           backend = "sqlite" => x.at # "attempt",
           req' = [req EXCEPT ![r] = x], UNCHANGED <<backend, clock, hour>>,
           Shrinks(counts', past'.deleted),
           past' = [past EXCEPT !.deleted = past'.deleted]
    PROVE  IInv'
<1>1. past'.hits = past.hits BY DEF IInv, TypeOK
<1>2. req \in [Requests -> Shape] /\ req'[r] = x /\ \A s \in Requests \ {r} : req'[s] = req[s]
  BY DEF IInv, TypeOK, Shape, States
<1>3. past.hits \subseteq HitShape BY DEF IInv, TypeOK, HitShape
<1>4. TypeOK'
  <2>1. req' \in [Requests -> Shape] BY <1>2 DEF Fits
  <2>2. \A s \in Requests : req'[s].at \notin {"new", "ended"} => req'[s].ip \in Ips /\ req'[s].user \in Users
    BY <1>2 DEF Fits, IInv, TypeOK
  <2>3. past' \in [hits : SUBSET HitShape, deleted : 0 .. clock]
    BY <1>3 DEF IInv, TypeOK, Shrinks, HitShape
  <2>. QED BY <2>1, <2>2, <2>3 DEF IInv, TypeOK, Shape, States, HitShape, Shrinks, Tables, Windows, Buckets
<1>5. CountedOnce'
  <2>1. \A h \in past.hits : req'[h.req].at \in Later(h.bucket.kind)
    BY <1>2, <1>3 DEF IInv, CountedOnce, Fits, HitShape
  <2>. QED BY <1>1, <2>1 DEF IInv, CountedOnce, Later
<1>6. CountsAreHits'
  <2>1. \A b, w : HitsOf(b, w)' = HitsOf(b, w) BY <1>1 DEF HitsOf
  <2>2. ASSUME NEW b \in Buckets, NEW w \in Windows PROVE counts'[b][w] <= Cardinality(HitsOf(b, w))
    <3>1. counts[b][w] \in Nat /\ counts'[b][w] \in Nat BY DEF IInv, TypeOK, Shrinks, Tables
    <3>. QED BY <3>1, HitsOfFinite DEF IInv, CountsAreHits, Shrinks
  <2>. QED BY <1>1, <2>1, <2>2 DEF IInv, CountsAreHits, Buckets, Windows
<1>7. OnTimeHitsDiffer'
  <2> SUFFICES ASSUME NEW h \in past.hits, h.onTime, h.bucket.kind \notin Failures
               PROVE  /\ past'.deleted <= h.start => h.count <= counts'[h.bucket][h.start]
                      /\ \A g \in past.hits :
                           g.onTime /\ g.bucket = h.bucket /\ g.start = h.start /\ g.count = h.count => g = h
    BY <1>1 DEF OnTimeHitsDiffer, Failures
  <2>1. h.bucket \in Buckets /\ h.start \in Windows BY <1>3 DEF HitShape
  <2>2. past'.deleted <= h.start => past.deleted <= h.start
    BY <2>1, ClockAssumption DEF IInv, TypeOK, Shrinks, Windows
  <2>. QED BY <2>1, <2>2 DEF IInv, OnTimeHitsDiffer, Shrinks
<1>8. AttemptsAreOnTime' BY <1>1, <1>2 DEF IInv, AttemptsAreOnTime, Fits
<1>9. OverIsEarned'
  <2>1. \A s \in Requests : /\ req'[s].at = "refused" => req'[s].over
                            /\ req'[s].over => IsOver(s, req'[s], past.hits)
    BY <1>2 DEF IInv, OverIsEarned, Fits
  <2>. QED BY <1>1, <2>1 DEF OverIsEarned, IsOver, Own, Bucket
<1>10. LoginsStayLogins' BY <1>1 DEF IInv, LoginsStayLogins, ShortKinds
<1>. QED BY <1>4, <1>5, <1>6, <1>7, <1>8, <1>9, <1>10 DEF IInv

\* A step in which request r is counted as x.
LEMMA CountInv ==
    ASSUME IInv, NEW r \in Requests, NEW x, x.at \in Kinds, Fits(r, x, past.hits),
           NEW table, NEW deleted, Shrinks(table, deleted), Counted(r, x, table, deleted),
           backend = "sqlite" /\ x.at = "attempt" => deleted <= x.start,
           UNCHANGED <<backend, clock, hour>>
    PROVE  IInv'
<1> DEFINE b == Bucket(x, x.at)
           n == table[b][x.start] + 1
           over == x.over \/ Exceeds(x.at, n)
           h0 == [req |-> r, bucket |-> b, start |-> x.start, count |-> n, onTime |-> deleted <= x.start]
           y == IF After(x.at, over) = "ended" THEN Ended
                ELSE [x EXCEPT !.at = After(x.at, over), !.sent = FALSE, !.over = over]
<1>1. /\ counts' = [table EXCEPT ![b][x.start] = n]
      /\ past'.hits = past.hits \cup {h0} /\ past'.deleted = deleted
      /\ past' = [deleted |-> deleted, hits |-> past.hits \cup {h0}]
      /\ req' = [req EXCEPT ![r] = y]
  BY DEF Counted
<1>2. /\ x \in Shape /\ x.ip \in Ips /\ x.user \in Users /\ x.start \in 0 .. clock /\ x.over \in BOOLEAN
      /\ x.at \notin {"new", "ended"}
  BY DEF Fits, Shape, Kinds, IpKinds, UserKinds
<1>3. b \in Buckets /\ b.kind = x.at BY <1>2, BucketShape
<1>4. clock \in Windows /\ x.start \in Windows /\ x.start \in Int /\ 0 .. clock \subseteq Windows
  BY <1>2, ClockAssumption DEF IInv, TypeOK, Windows
<1>5. table \in Tables /\ n \in Nat \ {0} /\ table[b][x.start] \in Nat
  BY <1>3, <1>4 DEF Shrinks, Tables
<1>6. over \in BOOLEAN BY <1>2 DEF Exceeds
<1>7. h0 \in HitShape BY <1>3, <1>4, <1>5 DEF HitShape
<1>8. past.hits \subseteq HitShape /\ req \in [Requests -> Shape]
  BY DEF IInv, TypeOK, HitShape, Shape, States
<1>9. /\ y \in Shape /\ y.at = After(x.at, over)
      /\ y.at # "ended" => y.ip = x.ip /\ y.user = x.user /\ y.over = over
      /\ y.at = "ended" => y = Ended
  <2>1. Ended \in Shape /\ Ended.at = "ended" BY EndedShape
  <2>2. CASE After(x.at, over) = "ended" BY <2>1, <2>2
  <2>3. CASE After(x.at, over) # "ended"
    BY <2>3, <1>2, <1>6, LaterAfter DEF Shape
  <2>. QED BY <2>2, <2>3
<1>10. req'[r] = y /\ req' \in [Requests -> Shape] /\ \A s \in Requests \ {r} : req'[s] = req[s]
  BY <1>1, <1>8, <1>9
<1>11. \A g \in past.hits : g.req = r => g.bucket.kind # x.at
  <2> SUFFICES ASSUME NEW g \in past.hits, g.req = r PROVE g.bucket.kind # x.at OBVIOUS
  <2>1. x.at \in Later(g.bucket.kind) BY DEF Fits
  <2>. QED BY <2>1, LaterAfter
<1>12. /\ h0.req = r /\ h0.bucket = b /\ h0.start = x.start /\ h0.count = n
       /\ h0.onTime = (deleted <= x.start) /\ h0 \notin past.hits
  BY <1>3, <1>11
<1>13. n = table[b][x.start] + 1 /\ b = Bucket(x, x.at) /\ (over <=> x.over \/ Exceeds(x.at, n))
  OBVIOUS
<1> HIDE DEF b, n, over, h0, y
<1>14. TypeOK'
  <2>1. counts' \in Tables
    <3>1. [table[b] EXCEPT ![x.start] = n] \in [Windows -> Nat] BY <1>3, <1>4, <1>5 DEF Tables
    <3>. QED BY <1>1, <1>3, <1>5, <3>1 DEF Tables
  <2>2. \A s \in Requests : req'[s].at \notin {"new", "ended"} => req'[s].ip \in Ips /\ req'[s].user \in Users
    BY <1>2, <1>9, <1>10 DEF IInv, TypeOK
  <2>3. past' \in [hits : SUBSET HitShape, deleted : 0 .. clock]
    BY <1>1, <1>7, <1>8 DEF Shrinks
  <2>. QED BY <1>10, <2>1, <2>2, <2>3
       DEF IInv, TypeOK, Shape, States, HitShape, Tables, Windows, Buckets
<1>15. CountedOnce'
  <2>1. \A h \in past.hits \cup {h0} : req'[h.req].at \in Later(h.bucket.kind)
    <3>1. ASSUME NEW h \in past.hits, h.req = r PROVE y.at \in Later(h.bucket.kind)
      <4>1. x.at \in Later(h.bucket.kind) BY <3>1 DEF Fits
      <4>2. h.bucket.kind \in Kinds BY <1>8 DEF HitShape, Buckets
      <4>. QED BY <4>1, <4>2, <1>6, <1>9, LaterAfter
    <3>2. ASSUME NEW h \in past.hits, h.req # r PROVE req'[h.req].at \in Later(h.bucket.kind)
      BY <3>2, <1>8, <1>10 DEF HitShape, IInv, CountedOnce
    <3>3. req'[h0.req].at \in Later(h0.bucket.kind) BY <1>3, <1>6, <1>9, <1>10, <1>12, LaterAfter
    <3>. QED BY <1>10, <3>1, <3>2, <3>3
  <2>2. \A g, h \in past.hits \cup {h0} : g.req = h.req /\ g.bucket.kind = h.bucket.kind => g = h
    BY <1>3, <1>11, <1>12 DEF IInv, CountedOnce
  <2>. QED BY <1>1, <2>1, <2>2 DEF CountedOnce, Later
<1>16. CountsAreHits'
  <2>1. IsFiniteSet(past'.hits) 
    <3>1. IsFiniteSet(past.hits) BY DEF IInv, CountsAreHits
    <3>. QED BY <1>1, <3>1, FS_AddElement
  <2>2. ASSUME NEW c, NEW w
        PROVE  /\ IsFiniteSet(HitsOf(c, w)') /\ Cardinality(HitsOf(c, w)') \in Nat
               /\ Cardinality(HitsOf(c, w)) <= Cardinality(HitsOf(c, w)')
               /\ c = b /\ w = x.start =>
                    Cardinality(HitsOf(c, w)') = Cardinality(HitsOf(c, w)) + 1
    <3>1. HitsOf(c, w)' = IF c = b /\ w = x.start THEN HitsOf(c, w) \cup {h0} ELSE HitsOf(c, w)
      BY <1>1, <1>12 DEF HitsOf
    <3>2. h0 \notin HitsOf(c, w) BY <1>12 DEF HitsOf
    <3>3. IsFiniteSet(HitsOf(c, w)) /\ Cardinality(HitsOf(c, w)) \in Nat BY HitsOfFinite
    <3>4. CASE c = b /\ w = x.start
      <4>1. HitsOf(c, w)' = HitsOf(c, w) \cup {h0} BY <3>1, <3>4
      <4>2. IsFiniteSet(HitsOf(c, w)') /\ Cardinality(HitsOf(c, w)') = Cardinality(HitsOf(c, w)) + 1
        BY <4>1, <3>2, <3>3, FS_AddElement
      <4>. QED BY <4>2, <3>3
    <3>5. CASE ~(c = b /\ w = x.start) BY <3>1, <3>3, <3>5
    <3>. QED BY <3>4, <3>5
  <2>3. ASSUME NEW c \in Buckets, NEW w \in Windows PROVE counts'[c][w] <= Cardinality(HitsOf(c, w)')
    <3>1. table[c][w] \in Nat /\ counts[c][w] \in Nat /\ Cardinality(HitsOf(c, w)) \in Nat
      BY <1>5, HitsOfFinite DEF Tables, IInv, TypeOK
    <3>2. table[c][w] <= counts[c][w] /\ counts[c][w] <= Cardinality(HitsOf(c, w))
      BY DEF Shrinks, IInv, CountsAreHits
    <3>3. counts'[c][w] = IF c = b /\ w = x.start THEN table[c][w] + 1 ELSE table[c][w]
      BY <1>1, <1>3, <1>4, <1>5, <1>13 DEF Tables
    <3>. QED BY <2>2, <3>1, <3>2, <3>3
  <2>4. ASSUME NEW h \in past.hits \cup {h0} PROVE h.count <= Cardinality(HitsOf(h.bucket, h.start)')
    <3>1. CASE h \in past.hits
      <4>1. h.count \in Nat /\ h.count <= Cardinality(HitsOf(h.bucket, h.start))
        BY <3>1, <1>8 DEF HitShape, IInv, CountsAreHits
      <4>. QED BY <4>1, <2>2, HitsOfFinite
    <3>2. CASE h = h0
      <4>1. counts'[b][x.start] = n BY <1>1, <1>3, <1>4, <1>5 DEF Tables
      <4>. QED BY <4>1, <3>2, <2>3, <1>3, <1>4, <1>12
    <3>. QED BY <3>1, <3>2
  <2>5. \A c, w : HitsOf(c, w)' = {h \in past'.hits : h.bucket = c /\ h.start = w} BY DEF HitsOf
  <2>. QED BY <1>1, <2>1, <2>3, <2>4, <2>5 DEF CountsAreHits, HitsOf, Buckets, Windows
<1>17. OnTimeHitsDiffer'
  <2>1. ASSUME NEW h \in past.hits, h.onTime, h.bucket.kind \notin Failures, deleted <= h.start
        PROVE  /\ h.count <= table[h.bucket][h.start]
               /\ h.count <= counts'[h.bucket][h.start]
               /\ h.bucket = b /\ h.start = x.start => h.count < n
    <3>1. h.bucket \in Buckets /\ h.start \in Windows /\ h.start \in Int /\ h.count \in Nat
      BY <1>8, ClockAssumption DEF HitShape, Windows
    <3>2. past.deleted <= h.start BY <2>1, <3>1, <1>4 DEF IInv, TypeOK, Shrinks, Windows
    <3>3. h.count <= counts[h.bucket][h.start] BY <2>1, <3>2 DEF IInv, OnTimeHitsDiffer
    <3>4. h.count <= table[h.bucket][h.start] BY <2>1, <3>1, <3>3 DEF Shrinks
    <3>5. table[h.bucket][h.start] \in Nat BY <3>1, <1>5 DEF Tables
    <3>6. counts'[h.bucket][h.start] = IF h.bucket = b /\ h.start = x.start
                                       THEN table[h.bucket][h.start] + 1 ELSE table[h.bucket][h.start]
      BY <1>1, <1>3, <1>4, <1>5, <1>13, <3>1 DEF Tables
    <3>. QED BY <1>13, <3>1, <3>4, <3>5, <3>6
  <2>2. deleted <= x.start => h0.count <= counts'[h0.bucket][h0.start]
    BY <1>1, <1>3, <1>4, <1>5, <1>12 DEF Tables
  <2>3. ASSUME NEW h \in past.hits, h.onTime, h.bucket.kind \notin Failures, h0.onTime,
               h.bucket = h0.bucket, h.start = h0.start, h.count = h0.count
        PROVE  FALSE
    <3>1. deleted <= h.start /\ h.count < n /\ h.count = n BY <2>1, <2>3, <1>12
    <3>2. n \in Int BY <1>5
    <3>. QED BY <3>1, <3>2
  <2>4. ASSUME NEW h \in past'.hits, h.onTime, h.bucket.kind \notin Failures
        PROVE  /\ past'.deleted <= h.start => h.count <= counts'[h.bucket][h.start]
               /\ \A g \in past'.hits :
                    g.onTime /\ g.bucket = h.bucket /\ g.start = h.start /\ g.count = h.count => g = h
    <3>1. CASE h \in past.hits
      BY <3>1, <2>1, <2>3, <2>4, <1>1 DEF IInv, OnTimeHitsDiffer
    <3>2. CASE h = h0
      BY <3>2, <2>2, <2>3, <2>4, <1>1, <1>12
    <3>. QED BY <3>1, <3>2, <1>1
  <2>. QED BY <2>4 DEF OnTimeHitsDiffer, Failures
<1>18. AttemptsAreOnTime'
  <2>1. backend = "sqlite" /\ h0.bucket.kind = "attempt" => h0.onTime BY <1>3, <1>12
  <2>2. y.at # "attempt" BY <1>6, <1>9, LaterAfter
  <2>. QED BY <1>1, <1>10, <2>1, <2>2 DEF IInv, AttemptsAreOnTime
<1>19. OverIsEarned'
  <2>1. ASSUME NEW s \in Requests \ {r}
        PROVE  /\ req'[s].at = "refused" => req'[s].over
               /\ req'[s].over => IsOver(s, req'[s], past'.hits)
    BY <1>1, <1>10 DEF IInv, OverIsEarned, IsOver
  <2>2. y.at = "refused" => y.over BY <1>6, <1>9, LaterAfter
  <2>3. ASSUME y.over PROVE IsOver(r, y, past'.hits)
    <3>1. y.at # "ended" /\ over /\ Own(y) = Own(x)
      BY <2>3, <1>9 DEF Ended, New, Own, Bucket
    <3>2. CASE x.over BY <3>2, <3>1, <1>1 DEF Fits, IsOver
    <3>3. CASE Exceeds(x.at, n)
      <4>1. b \in Own(x) /\ n > Limit[b.kind] BY <3>3, <1>3, <1>13 DEF Exceeds, Own
      <4>. QED BY <4>1, <3>1, <1>1, <1>12 DEF IsOver
    <3>. QED BY <1>13, <3>1, <3>2, <3>3
  <2>4. \A s \in Requests : /\ req'[s].at = "refused" => req'[s].over
                            /\ req'[s].over => IsOver(s, req'[s], past'.hits)
    BY <1>10, <2>1, <2>2, <2>3
  <2>. QED BY <2>4 DEF OverIsEarned, IsOver, Own, Bucket
<1>20. LoginsStayLogins'
  <2>1. ASSUME NEW h \in past.hits, h.req = r
        PROVE  x.at \in ShortKinds <=> h.bucket.kind \in ShortKinds
    <3>1. h.bucket.kind \in Kinds BY <1>8 DEF HitShape, Buckets
    <3>2. x.at \in Later(h.bucket.kind) BY <2>1 DEF Fits
    <3>. QED BY <3>1, <3>2, LaterAfter
  <2>2. \A g, h \in past.hits \cup {h0} :
          g.req = h.req /\ g.bucket.kind \in ShortKinds => h.bucket.kind \in ShortKinds
    BY <2>1, <1>3, <1>12 DEF IInv, LoginsStayLogins
  <2>. QED BY <1>1, <2>2 DEF LoginsStayLogins, ShortKinds
<1>. QED BY <1>14, <1>15, <1>16, <1>17, <1>18, <1>19, <1>20 DEF IInv

\* hit(), on SQLite and as it is called on D1.
LEMMA HitsInv ==
    ASSUME IInv, NEW r \in Requests, NEW x, x.at \in Kinds, Fits(r, x, past.hits), Hits(r, x),
           x.at = "attempt" => x.start = clock
    PROVE  IInv'
<1>1. x.start \in 0 .. clock /\ past.deleted \in 0 .. clock /\ clock \in Int
  BY ClockAssumption DEF Fits, Shape, IInv, TypeOK, Windows
<1>2. CASE backend = "sqlite"
  <2>1. Counted(r, x, Purged(x.start), Deleted(x.start)) BY <1>2 DEF Hits
  <2>2. Shrinks(Purged(x.start), Deleted(x.start)) BY <1>1, PurgedShrinks
  <2>3. x.at = "attempt" => Deleted(x.start) <= x.start BY <1>1 DEF Deleted
  <2>4. UNCHANGED <<backend, clock, hour>> BY DEF Hits
  <2>. QED BY <2>1, <2>2, <2>3, <2>4, CountInv
<1>3. CASE backend # "sqlite"
  <2>1. req' = [req EXCEPT ![r] = x] /\ UNCHANGED <<backend, clock, hour, counts, past>>
    BY <1>3 DEF Hits
  <2>2. Shrinks(counts', past'.deleted) /\ past' = [past EXCEPT !.deleted = past'.deleted]
    BY <2>1, <1>1 DEF Shrinks, Tables, IInv, TypeOK
  <2>. QED BY <1>3, <2>1, <2>2, MoveInv
<1>. QED BY <1>2, <1>3

LEMMA Unchanged ==
    ASSUME IInv
    PROVE  /\ Shrinks(counts, past.deleted) /\ past = [past EXCEPT !.deleted = past.deleted]
           /\ req \in [Requests -> Shape] /\ \A r \in Requests : Fits(r, req[r], past.hits)
<1>1. past.deleted \in 0 .. clock /\ clock \in Int BY ClockAssumption DEF IInv, TypeOK, Windows
<1>2. Shrinks(counts, past.deleted) BY <1>1 DEF Shrinks, Tables, IInv, TypeOK
<1>3. req \in [Requests -> Shape] BY DEF IInv, TypeOK, Shape, States
<1>4. ASSUME NEW r \in Requests PROVE Fits(r, req[r], past.hits)
  <2>1. \A h \in past.hits : h.req = r => req[r].at \in Later(h.bucket.kind)
    BY DEF IInv, CountedOnce
  <2>. QED BY <1>3, <2>1 DEF IInv, TypeOK, OverIsEarned, Fits
<1>. QED BY <1>2, <1>3, <1>4 DEF IInv, TypeOK

LEMMA WindowStartShape ==
    ASSUME IInv, NEW k PROVE WindowStart(k) \in 0 .. clock
BY ClockAssumption DEF WindowStart, IInv, TypeOK, Windows

LEMMA ArriveInv ==
    ASSUME IInv, NEW r \in Requests, NEW k \in Kinds, NEW ip \in Ips, NEW user \in Users,
           Arrive(r, k, ip, user)
    PROVE  IInv'
<1> DEFINE x == [New EXCEPT !.at = k, !.ip = ip, !.user = user, !.start = WindowStart(k)]
<1>1. /\ x \in Shape /\ x.at = k /\ x.ip = ip /\ x.user = user /\ x.start = WindowStart(k) /\ ~x.over
  BY WindowStartShape DEF New, Shape, States
<1>2. \A h \in past.hits : h.req # r
  <2>1. req[r].at = "new" BY DEF Arrive, New
  <2>2. \A k1 : "new" \notin Later(k1) BY DEF Later
  <2>. QED BY <2>1, <2>2 DEF IInv, CountedOnce
<1>3. Fits(r, x, past.hits) BY <1>1, <1>2 DEF Fits, Kinds, IpKinds, UserKinds
<1>4. Hits(r, x) BY DEF Arrive
<1>5. x.at = "attempt" => x.start = clock BY <1>1 DEF WindowStart, ShortKinds
<1> HIDE DEF x
<1>. QED BY <1>1, <1>3, <1>4, <1>5, HitsInv

LEMMA HitSecondInv ==
    ASSUME IInv, NEW r \in Requests, HitSecond(r) PROVE IInv'
<1>1. req[r].at \in Kinds /\ req[r].at # "attempt" BY DEF HitSecond, Kinds, UserKinds
<1>. QED BY <1>1, Unchanged, HitsInv DEF HitSecond

LEMMA SendDeleteInv ==
    ASSUME IInv, NEW r \in Requests, SendDelete(r) PROVE IInv'
<1> DEFINE x == [req[r] EXCEPT !.sent = TRUE]
<1>1. req[r] \in Shape /\ Fits(r, req[r], past.hits) BY Unchanged
<1>2. /\ x \in Shape /\ x.at = req[r].at /\ x.ip = req[r].ip /\ x.user = req[r].user
      /\ x.over = req[r].over
  BY <1>1 DEF Shape
<1>3. Own(x) = Own(req[r]) BY <1>2 DEF Own, Bucket
<1>4. Fits(r, x, past.hits) BY <1>1, <1>2, <1>3 DEF Fits, IsOver
<1>5. req' = [req EXCEPT ![r] = x] /\ UNCHANGED <<backend, clock, hour>> /\ backend # "sqlite"
  BY DEF SendDelete
<1>6. counts' = Purged(req[r].start) /\ past' = [past EXCEPT !.deleted = Deleted(req[r].start)]
  BY DEF SendDelete
<1>7. req[r].start \in 0 .. clock BY <1>1 DEF Shape
<1>8. past'.deleted = Deleted(req[r].start) BY <1>6 DEF IInv, TypeOK
<1>9. Shrinks(counts', past'.deleted) BY <1>6, <1>7, <1>8, PurgedShrinks
<1> HIDE DEF x
<1>. QED BY <1>4, <1>5, <1>6, <1>8, <1>9, MoveInv

LEMMA SendInsertInv ==
    ASSUME IInv, NEW r \in Requests, SendInsert(r) PROVE IInv'
BY Unchanged, CountInv DEF SendInsert

LEMMA WrongInv ==
    ASSUME IInv, NEW r \in Requests, Wrong(r) PROVE IInv'
<1> DEFINE x == [req[r] EXCEPT !.at = "ipFailures", !.start = WindowStart("ipFailures")]
<1>1. req[r] \in Shape /\ Fits(r, req[r], past.hits) /\ req[r].at = "verifying"
  BY Unchanged DEF Wrong
<1>2. /\ x \in Shape /\ x.at = "ipFailures" /\ x.ip = req[r].ip /\ x.user = req[r].user
      /\ x.over = req[r].over
  BY <1>1, WindowStartShape DEF Shape, States, Kinds, IpKinds
<1>3. Own(x) = Own(req[r]) BY <1>2 DEF Own, Bucket
<1>4. \A k : "verifying" \in Later(k) => "ipFailures" \in Later(k) BY DEF Later
<1>5. Fits(r, x, past.hits) BY <1>1, <1>2, <1>3, <1>4 DEF Fits, IsOver
<1>6. Hits(r, x) /\ x.at \in Kinds BY <1>2 DEF Wrong, Kinds, IpKinds
<1> HIDE DEF x
<1>. QED BY <1>2, <1>5, <1>6, HitsInv

LEMMA EndedFits ==
    ASSUME IInv, NEW r \in Requests PROVE Fits(r, Ended, past.hits)
BY EndedShape DEF Fits, Later

LEMMA RightInv ==
    ASSUME IInv, NEW r \in Requests, Right(r) PROVE IInv'
<1> DEFINE x == IF backend = "sqlite" THEN Ended
                ELSE [req[r] EXCEPT !.at = "clearing", !.start = WindowStart("ipFailures")]
           z == [req[r] EXCEPT !.at = "clearing", !.start = WindowStart("ipFailures")]
           w0 == WindowStart("ipFailures")
           gone == {Bucket(req[r], "ipFailures"), Bucket(req[r], "userFailures")}
<1>1. req[r] \in Shape /\ Fits(r, req[r], past.hits) /\ req[r].at = "verifying"
  BY Unchanged DEF Right
<1>2. /\ z \in Shape /\ z.at = "clearing" /\ z.ip = req[r].ip /\ z.user = req[r].user
      /\ z.over = req[r].over
  BY <1>1, WindowStartShape DEF Shape, States
<1>3. Own(z) = Own(req[r]) BY <1>2 DEF Own, Bucket
<1>4. \A k : "verifying" \in Later(k) => "clearing" \in Later(k) BY DEF Later
<1>5. Fits(r, z, past.hits) BY <1>1, <1>2, <1>3, <1>4 DEF Fits, IsOver
<1>6. Fits(r, x, past.hits) /\ x.at # "attempt" BY <1>2, <1>5, EndedFits, EndedShape
<1>7. /\ req' = [req EXCEPT ![r] = x] /\ UNCHANGED <<backend, clock, hour>> /\ past' = past
  BY DEF Right
<1>8. Shrinks(counts', past.deleted)
  <2>1. w0 \in Windows /\ \A b \in gone : b.kind \in Failures
    <3>1. WindowStart("ipFailures") \in 0 .. clock BY WindowStartShape
    <3>2. WindowStart("ipFailures") \in Windows
      BY <3>1, ClockAssumption DEF IInv, TypeOK, Windows
    <3>3. "ipFailures" \in Kinds /\ "userFailures" \in Kinds BY DEF Kinds, IpKinds, UserKinds
    <3>4. req[r].ip \in Ips /\ req[r].user \in Users BY <1>1 DEF Fits
    <3>. QED BY <3>2, <3>3, <3>4, BucketShape DEF Failures
  <2>2. counts' = IF backend = "sqlite"
                  THEN [b \in Buckets |-> IF b \in gone THEN [counts[b] EXCEPT ![w0] = 0] ELSE counts[b]]
                  ELSE counts
    BY DEF Right
  <2>3. counts \in Tables BY DEF IInv, TypeOK, Tables
  <2> HIDE DEF gone, w0
  <2>4. ASSUME NEW b \in Buckets
        PROVE  /\ counts'[b] \in [Windows -> Nat]
               /\ \A w \in Windows : counts'[b][w] <= counts[b][w]
               /\ b.kind \notin Failures => counts'[b] = counts[b]
    <3>1. counts[b] \in [Windows -> Nat] BY <2>3 DEF Tables
    <3>2. CASE backend = "sqlite" /\ b \in gone
      <4>1. counts'[b] = [counts[b] EXCEPT ![w0] = 0] BY <3>2, <2>2
      <4>. QED BY <3>1, <3>2, <4>1, <2>1
    <3>3. CASE ~(backend = "sqlite" /\ b \in gone)
      <4>1. counts'[b] = counts[b] BY <3>3, <2>2
      <4>. QED BY <3>1, <4>1
    <3>. QED BY <3>2, <3>3
  <2>5. counts' \in Tables BY <2>2, <2>3, <2>4 DEF Tables
  <2>. QED BY <2>4, <2>5, Unchanged DEF Shrinks
<1> HIDE DEF x
<1>. QED BY <1>6, <1>7, <1>8, Unchanged, MoveInv

LEMMA ClearInv ==
    ASSUME IInv, NEW r \in Requests, NEW k \in Kinds, Clear(r, k) PROVE IInv'
<1> DEFINE b0 == Bucket(req[r], k)
           w0 == req[r].start
<1>1. req[r] \in Shape /\ Fits(r, req[r], past.hits) /\ req[r].at = "clearing"
  BY Unchanged DEF Clear
<1>2. req' = [req EXCEPT ![r] = req[r]] /\ UNCHANGED <<backend, clock, hour>> /\ past' = past
  BY Unchanged DEF Clear
<1>3. b0 \in Buckets /\ b0.kind \in Failures
  BY <1>1, BucketShape DEF Fits, Clear, Failures
<1>4. w0 \in Windows BY <1>1, ClockAssumption DEF Shape, IInv, TypeOK, Windows
<1>5. counts \in Tables /\ counts' = [counts EXCEPT ![b0][w0] = 0] BY DEF Clear, IInv, TypeOK, Tables
<1> HIDE DEF b0, w0
<1>6. Shrinks(counts', past.deleted)
  <2>1. ASSUME NEW b \in Buckets
        PROVE  /\ counts'[b] \in [Windows -> Nat]
               /\ \A w \in Windows : counts'[b][w] <= counts[b][w]
               /\ b.kind \notin Failures => counts'[b] = counts[b]
    <3>1. counts[b] \in [Windows -> Nat] BY <1>5 DEF Tables
    <3>2. CASE b = b0
      <4>1. counts'[b] = [counts[b] EXCEPT ![w0] = 0] BY <3>2, <1>3, <1>5 DEF Tables
      <4>. QED BY <3>1, <3>2, <4>1, <1>3, <1>4
    <3>3. CASE b # b0 BY <3>1, <3>3, <1>3, <1>5 DEF Tables
    <3>. QED BY <3>2, <3>3
  <2>2. counts' \in Tables BY <1>5, <2>1 DEF Tables
  <2>. QED BY <2>1, <2>2, Unchanged DEF Shrinks
<1>. QED BY <1>1, <1>2, <1>6, Unchanged, MoveInv

LEMMA LeaveInv ==
    ASSUME IInv, NEW r \in Requests, Leave(r) PROVE IInv'
<1>1. req' = [req EXCEPT ![r] = Ended] /\ UNCHANGED <<backend, clock, hour, counts, past>>
  BY DEF Leave
<1>2. Ended.at # "attempt" BY EndedShape
<1>. QED BY <1>1, <1>2, EndedFits, Unchanged, MoveInv

LEMMA TickInv == ASSUME IInv, Tick PROVE IInv'
<1>1. UNCHANGED <<backend, counts, req, past>> /\ clock' = clock + 1 /\ clock < MaxClock
  BY DEF Tick
<1>2. clock \in Nat /\ clock' \in Windows /\ hour' \in 0 .. clock' /\ 0 .. clock \subseteq 0 .. clock'
  BY <1>1, ClockAssumption DEF Tick, IInv, TypeOK, Windows
<1>3. req' \in [Requests ->
         [at : Kinds \cup {"new", "verifying", "clearing", "refused", "ended"},
          ip : Ips \cup {None}, user : Users \cup {None}, start : 0 .. clock',
          sent : BOOLEAN, over : BOOLEAN]]
  BY <1>1, <1>2 DEF IInv, TypeOK
<1>4. past' \in [hits : SUBSET [req : Requests, bucket : Buckets, start : Windows,
                                count : Nat \ {0}, onTime : BOOLEAN],
                 deleted : 0 .. clock']
  BY <1>1, <1>2 DEF IInv, TypeOK
<1>5. TypeOK' BY <1>1, <1>2, <1>3, <1>4 DEF IInv, TypeOK, Windows, Buckets
<1>. QED BY <1>1, <1>5 DEF IInv, CountedOnce, CountsAreHits, HitsOf, OnTimeHitsDiffer,
              AttemptsAreOnTime, OverIsEarned, IsOver, Own, Bucket, LoginsStayLogins, ShortKinds

LEMMA StutterInv == ASSUME IInv, UNCHANGED vars PROVE IInv'
<1>1. UNCHANGED <<backend, clock, hour, counts, req, past>> BY DEF vars
<1>2. TypeOK' BY <1>1 DEF IInv, TypeOK, Windows, Buckets
<1>. QED BY <1>1, <1>2 DEF IInv, CountedOnce, CountsAreHits, HitsOf, OnTimeHitsDiffer,
              AttemptsAreOnTime, OverIsEarned, IsOver, Own, Bucket, LoginsStayLogins, ShortKinds

LEMMA NextInv == ASSUME IInv, [Next]_vars PROVE IInv'
<1>1. ASSUME NEW r \in Requests, NEW k \in Kinds, NEW ip \in Ips, NEW user \in Users,
             Arrive(r, k, ip, user)
      PROVE  IInv'
  BY <1>1, ArriveInv
<1>2. ASSUME NEW r \in Requests,
             HitSecond(r) \/ SendDelete(r) \/ SendInsert(r) \/ Wrong(r) \/ Right(r) \/ Leave(r)
      PROVE  IInv'
  BY <1>2, HitSecondInv, SendDeleteInv, SendInsertInv, WrongInv, RightInv, LeaveInv
<1>3. ASSUME NEW r \in Requests, NEW k \in Kinds, Clear(r, k) PROVE IInv' BY <1>3, ClearInv
<1>4. ASSUME Tick PROVE IInv' BY <1>4, TickInv
<1>5. ASSUME UNCHANGED vars PROVE IInv' BY <1>5, StutterInv
<1>. QED BY <1>1, <1>2, <1>3, <1>4, <1>5 DEF Next

-----------------------------------------------------------------------------
(* Theorems *)

\* The inductive invariant: each request is counted once under each kind, a row
\* never says more than was counted, and counts on time are all different.
THEOREM Invariance == Spec => []IInv
<1>1. Init => IInv BY InitInv
<1>2. IInv /\ [Next]_vars => IInv' BY NextInv
<1>. QED BY <1>1, <1>2, PTL DEF Spec

\* Requests, rows and the history keep their shape, and no request counts in a
\* window that has not begun.
THEOREM TypeCorrect == Spec => []TypeOK
<1>1. IInv => TypeOK BY DEF IInv
<1>. QED BY <1>1, Invariance, PTL

\* The limits of login-rate-limit.ts, password-reset-rate-limit.ts and
\* action-rate-limit.ts hold in every window the table has not moved past.
THEOREM LimitsCorrect == Spec => []LimitsHold
<1>1. ASSUME IInv PROVE LimitsHold
  <2>1. ASSUME NEW b \in Buckets, NEW w \in Windows, b.kind \notin {"ipFailures", "userFailures"}
        PROVE  Cardinality({h \in Passed(b, w) : h.onTime}) <= Limit[b.kind]
    <3> DEFINE S == {h \in Passed(b, w) : h.onTime}
               T == 1 .. Limit[b.kind]
               f == [h \in S |-> h.count]
    <3>1. Limit[b.kind] \in Nat BY LimitAssumption DEF Buckets
    <3>2. \A h \in S : h.count \in Nat \ {0} /\ h.count <= Limit[b.kind]
      BY <1>1 DEF Passed, HitsOf, IInv, TypeOK
    <3>3. \A g, h \in S : g.count = h.count => g = h
      BY <1>1, <2>1 DEF Passed, HitsOf, IInv, OnTimeHitsDiffer, Failures
    <3>4. f \in Injection(S, T)
      <4>1. f \in [S -> T] BY <3>1, <3>2
      <4>2. \A g, h \in S : f[g] = f[h] => g = h BY <3>3
      <4>. QED BY <4>1, <4>2 DEF Injection, IsInjective
    <3>5. IsFiniteSet(T) /\ Cardinality(T) = Limit[b.kind]
      <4>1. 1 \in Int /\ Limit[b.kind] \in Int /\ ~(1 > Limit[b.kind]) BY LimitAssumption DEF Buckets
      <4>2. Cardinality(T) = Limit[b.kind] - 1 + 1 /\ IsFiniteSet(T) BY <4>1, FS_Interval
      <4>. QED BY <4>1, <4>2
    <3> HIDE DEF S, T, f
    <3>6. Cardinality(S) <= Cardinality(T) BY <3>4, <3>5, FS_Injection
    <3>. QED BY <3>5, <3>6 DEF S
  <2>2. backend = "sqlite" => \A h \in past.hits : h.bucket.kind = "attempt" => h.onTime
    BY <1>1 DEF IInv, AttemptsAreOnTime
  <2>. QED BY <2>1, <2>2 DEF LimitsHold
<1>. QED BY <1>1, Invariance, PTL

\* login.js answers 429 for the address alone, and clears only failures: who is
\* refused was counted after as many as the limit, in a bucket that decides, which
\* for a login is one of its own address.
THEOREM RefusalsCorrect == Spec => []RefusalsAreEarned
<1>1. ASSUME IInv, NEW r \in Requests, req[r].at = "refused"
      PROVE  \E h \in past.hits :
               /\ h.req = r
               /\ h.bucket \in {Bucket(req[r], k) : k \in Kinds \ {"userFailures"}}
               /\ Cardinality(HitsOf(h.bucket, h.start)) > Limit[h.bucket.kind]
               /\ (\E g \in past.hits : g.req = r /\ g.bucket.kind = "attempt") =>
                    h.bucket.kind \in IpKinds
  <2>1. PICK h \in past.hits : h.req = r /\ h.bucket \in Own(req[r]) /\ h.count > Limit[h.bucket.kind]
    BY <1>1 DEF IInv, OverIsEarned, IsOver
  <2>2. h.count \in Nat /\ Limit[h.bucket.kind] \in Nat
    BY <1>1, LimitAssumption DEF IInv, TypeOK, Buckets
  <2>3. Cardinality(HitsOf(h.bucket, h.start)) \in Nat BY <1>1, HitsOfFinite
  <2>4. h.count <= Cardinality(HitsOf(h.bucket, h.start)) BY <1>1 DEF IInv, CountsAreHits
  <2>5. Cardinality(HitsOf(h.bucket, h.start)) > Limit[h.bucket.kind] BY <2>1, <2>2, <2>3, <2>4
  <2>6. h.bucket.kind # "userFailures" BY <2>1 DEF Own, Bucket
  <2>7. (\E g \in past.hits : g.req = r /\ g.bucket.kind = "attempt") => h.bucket.kind \in IpKinds
    BY <1>1, <2>1, <2>6 DEF IInv, LoginsStayLogins, ShortKinds, IpKinds
  <2>. QED BY <2>1, <2>5, <2>7 DEF Own
<1>2. IInv => RefusalsAreEarned BY <1>1 DEF RefusalsAreEarned
<1>. QED BY <1>2, Invariance, PTL
=============================================================================
