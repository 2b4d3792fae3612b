------------------------ MODULE ResolutionBudgetProofs ------------------------
(***************************************************************************)
(* Proofs of the safety properties of ResolutionBudget for any number of    *)
(* keys and calls and any quotas and limits.                                *)
(***************************************************************************)
EXTENDS ResolutionBudget, FiniteSetTheorems, TLAPS

\* Holds, of the table a call would work on now.
HoldsNow(r, k) == k \in KeysOf(r) /\ Table[k] # None /\ Table[k].order = fetches[r].held[k]
HoldersNow(k) == {r \in Open : HoldsNow(r, k)}
ReservedNow(k) == UNION {{r} \X (1..fetches[r].cap) : r \in HoldersNow(k)}

LEMMA BucketFields ==
    ASSUME NEW b \in Buckets
    PROVE  /\ b # None
           /\ b.attempts \in Nat /\ b.bytes \in Int /\ b.order \in Nat /\ b.denied \in BOOLEAN
           /\ EntryOf(b) \in Entries /\ EntryOf(b) # None
BY NoneAssumption DEF Buckets, EntryOf, Entries

LEMMA MakingABucket ==
    ASSUME NEW a \in Nat, NEW b \in Int, NEW o \in Nat, NEW d \in BOOLEAN
    PROVE  LET c == [attempts |-> a, bytes |-> b, order |-> o, denied |-> d] IN
           /\ c \in Buckets /\ c.order = o /\ c.denied = d
           /\ c.attempts = a /\ c.bytes = b
BY DEF Buckets

\* Denying a bucket changes nothing else of it.
LEMMA Denying ==
    ASSUME NEW b \in Buckets
    PROVE  LET c == [b EXCEPT !.denied = TRUE] IN
           /\ c \in Buckets /\ c.denied = TRUE
           /\ c.attempts = b.attempts /\ c.bytes = b.bytes /\ c.order = b.order
BY DEF Buckets

\* A refund changes nothing but the bytes.
LEMMA Refunding ==
    ASSUME NEW b \in Buckets, NEW n \in Int
    PROVE  LET c == [b EXCEPT !.bytes = @ - n] IN
           /\ c \in Buckets /\ c.bytes = b.bytes - n
           /\ c.attempts = b.attempts /\ c.denied = b.denied /\ c.order = b.order
BY DEF Buckets

LEMMA FetchFields ==
    ASSUME TypeOK, NEW r \in Open
    PROVE  /\ fetches[r] # None /\ fetches[r] \in Fetches
           /\ fetches[r].cap \in Nat \ {0} /\ fetches[r].window \in Int
           /\ \A k \in KeysOf(r) : k \in Keys /\ fetches[r].held[k] \in Nat
<1>1. fetches[r] \in Fetches /\ fetches[r] # None
  BY DEF TypeOK, Open
<1>2. fetches[r].held \in [Keys -> Nat \cup {None}] /\ fetches[r].cap \in Caps /\ fetches[r].window \in Int
  BY <1>1 DEF Fetches
<1> QED
  BY <1>1, <1>2, OptionsAssumption DEF KeysOf

\* The three or two keys of a call.
LEMMA CallFacts ==
    ASSUME NEW K \in Calls
    PROVE  /\ K \subseteq Keys /\ IsFiniteSet(K)
           /\ IsFiniteSet(Fresh(K)) /\ Cardinality(Fresh(K)) \in Nat
<1>1. PICK a \in Clients, b \in Clients, o \in Origins : K = {a, b, o}
  BY DEF Calls
<1>2. IsFiniteSet({a} \cup {b}) /\ IsFiniteSet(({a} \cup {b}) \cup {o})
  BY FS_Singleton, FS_AddElement
<1>3. K = ({a} \cup {b}) \cup {o}
  BY <1>1
<1>4. K \subseteq Keys /\ IsFiniteSet(K)
  BY <1>1, <1>2, <1>3 DEF Keys
<1>5. Fresh(K) \subseteq K
  BY DEF Fresh
<1> QED
  BY <1>4, <1>5, FS_Subset, FS_CardinalityType

\* The invariant as a call finds it: of the present table and index, be they
\* those of the last call or new ones.
LEMMA TableFacts ==
    ASSUME IInv
    PROVE  /\ Table \in [Keys -> Buckets \cup {None}] /\ Index \in [Keys -> Entries \cup {None}]
           /\ \A k \in Keys : Table[k] # None => Table[k].order < sequence
           /\ \A r \in Open : \A k \in KeysOf(r) : HoldsNow(r, k) <=> fetches[r].window = clock
           /\ \A k \in Keys : Index[k] # None =>
                /\ Table[k] # None
                /\ Index[k] = EntryOf(Table[k])
                /\ Eligible(k, Table[k], permits[k])
           /\ \A k \in Keys : Table[k] # None =>
                /\ Cardinality(HoldersNow(k)) <= Table[k].attempts
                /\ IsFiniteSet(ReservedNow(k)) /\ Cardinality(ReservedNow(k)) <= Table[k].bytes
                /\ Table[k].attempts <= AttemptQuota(k)
                /\ Table[k].bytes <= ByteQuota(k)
           /\ IsFiniteSet(Live) /\ Cardinality(Live) <= MaxBuckets
           /\ \A r \in Open : fetches[r].window <= clock
<1>0. \A r \in Open : fetches[r].window \in Int
  BY FetchFields DEF IInv
<1>1. CASE clock = window
  <2>1. Table = buckets /\ Index = idle
    BY <1>1 DEF Table, Index
  <2>2. \A r, k : HoldsNow(r, k) <=> Holds(r, k)
    BY <2>1 DEF HoldsNow, Holds
  <2>3. \A k : HoldersNow(k) = Holders(k)
    BY <2>2 DEF HoldersNow, Holders
  <2>4. \A k : ReservedNow(k) = Reserved(k)
    BY <2>3 DEF ReservedNow, Reserved
  <2>5. Live = {k \in Keys : buckets[k] # None}
    BY <2>1 DEF Live
  <2>6. \A k \in Keys : idle[k] # None => k \in Indexed(idle)
    BY DEF Indexed
  <2>7. /\ Table \in [Keys -> Buckets \cup {None}] /\ Index \in [Keys -> Entries \cup {None}]
        /\ \A k \in Keys : Table[k] # None => Table[k].order < sequence
        /\ \A r \in Open : fetches[r].window <= clock
    BY <1>1, <2>1 DEF IInv, TypeOK, FetchesArePast
  <2>8. \A r \in Open : \A k \in KeysOf(r) : HoldsNow(r, k) <=> fetches[r].window = clock
    BY <1>1, <2>2 DEF IInv, OpenBucketsAreKept
  <2>9. \A k \in Keys : Index[k] # None =>
                /\ Table[k] # None
                /\ Index[k] = EntryOf(Table[k])
                /\ Eligible(k, Table[k], permits[k])
    BY <2>1, <2>6 DEF IInv, IdleIsTrue
  <2>10. \A k \in Keys : Table[k] # None =>
                /\ Cardinality(HoldersNow(k)) <= Table[k].attempts
                /\ IsFiniteSet(ReservedNow(k)) /\ Cardinality(ReservedNow(k)) <= Table[k].bytes
                /\ Table[k].attempts <= AttemptQuota(k)
                /\ Table[k].bytes <= ByteQuota(k)
    BY <2>1, <2>3, <2>4 DEF IInv, ChargesAreCovered
  <2>11. IsFiniteSet(Live) /\ Cardinality(Live) <= MaxBuckets
    BY <2>5 DEF IInv, TableIsBounded
  <2> QED
    BY <2>7, <2>8, <2>9, <2>10, <2>11
<1>2. CASE clock # window
  <2>1. /\ Table = [k \in Keys |-> None] /\ Index = [k \in Keys |-> None]
        /\ \A k \in Keys : Table[k] = None /\ Index[k] = None
    BY <1>2 DEF Table, Index
  <2>2. \A r \in Open : fetches[r].window <= window /\ window < clock /\ fetches[r].window # clock
    BY <1>0, <1>2 DEF IInv, TypeOK, FetchesArePast
  <2>3. \A r \in Open : \A k \in KeysOf(r) : ~HoldsNow(r, k)
    BY <2>1 DEF HoldsNow, KeysOf
  <2>4. Live = {} /\ IsFiniteSet(Live) /\ Cardinality(Live) <= MaxBuckets
    BY <2>1, FS_EmptySet, OptionsAssumption DEF Live
  <2>5. \A r \in Open : fetches[r].window <= clock
    BY <1>0, <2>2 DEF IInv, TypeOK
  <2>6. Table \in [Keys -> Buckets \cup {None}] /\ Index \in [Keys -> Entries \cup {None}]
    BY <2>1
  <2> QED
    BY <2>1, <2>2, <2>3, <2>4, <2>5, <2>6
<1> QED
  BY <1>1, <1>2

LEMMA InitInv == Init => IInv
<1> SUFFICES ASSUME Init PROVE IInv
  OBVIOUS
<1>1. TypeOK
  BY DEF Init, TypeOK
<1>2. Open = {} /\ \A k \in Keys : buckets[k] = None /\ idle[k] = None /\ permits[k] = 0
  BY DEF Init, Open
<1>3. \A k \in Keys : Users(k) = {} /\ PermitLimit(k) \in Nat
  BY <1>2, OptionsAssumption DEF Users, PermitLimit
<1>4. FetchesArePast
  BY <1>2 DEF Init, FetchesArePast
<1>5. PermitsAreExact
  BY <1>2, <1>3, FS_EmptySet, OptionsAssumption DEF Init, PermitsAreExact
<1>6. OpenBucketsAreKept /\ IdleIsTrue /\ ChargesAreCovered
  BY <1>2 DEF OpenBucketsAreKept, IdleIsTrue, ChargesAreCovered, Indexed
<1>7. {k \in Keys : buckets[k] # None} = {}
  BY <1>2
<1>8. TableIsBounded
  BY <1>7, FS_EmptySet, OptionsAssumption DEF TableIsBounded
<1> QED
  BY <1>1, <1>4, <1>5, <1>6, <1>8 DEF IInv

\* A call that is refused leaves the charges alone, and any entries it leaves in
\* the index are true: that is enough for the invariant.
LEMMA RefusalKeeps ==
    ASSUME IInv, NEW r \in Requests, NEW K \in Calls, Called(r, K),
           UNCHANGED <<active, permits, fetches>>,
           buckets' \in [Keys -> Buckets \cup {None}], idle' \in [Keys -> Entries \cup {None}],
           \A k \in Keys : buckets'[k] = None <=> Table[k] = None,
           \A k \in Keys : Table[k] # None =>
               /\ buckets'[k].order = Table[k].order
               /\ buckets'[k].attempts = Table[k].attempts
               /\ buckets'[k].bytes = Table[k].bytes,
           \A k \in Keys : idle'[k] # None =>
               /\ buckets'[k] # None
               /\ idle'[k] = EntryOf(buckets'[k])
               /\ Eligible(k, buckets'[k], permits[k])
    PROVE  IInv'
<1>1. /\ made' = made \cup {r} /\ window' = clock /\ clock' = clock
      /\ sequence' \in Nat /\ sequence' >= sequence
  BY CallFacts DEF Called, IInv, TypeOK
<1>2. /\ Open' = Open /\ \A q \in Open : KeysOf(q)' = KeysOf(q)
      /\ \A k \in Keys : Users(k)' = Users(k)
  BY DEF Open, KeysOf, Users
<1>3. \A q \in Open : \A k \in Keys : Holds(q, k)' <=> HoldsNow(q, k)
  BY <1>2 DEF Holds, HoldsNow
<1>4. \A k \in Keys : Holders(k)' = HoldersNow(k)
  BY <1>2, <1>3 DEF Holders, HoldersNow
<1>5. \A k \in Keys : Reserved(k)' = ReservedNow(k)
  BY <1>4 DEF Reserved, ReservedNow
<1>6. TypeOK'
  BY <1>1 DEF IInv, TypeOK
<1>7. FetchesArePast'
  <2>1. \A q \in Open : \A k \in KeysOf(q) : fetches'[q].held[k] < sequence'
    BY <1>1, FetchFields DEF IInv, FetchesArePast, TypeOK
  <2>2. \A k \in Keys : buckets'[k] # None => buckets'[k].order < sequence'
    BY <1>1, TableFacts, BucketFields DEF IInv, TypeOK
  <2>3. \A q \in Open : fetches'[q].window <= window'
    BY <1>1, TableFacts
  <2> QED
    BY <1>1, <1>2, <2>1, <2>2, <2>3 DEF IInv, TypeOK, FetchesArePast
<1>8. PermitsAreExact'
  BY <1>2 DEF IInv, PermitsAreExact, PermitLimit
<1>9. OpenBucketsAreKept'
  <2>1. \A q \in Open : \A k \in KeysOf(q) : k \in Keys
    BY DEF KeysOf
  <2> QED
    BY <1>1, <1>2, <1>3, <2>1, TableFacts DEF OpenBucketsAreKept
<1>10. IdleIsTrue'
  BY DEF IdleIsTrue, Indexed, Eligible, EntryOf, AttemptQuota, ByteQuota
<1>11. ChargesAreCovered'
  BY <1>4, <1>5, TableFacts DEF ChargesAreCovered, AttemptQuota, ByteQuota
<1>12. {k \in Keys : buckets'[k] # None} = Live
  BY DEF Live
<1>13. TableIsBounded'
  BY <1>12, TableFacts DEF TableIsBounded
<1> QED
  BY <1>6, <1>7, <1>8, <1>9, <1>10, <1>11, <1>13 DEF IInv

LEMMA RefuseSpentKeeps ==
    ASSUME IInv, NEW r \in Requests, NEW K \in Calls, NEW cap \in Caps, RefuseSpent(r, K, cap)
    PROVE  IInv'
<1>1. PICK spent :
          /\ Called(r, K)
          /\ buckets' = [k \in Keys |-> IF k \in spent /\ Table[k] # None
                                        THEN [Table[k] EXCEPT !.denied = TRUE] ELSE Table[k]]
          /\ idle' = Without(Index, spent)
          /\ UNCHANGED <<active, permits, fetches>>
  BY DEF RefuseSpent
<1>2. \A k \in Keys : Table[k] # None =>
          /\ buckets'[k] \in Buckets /\ buckets'[k] # None
          /\ buckets'[k].order = Table[k].order
          /\ buckets'[k].attempts = Table[k].attempts
          /\ buckets'[k].bytes = Table[k].bytes
  <2> SUFFICES ASSUME NEW k \in Keys, Table[k] # None
               PROVE  /\ buckets'[k] \in Buckets /\ buckets'[k] # None
                      /\ buckets'[k].order = Table[k].order
                      /\ buckets'[k].attempts = Table[k].attempts
                      /\ buckets'[k].bytes = Table[k].bytes
    OBVIOUS
  <2>1. Table[k] \in Buckets
    BY TableFacts
  <2>2. buckets'[k] = Table[k] \/ buckets'[k] = [Table[k] EXCEPT !.denied = TRUE]
    BY <1>1
  <2> QED
    BY <2>1, <2>2, Denying, BucketFields
<1>3. \A k \in Keys : Table[k] = None => buckets'[k] = None
  BY <1>1
<1>4. \A k \in Keys : idle'[k] = None \/ (idle'[k] = Index[k] /\ buckets'[k] = Table[k])
  BY <1>1 DEF Without
<1>5. buckets' \in [Keys -> Buckets \cup {None}]
  <2>1. \A k \in Keys : buckets'[k] \in Buckets \cup {None}
    BY <1>2, <1>3
  <2> QED
    BY <1>1, <2>1
<1>6. idle' \in [Keys -> Entries \cup {None}]
  BY <1>1, TableFacts DEF Without
<1>7. \A k \in Keys : idle'[k] # None =>
          /\ buckets'[k] # None
          /\ idle'[k] = EntryOf(buckets'[k])
          /\ Eligible(k, buckets'[k], permits[k])
  BY <1>4, TableFacts
<1> QED
  BY <1>1, <1>2, <1>3, <1>5, <1>6, <1>7, RefusalKeeps

LEMMA RefuseBusyKeeps ==
    ASSUME IInv, NEW r \in Requests, NEW K \in Calls, NEW cap \in Caps, RefuseBusy(r, K, cap)
    PROVE  IInv'
<1>1. Called(r, K) /\ buckets' = Table /\ idle' = Index /\ UNCHANGED <<active, permits, fetches>>
  BY DEF RefuseBusy
<1> QED
  BY <1>1, TableFacts, RefusalKeeps

LEMMA RefuseFullKeeps ==
    ASSUME IInv, NEW r \in Requests, NEW K \in Calls, NEW cap \in Caps, RefuseFull(r, K, cap)
    PROVE  IInv'
<1>1. /\ Called(r, K) /\ buckets' = Table /\ UNCHANGED <<active, permits, fetches>>
      /\ idle' = [k \in Keys |-> IF k \in K /\ Table[k] # None
                                 THEN Reindexed(k, Table[k], permits[k])
                                 ELSE Without(Index, K)[k]]
  BY DEF RefuseFull
<1>2. ASSUME NEW k \in Keys
      PROVE  /\ idle'[k] \in Entries \cup {None}
             /\ idle'[k] # None => /\ buckets'[k] # None
                                   /\ idle'[k] = EntryOf(buckets'[k])
                                   /\ Eligible(k, buckets'[k], permits[k])
  <2>1. CASE k \in K /\ Table[k] # None
    <3>1. Table[k] \in Buckets /\ idle'[k] = Reindexed(k, Table[k], permits[k])
      BY <1>1, <2>1, TableFacts
    <3> QED
      BY <1>1, <2>1, <3>1, BucketFields DEF Reindexed
  <2>2. CASE ~(k \in K /\ Table[k] # None)
    <3>1. idle'[k] = None \/ idle'[k] = Index[k]
      BY <1>1, <2>2 DEF Without
    <3> QED
      BY <1>1, <3>1, TableFacts
  <2> QED
    BY <2>1, <2>2
<1>3. idle' \in [Keys -> Entries \cup {None}]
  BY <1>1, <1>2
<1> QED
  BY <1>1, <1>2, <1>3, TableFacts, RefusalKeeps

\* One more fetch reserves its bytes, a set of the size of its cap apart from
\* the others.
LEMMA OneReservation ==
    ASSUME NEW r, NEW n \in Nat, NEW S, IsFiniteSet(S), \A i \in 1..n : <<r, i>> \notin S
    PROVE  LET T == S \cup ({r} \X (1..n)) IN
           IsFiniteSet(T) /\ Cardinality(T) = Cardinality(S) + n
<1> DEFINE one == {r} \X (1..n)
<1>1. IsFiniteSet({r}) /\ Cardinality({r}) = 1
  BY FS_Singleton
<1>2. IsFiniteSet(1..n) /\ Cardinality(1..n) = n
  <2>1. 1 \in Int /\ n \in Int
    OBVIOUS
  <2>2. IsFiniteSet(1..n) /\ Cardinality(1..n) = IF 1 > n THEN 0 ELSE n - 1 + 1
    BY ONLY <2>1, FS_Interval
  <2> QED
    BY <2>2
<1>3. IsFiniteSet(one) /\ Cardinality(one) = Cardinality({r}) * Cardinality(1..n)
  BY ONLY <1>1, <1>2, FS_Product
<1>4. Cardinality(one) = n
  BY <1>1, <1>2, <1>3
<1>5. S \cap one = {}
  OBVIOUS
<1> HIDE DEF one
<1>6. Cardinality(S) \in Nat /\ Cardinality(S \cap one) = 0
  BY <1>5, FS_EmptySet, FS_CardinalityType
<1>7. IsFiniteSet(S \cup one) /\ Cardinality(S \cup one) = Cardinality(S) + n - 0
  <2>1. /\ IsFiniteSet(S \cup one)
        /\ Cardinality(S \cup one) = Cardinality(S) + Cardinality(one) - Cardinality(S \cap one)
    BY <1>3, FS_Union
  <2> QED
    BY <1>4, <1>6, <2>1
<1> QED
  BY <1>6, <1>7 DEF one

\* What Admit does, key by key.
Admitted(r, K, cap, held, E) ==
    /\ Called(r, K) /\ HasQuota(K, cap) /\ HasPermits(K)
    /\ E \cap K = {} /\ Cardinality(E) = IF Needed(K) > 0 THEN Needed(K) ELSE 0
    /\ \A k \in Keys : held[k] # None <=> k \in K
    /\ \A k \in K : /\ Table[k] # None => held[k] = Table[k].order
                    /\ Table[k] = None => held[k] >= sequence
                    /\ held[k] \in Nat /\ held[k] < sequence'
                    /\ buckets'[k] \in Buckets
                    /\ buckets'[k].order = held[k] /\ buckets'[k].denied = Denied(k)
                    /\ buckets'[k].attempts = Attempts(k) + 1
                    /\ buckets'[k].bytes = Bytes(k) + cap
    /\ buckets' \in [Keys -> Buckets \cup {None}]
    /\ \A k \in Keys \ K : buckets'[k] = IF k \in E THEN None ELSE Table[k]
    /\ idle' = Without(Index, K \cup E)
    /\ fetches' = [fetches EXCEPT ![r] = [held |-> held, cap |-> cap, window |-> clock]]

LEMMA AdmitFacts ==
    ASSUME IInv, NEW r \in Requests, NEW K \in Calls, NEW cap \in Caps, Admit(r, K, cap)
    PROVE  \E held \in [Keys -> Nat \cup {None}], E \in SUBSET Indexed(Index) :
             Admitted(r, K, cap, held, E)
<1>1. PICK number \in [Fresh(K) -> sequence..sequence + Cardinality(Fresh(K)) - 1],
           E \in SUBSET Indexed(Without(Index, K)) :
         LET held == [k \in Keys |-> IF k \in Fresh(K) THEN number[k]
                                     ELSE IF k \in K THEN Table[k].order ELSE None]
         IN  /\ Evicted(Without(Index, K), Needed(K), E)
             /\ buckets' = [k \in Keys |-> IF k \in K THEN Charged(k, cap, held[k])
                                           ELSE IF k \in E THEN None ELSE Table[k]]
             /\ idle' = Without(Index, K \cup E)
             /\ fetches' = [fetches EXCEPT ![r] = [held |-> held, cap |-> cap, window |-> clock]]
  BY DEF Admit
<1> DEFINE held == [k \in Keys |-> IF k \in Fresh(K) THEN number[k]
                                   ELSE IF k \in K THEN Table[k].order ELSE None]
<1>2. /\ sequence \in Nat /\ Cardinality(Fresh(K)) \in Nat /\ K \subseteq Keys
      /\ sequence' = sequence + Cardinality(Fresh(K))
      /\ Called(r, K) /\ HasQuota(K, cap) /\ HasPermits(K)
  BY CallFacts DEF Admit, Called, IInv, TypeOK
<1>3. ASSUME NEW k \in K
      PROVE  /\ Table[k] # None => held[k] = Table[k].order
             /\ Table[k] = None => held[k] >= sequence
             /\ held[k] \in Nat /\ held[k] < sequence'
  <2>1. CASE Table[k] = None
    <3>1. held[k] = number[k] /\ number[k] \in sequence..sequence + Cardinality(Fresh(K)) - 1
      BY <1>2, <2>1 DEF Fresh
    <3> QED
      BY <1>2, <2>1, <3>1
  <2>2. CASE Table[k] # None
    <3>1. held[k] = Table[k].order
      BY <1>2, <2>2 DEF Fresh
    <3>2. Table[k].order \in Nat /\ Table[k].order < sequence
      BY <1>2, <2>2, TableFacts, BucketFields
    <3> QED
      BY <1>2, <2>2, <3>1, <3>2
  <2> QED
    BY <2>1, <2>2
<1>4. \A k \in Keys \ K : held[k] = None
  BY DEF Fresh
<1>5. held \in [Keys -> Nat \cup {None}] /\ \A k \in Keys : held[k] # None <=> k \in K
  BY <1>3, <1>4, NoneAssumption
<1> HIDE DEF held
<1>6. E \in SUBSET Indexed(Index) /\ E \cap K = {}
  BY DEF Indexed, Without
<1>7. Cardinality(E) = IF Needed(K) > 0 THEN Needed(K) ELSE 0
  BY <1>1 DEF Evicted
<1>8. ASSUME NEW k \in K
      PROVE  /\ buckets'[k] \in Buckets
             /\ buckets'[k].order = held[k] /\ buckets'[k].denied = Denied(k)
             /\ buckets'[k].attempts = Attempts(k) + 1
             /\ buckets'[k].bytes = Bytes(k) + cap
  <2>1. buckets'[k] = Charged(k, cap, held[k])
    BY <1>1, <1>2 DEF held
  <2>2. Attempts(k) + 1 \in Nat /\ Bytes(k) + cap \in Int
    BY <1>2, TableFacts, BucketFields, OptionsAssumption DEF Attempts, Bytes
  <2>3. Denied(k) \in BOOLEAN
    <3>1. CASE Table[k] = None
      BY <3>1 DEF Denied
    <3>2. CASE Table[k] # None
      BY <1>2, <3>2, TableFacts, BucketFields DEF Denied
    <3> QED
      BY <3>1, <3>2
  <2> QED
    BY <1>3, <2>1, <2>2, <2>3, MakingABucket DEF Charged
<1>9. \A k \in Keys \ K : buckets'[k] = IF k \in E THEN None ELSE Table[k]
  BY <1>1 DEF held
<1>10. buckets' \in [Keys -> Buckets \cup {None}]
  <2>1. \A k \in Keys : buckets'[k] \in Buckets \cup {None}
    BY <1>8, <1>9, TableFacts
  <2> QED
    BY <1>1, <2>1
<1>11. idle' = Without(Index, K \cup E)
       /\ fetches' = [fetches EXCEPT ![r] = [held |-> held, cap |-> cap, window |-> clock]]
  BY <1>1 DEF held
<1> QED
  BY <1>2, <1>3, <1>5, <1>6, <1>7, <1>8, <1>9, <1>10, <1>11 DEF Admitted

LEMMA AdmitKeeps ==
    ASSUME IInv, NEW r \in Requests, NEW K \in Calls, NEW cap \in Caps, Admit(r, K, cap)
    PROVE  IInv'
<1>0. PICK held \in [Keys -> Nat \cup {None}], E \in SUBSET Indexed(Index) :
          Admitted(r, K, cap, held, E)
  BY AdmitFacts
<1>1. /\ HasQuota(K, cap) /\ HasPermits(K)
      /\ E \cap K = {} /\ Cardinality(E) = IF Needed(K) > 0 THEN Needed(K) ELSE 0
      /\ \A k \in Keys : held[k] # None <=> k \in K
      /\ \A k \in K : /\ Table[k] # None => held[k] = Table[k].order
                      /\ Table[k] = None => held[k] >= sequence
                      /\ held[k] \in Nat /\ held[k] < sequence'
      /\ buckets' \in [Keys -> Buckets \cup {None}]
      /\ \A k \in Keys \ K : buckets'[k] = IF k \in E THEN None ELSE Table[k]
      /\ idle' = Without(Index, K \cup E)
      /\ fetches' = [fetches EXCEPT ![r] = [held |-> held, cap |-> cap, window |-> clock]]
  BY <1>0 DEF Admitted
<1>2. /\ made' = made \cup {r} /\ r \notin made /\ window' = clock /\ clock' = clock
      /\ active' = active + 1
      /\ permits' = [k \in Keys |-> IF k \in K THEN permits[k] + 1 ELSE permits[k]]
      /\ sequence' = sequence + Cardinality(Fresh(K))
      /\ K \subseteq Keys /\ Cardinality(Fresh(K)) \in Nat /\ IsFiniteSet(Fresh(K))
      /\ cap \in Nat \ {0}
  BY CallFacts, OptionsAssumption DEF Admit, Called
<1> DEFINE fetch == [held |-> held, cap |-> cap, window |-> clock]
<1>3. /\ fetch \in Fetches /\ fetch # None
      /\ fetch.held = held /\ fetch.cap = cap /\ fetch.window = clock
  BY NoneAssumption DEF IInv, TypeOK, Fetches
<1>4. /\ fetches' \in [Requests -> Fetches \cup {None}]
      /\ fetches'[r] = fetch /\ \A q \in Requests \ {r} : fetches'[q] = fetches[q]
  BY <1>1, <1>3 DEF IInv, TypeOK
<1>5. r \notin Open /\ Open' = Open \cup {r}
  BY <1>2, <1>3, <1>4 DEF IInv, FetchesArePast, Open
<1>6. KeysOf(r)' = K /\ \A q \in Open : KeysOf(q)' = KeysOf(q) /\ q # r /\ fetches'[q] = fetches[q]
  BY <1>1, <1>2, <1>3, <1>4, <1>5 DEF KeysOf, Open
<1>7. /\ Table \in [Keys -> Buckets \cup {None}]
      /\ \A k \in Keys : Table[k] # None => Table[k] \in Buckets
      /\ sequence \in Nat /\ sequence' \in Nat /\ sequence' >= sequence
      /\ window \in Int /\ clock \in Nat
  BY <1>2, TableFacts DEF IInv, TypeOK
<1> HIDE DEF fetch
<1>8. TypeOK'
  <2>1. idle' \in [Keys -> Entries \cup {None}]
    BY <1>1, TableFacts DEF Without
  <2>2. permits' \in [Keys -> Nat] /\ active' \in Nat /\ made' \in SUBSET Requests
    BY <1>2 DEF IInv, TypeOK
  <2>3. clock' \in Nat /\ window' \in Nat \cup {-1} /\ sequence' \in Nat
    BY <1>2, <1>7
  <2> QED
    BY <1>1, <1>4, <2>1, <2>2, <2>3 DEF TypeOK
<1>9. \A k \in K : /\ buckets'[k] # None /\ buckets'[k].order = held[k]
                   /\ buckets'[k].attempts = Attempts(k) + 1
                   /\ buckets'[k].bytes = Bytes(k) + cap
  BY <1>0, BucketFields DEF Admitted
<1>10. FetchesArePast'
  <2>1. \A q \in Open' : fetches'[q].window <= window'
    <3>1. fetches'[r].window <= window'
      BY <1>2, <1>3, <1>4, <1>7
    <3>2. \A q \in Open : fetches'[q].window <= window'
      BY <1>2, <1>6, TableFacts
    <3> QED
      BY <1>5, <3>1, <3>2
  <2>2. \A q \in Open' : \A k \in KeysOf(q)' : fetches'[q].held[k] < sequence'
    <3>1. \A k \in K : fetches'[r].held[k] < sequence'
      BY <1>1, <1>3, <1>4
    <3>2. \A q \in Open : \A k \in KeysOf(q) : fetches[q].held[k] < sequence'
      BY <1>7, FetchFields DEF IInv, FetchesArePast
    <3> QED
      BY <1>5, <1>6, <3>1, <3>2
  <2>3. \A k \in Keys : buckets'[k] # None => buckets'[k].order < sequence'
    <3>1. \A k \in Keys \ K : buckets'[k] # None => buckets'[k] = Table[k] /\ Table[k].order \in Nat
      BY <1>1, <1>7, BucketFields
    <3>2. \A k \in Keys \ K : buckets'[k] # None => buckets'[k].order < sequence'
      BY <1>7, <3>1, TableFacts
    <3> QED
      BY <1>1, <1>9, <3>2
  <2>4. window' <= clock' /\ Open' \subseteq made'
    BY <1>2, <1>5, <1>7 DEF IInv, FetchesArePast
  <2> QED
    BY <2>1, <2>2, <2>3, <2>4 DEF FetchesArePast
<1>11. PermitsAreExact'
  <2>1. /\ IsFiniteSet(Open) /\ active = Cardinality(Open)
        /\ \A k \in Keys : permits[k] = Cardinality(Users(k)) /\ permits[k] <= PermitLimit(k)
        /\ active \in Nat /\ \A k \in Keys : permits[k] \in Nat /\ PermitLimit(k) \in Nat
    BY OptionsAssumption DEF IInv, TypeOK, PermitsAreExact, PermitLimit
  <2>2. active < MaxTotal /\ \A k \in K : permits[k] < PermitLimit(k)
    BY <1>1 DEF HasPermits
  <2>3. IsFiniteSet(Open') /\ Cardinality(Open') = active'
    BY <1>2, <1>5, <2>1, FS_AddElement
  <2>4. active' <= MaxTotal
    BY <1>2, <2>1, <2>2, OptionsAssumption
  <2>5. ASSUME NEW k \in Keys
        PROVE  permits'[k] = Cardinality(Users(k)') /\ permits'[k] <= PermitLimit(k)
    <3>1. Users(k) \subseteq Open /\ IsFiniteSet(Users(k)) /\ r \notin Users(k)
      BY <1>5, <2>1, FS_Subset DEF Users
    <3>2. Users(k)' = IF k \in K THEN Users(k) \cup {r} ELSE Users(k)
      BY <1>5, <1>6 DEF Users
    <3>3. CASE k \in K
      <4>1. Cardinality(Users(k)') = Cardinality(Users(k)) + 1
        BY <3>1, <3>2, <3>3, FS_AddElement
      <4> QED
        BY <1>2, <2>1, <2>2, <3>3, <4>1
    <3>4. CASE k \notin K
      BY <1>2, <2>1, <3>2, <3>4
    <3> QED
      BY <3>3, <3>4
  <2> QED
    BY <2>3, <2>4, <2>5 DEF PermitsAreExact, PermitLimit
\* Nobody uses a bucket that goes.
<1>12. \A k \in E : k \in Keys /\ Users(k) = {}
  <2>1. \A k \in E : k \in Keys /\ permits[k] = 0
    BY TableFacts DEF Indexed, Eligible
  <2>2. \A k \in E : IsFiniteSet(Users(k)) /\ Cardinality(Users(k)) = 0
    BY <2>1, FS_Subset DEF IInv, PermitsAreExact, Users
  <2> QED
    BY <2>1, <2>2, FS_EmptySet
<1>13. ASSUME NEW q \in Open, NEW k \in Keys PROVE Holds(q, k)' <=> HoldsNow(q, k)
  <2>1. Holds(q, k)' <=> (k \in KeysOf(q) /\ buckets'[k] # None /\ buckets'[k].order = fetches[q].held[k])
    BY <1>6 DEF Holds
  <2>2. CASE k \in K
    <3>1. CASE Table[k] = None
      <4>1. k \in KeysOf(q) => fetches[q].held[k] \in Nat /\ fetches[q].held[k] < sequence
        BY FetchFields DEF IInv, FetchesArePast
      <4>2. buckets'[k].order >= sequence /\ buckets'[k].order \in Nat
        BY <1>1, <1>9, <2>2, <3>1
      <4> QED
        BY <1>7, <2>1, <3>1, <4>1, <4>2 DEF HoldsNow
    <3>2. CASE Table[k] # None
      BY <1>1, <1>9, <2>1, <2>2, <3>2 DEF HoldsNow
    <3> QED
      BY <3>1, <3>2
  <2>3. CASE k \in E
    BY <1>1, <1>12, <2>1, <2>3 DEF HoldsNow, Users
  <2>4. CASE k \notin K /\ k \notin E
    BY <1>1, <2>1, <2>4 DEF HoldsNow
  <2> QED
    BY <2>2, <2>3, <2>4
<1>14. \A k \in Keys : Holds(r, k)' <=> k \in K
  BY <1>3, <1>4, <1>6, <1>9 DEF Holds
<1>15. OpenBucketsAreKept'
  <2>1. \A q \in Open : \A k \in KeysOf(q) : k \in Keys
    BY DEF KeysOf
  <2>2. \A q \in Open : \A k \in KeysOf(q)' : Holds(q, k)' <=> fetches'[q].window = window'
    BY <1>2, <1>6, <1>13, <2>1, TableFacts
  <2>3. \A k \in KeysOf(r)' : Holds(r, k)' /\ fetches'[r].window = window'
    BY <1>2, <1>3, <1>4, <1>6, <1>14
  <2> QED
    BY <1>5, <2>2, <2>3 DEF OpenBucketsAreKept
<1>16. IdleIsTrue'
  <2>1. \A k \in Keys : idle'[k] # None =>
          /\ Index[k] = idle'[k] /\ Index[k] # None /\ buckets'[k] = Table[k] /\ permits'[k] = permits[k]
    BY <1>1, <1>2 DEF Without
  <2>2. \A k \in Keys : idle'[k] # None =>
          /\ buckets'[k] # None /\ idle'[k] = EntryOf(buckets'[k])
          /\ Eligible(k, buckets'[k], permits'[k])
    BY <2>1, TableFacts
  <2> QED
    BY <2>2 DEF IdleIsTrue, Indexed, Eligible, EntryOf, AttemptQuota, ByteQuota
<1>17. ChargesAreCovered'
  <2> SUFFICES ASSUME NEW k \in Keys, buckets'[k] # None
               PROVE  /\ Cardinality(Holders(k)') <= buckets'[k].attempts
                      /\ IsFiniteSet(Reserved(k)') /\ Cardinality(Reserved(k)') <= buckets'[k].bytes
                      /\ buckets'[k].attempts <= AttemptQuota(k)
                      /\ buckets'[k].bytes <= ByteQuota(k)
    BY DEF ChargesAreCovered, AttemptQuota, ByteQuota
  <2>1. CASE k \notin K
    <3>1. buckets'[k] = Table[k]
      BY <1>1, <2>1
    <3>2. Holders(k)' = HoldersNow(k)
      BY <1>5, <1>13, <1>14, <2>1 DEF Holders, HoldersNow
    <3>3. Reserved(k)' = ReservedNow(k)
      BY <1>6, <3>2 DEF Reserved, ReservedNow, HoldersNow
    <3> QED
      BY <3>1, <3>2, <3>3, TableFacts
  <2>2. CASE k \in K
    <3>1. Holders(k)' = HoldersNow(k) \cup {r} /\ r \notin HoldersNow(k) /\ HoldersNow(k) \subseteq Open
      BY <1>5, <1>13, <1>14, <2>2 DEF Holders, HoldersNow
    <3>2. Reserved(k)' = ReservedNow(k) \cup ({r} \X (1..cap))
      <4>1. fetches'[r].cap = cap /\ \A q \in HoldersNow(k) : fetches'[q] = fetches[q]
        BY <1>3, <1>4, <1>6, <3>1
      <4> QED
        BY <3>1, <4>1 DEF Reserved, ReservedNow
    <3>3. \A i \in 1..cap : <<r, i>> \notin ReservedNow(k)
      BY <3>1 DEF ReservedNow
    <3>4. /\ IsFiniteSet(HoldersNow(k)) /\ Cardinality(HoldersNow(k)) \in Nat
          /\ Cardinality(HoldersNow(k)) <= Attempts(k)
          /\ IsFiniteSet(ReservedNow(k)) /\ Cardinality(ReservedNow(k)) \in Nat
          /\ Cardinality(ReservedNow(k)) <= Bytes(k)
      <4>1. IsFiniteSet(HoldersNow(k)) /\ Cardinality(HoldersNow(k)) \in Nat
        BY <3>1, FS_Subset, FS_CardinalityType DEF IInv, PermitsAreExact
      <4>2. CASE Table[k] = None
        <5>1. HoldersNow(k) = {}
          BY <4>2 DEF HoldersNow, HoldsNow
        <5>2. ReservedNow(k) = {}
          BY <5>1 DEF ReservedNow
        <5> QED
          BY <4>1, <4>2, <5>1, <5>2, FS_EmptySet DEF Attempts, Bytes
      <4>3. CASE Table[k] # None
        BY <4>1, <4>3, TableFacts, FS_CardinalityType DEF Attempts, Bytes
      <4> QED
        BY <4>2, <4>3
    <3>5. /\ Cardinality(Holders(k)') = Cardinality(HoldersNow(k)) + 1
          /\ IsFiniteSet(Reserved(k)') /\ Cardinality(Reserved(k)') = Cardinality(ReservedNow(k)) + cap
      <4>1. Cardinality(Holders(k)') = Cardinality(HoldersNow(k)) + 1
        BY <3>1, <3>4, FS_AddElement
      <4>2. cap \in Nat
        BY <1>2
      <4>3. LET T == ReservedNow(k) \cup ({r} \X (1..cap)) IN
            IsFiniteSet(T) /\ Cardinality(T) = Cardinality(ReservedNow(k)) + cap
        BY <3>3, <3>4, <4>2, OneReservation
      <4> QED
        BY <3>2, <4>1, <4>3
    <3>6. /\ Attempts(k) \in Nat /\ Bytes(k) \in Int
          /\ AttemptQuota(k) \in Nat /\ ByteQuota(k) \in Nat
      BY TableFacts, BucketFields, OptionsAssumption DEF Attempts, Bytes, AttemptQuota, ByteQuota
    <3>7. Attempts(k) < AttemptQuota(k) /\ Bytes(k) + cap <= ByteQuota(k)
      BY <1>1, <1>2, <2>2, <3>6 DEF HasQuota, Spent
    <3> QED
      BY <1>2, <1>9, <2>2, <3>4, <3>5, <3>6, <3>7
  <2> QED
    BY <2>1, <2>2
<1>18. TableIsBounded'
  <2> DEFINE kept == {k \in Keys : buckets'[k] # None}
  <2>1. E \subseteq Live /\ IsFiniteSet(Live) /\ Cardinality(Live) \in Nat /\ Cardinality(Live) <= MaxBuckets
    BY TableFacts, FS_CardinalityType DEF Live, Indexed
  <2>2. Live \cap E = E /\ IsFiniteSet(E) /\ Cardinality(E) \in Nat
    BY <2>1, FS_Subset, FS_CardinalityType
  <2>3. IsFiniteSet(Live \ E) /\ Cardinality(Live \ E) = Cardinality(Live) - Cardinality(E)
    BY <2>1, <2>2, FS_Difference
  <2>4. (Live \ E) \cap Fresh(K) = {} /\ kept \subseteq (Live \ E) \cup Fresh(K)
    BY <1>1 DEF Live, Fresh
  <2>5. /\ IsFiniteSet((Live \ E) \cup Fresh(K))
        /\ Cardinality((Live \ E) \cup Fresh(K)) = Cardinality(Live \ E) + Cardinality(Fresh(K)) - 0
    BY <1>2, <2>3, <2>4, FS_Union, FS_EmptySet
  <2>6. /\ IsFiniteSet(kept) /\ Cardinality(kept) \in Nat
        /\ Cardinality(kept) <= Cardinality((Live \ E) \cup Fresh(K))
    BY <2>4, <2>5, FS_Subset, FS_CardinalityType
  <2>7. Cardinality(Live) - Cardinality(E) + Cardinality(Fresh(K)) <= MaxBuckets
    BY <1>1, <1>2, <2>1, <2>2, OptionsAssumption DEF Needed
  <2> QED
    BY <1>2, <2>1, <2>2, <2>3, <2>5, <2>6, <2>7, OptionsAssumption DEF TableIsBounded
<1> QED
  BY <1>8, <1>10, <1>11, <1>15, <1>16, <1>17, <1>18 DEF IInv

\* What Finish does, key by key.
LEMMA FinishFacts ==
    ASSUME IInv, NEW r \in Open, NEW refund \in 0..fetches[r].cap, Finish(r, refund)
    PROVE  /\ refund \in Nat /\ refund <= fetches[r].cap
           /\ buckets' \in [Keys -> Buckets \cup {None}]
           /\ \A k \in Keys : Holds(r, k) =>
                /\ k \in KeysOf(r) /\ buckets[k] \in Buckets /\ buckets'[k] \in Buckets
                /\ buckets'[k] # None
                /\ buckets'[k].order = buckets[k].order
                /\ buckets'[k].attempts = buckets[k].attempts
                /\ buckets'[k].denied = buckets[k].denied
                /\ buckets'[k].bytes = buckets[k].bytes - refund
                /\ idle'[k] = Reindexed(k, buckets'[k], permits'[k])
           /\ \A k \in Keys : ~Holds(r, k) => buckets'[k] = buckets[k] /\ idle'[k] = idle[k]
           /\ \A k \in Keys : permits'[k] = IF k \in KeysOf(r) THEN permits[k] - 1 ELSE permits[k]
<1>1. refund \in Nat /\ refund \in Int /\ refund <= fetches[r].cap
  BY FetchFields DEF IInv
<1>2. /\ buckets' = [k \in Keys |-> IF Holds(r, k)
                                    THEN [buckets[k] EXCEPT !.bytes = @ - refund] ELSE buckets[k]]
      /\ idle' = [k \in Keys |-> IF Holds(r, k)
                                 THEN Reindexed(k, buckets'[k], permits'[k]) ELSE idle[k]]
      /\ permits' = [k \in Keys |-> IF k \in KeysOf(r) THEN permits[k] - 1 ELSE permits[k]]
  BY DEF Finish
<1>3. ASSUME NEW k \in Keys, Holds(r, k)
      PROVE  /\ k \in KeysOf(r) /\ buckets[k] \in Buckets /\ buckets'[k] \in Buckets
             /\ buckets'[k] # None
             /\ buckets'[k].order = buckets[k].order
             /\ buckets'[k].attempts = buckets[k].attempts
             /\ buckets'[k].denied = buckets[k].denied
             /\ buckets'[k].bytes = buckets[k].bytes - refund
             /\ idle'[k] = Reindexed(k, buckets'[k], permits'[k])
  <2>1. k \in KeysOf(r) /\ buckets[k] \in Buckets
    BY <1>3 DEF Holds, IInv, TypeOK
  <2>2. buckets'[k] = [buckets[k] EXCEPT !.bytes = @ - refund]
    BY <1>2, <1>3
  <2>3. idle'[k] = Reindexed(k, buckets'[k], permits'[k])
    BY <1>2, <1>3
  <2> QED
    BY <1>1, <2>1, <2>2, <2>3, Refunding, BucketFields
<1>4. \A k \in Keys : ~Holds(r, k) => buckets'[k] = buckets[k] /\ idle'[k] = idle[k]
  BY <1>2
<1>5. buckets' \in [Keys -> Buckets \cup {None}]
  <2>1. \A k \in Keys : buckets'[k] \in Buckets \cup {None}
    BY <1>3, <1>4 DEF IInv, TypeOK
  <2> QED
    BY <1>2, <2>1
<1> QED
  BY <1>1, <1>2, <1>3, <1>4, <1>5

LEMMA FinishKeeps ==
    ASSUME IInv, NEW r \in Requests, fetches[r] # None,
           NEW refund \in 0..fetches[r].cap, Finish(r, refund)
    PROVE  IInv'
<1>1. /\ r \in Open /\ active' = active - 1 /\ fetches' = [fetches EXCEPT ![r] = None]
      /\ UNCHANGED <<clock, window, sequence, made>>
  BY DEF Finish, Open
<1>2. Open' = Open \ {r} /\ \A q \in Open \ {r} : fetches'[q] = fetches[q] /\ q \in Requests
  BY <1>1 DEF IInv, TypeOK, Open
<1>3. \A q \in Open \ {r} : KeysOf(q)' = KeysOf(q)
  BY <1>2 DEF KeysOf
<1>4. \A k \in Keys : buckets'[k] # None <=> buckets[k] # None
  BY <1>1, FinishFacts DEF Holds
<1>5. \A k \in Keys : buckets[k] # None =>
        buckets'[k].order = buckets[k].order /\ buckets'[k].attempts = buckets[k].attempts
  BY <1>1, FinishFacts
<1>6. \A q \in Open \ {r} : \A k \in Keys : Holds(q, k)' <=> Holds(q, k)
  BY <1>2, <1>3, <1>4, <1>5 DEF Holds
<1>7. PermitsAreExact'
  <2>1. /\ IsFiniteSet(Open) /\ active = Cardinality(Open) /\ active <= MaxTotal
        /\ \A k \in Keys : permits[k] = Cardinality(Users(k)) /\ permits[k] <= PermitLimit(k)
        /\ active \in Nat /\ \A k \in Keys : permits[k] \in Nat /\ PermitLimit(k) \in Nat
        /\ MaxTotal \in Nat
    BY OptionsAssumption DEF IInv, TypeOK, PermitsAreExact, PermitLimit
  <2>2. IsFiniteSet(Open') /\ Cardinality(Open') = active' /\ active' <= MaxTotal
    BY <1>1, <1>2, <2>1, FS_RemoveElement
  <2>3. ASSUME NEW k \in Keys
        PROVE  permits'[k] = Cardinality(Users(k)') /\ permits'[k] <= PermitLimit(k)
    <3>1. IsFiniteSet(Users(k)) /\ Users(k)' = Users(k) \ {r} /\ (r \in Users(k) <=> k \in KeysOf(r))
      BY <1>1, <1>2, <1>3, <2>1, FS_Subset DEF Users
    <3>2. Cardinality(Users(k)') = IF r \in Users(k) THEN Cardinality(Users(k)) - 1
                                   ELSE Cardinality(Users(k))
      BY <3>1, FS_RemoveElement
    <3>3. permits'[k] = IF k \in KeysOf(r) THEN permits[k] - 1 ELSE permits[k]
      BY <1>1, FinishFacts
    <3> QED
      BY <2>1, <3>1, <3>2, <3>3
  <2> QED
    BY <2>2, <2>3 DEF PermitsAreExact, PermitLimit
<1>8. \A k \in Keys : permits'[k] \in Nat
  <2>1. \A k \in Keys : Users(k)' \subseteq Open' /\ IsFiniteSet(Open')
    BY <1>7 DEF Users, PermitsAreExact
  <2> QED
    BY <1>7, <2>1, FS_Subset, FS_CardinalityType DEF PermitsAreExact
<1>9. ASSUME NEW k \in Keys
      PROVE  /\ idle'[k] \in Entries \cup {None}
             /\ idle'[k] # None => /\ buckets'[k] # None
                                   /\ idle'[k] = EntryOf(buckets'[k])
                                   /\ Eligible(k, buckets'[k], permits'[k])
  <2>1. CASE Holds(r, k)
    <3>1. /\ buckets'[k] \in Buckets /\ buckets'[k] # None
          /\ idle'[k] = Reindexed(k, buckets'[k], permits'[k])
      BY <1>1, <2>1, FinishFacts
    <3> QED
      BY <3>1, BucketFields DEF Reindexed
  <2>2. CASE ~Holds(r, k)
    <3>1. idle'[k] = idle[k] /\ buckets'[k] = buckets[k] /\ idle[k] \in Entries \cup {None}
      BY <1>1, <2>2, FinishFacts DEF IInv, TypeOK
    <3>2. ASSUME idle[k] # None
          PROVE  /\ buckets[k] # None /\ idle[k] = EntryOf(buckets[k])
                 /\ Eligible(k, buckets[k], permits[k])
      BY <3>2 DEF IInv, IdleIsTrue, Indexed
    <3>3. ASSUME idle[k] # None PROVE k \notin KeysOf(r)
      <4>1. permits[k] = 0 /\ permits[k] = Cardinality(Users(k)) /\ IsFiniteSet(Open)
        BY <3>2, <3>3 DEF Eligible, IInv, PermitsAreExact
      <4>2. IsFiniteSet(Users(k))
        BY <4>1, FS_Subset DEF Users
      <4>3. Users(k) = {}
        BY <4>1, <4>2, FS_EmptySet
      <4> QED
        BY <1>1, <4>3 DEF Users
    <3>4. ASSUME idle[k] # None PROVE permits'[k] = permits[k]
      BY <1>1, <3>3, <3>4, FinishFacts
    <3> QED
      BY <3>1, <3>2, <3>4
  <2> QED
    BY <2>1, <2>2
<1>10. TypeOK'
  <2>1. idle' \in [Keys -> Entries \cup {None}] /\ permits' \in [Keys -> Nat]
    BY <1>8, <1>9 DEF Finish
  <2>2. active' \in Nat
    BY <1>7, FS_CardinalityType DEF PermitsAreExact
  <2>3. fetches' \in [Requests -> Fetches \cup {None}]
    BY <1>1 DEF IInv, TypeOK
  <2>4. buckets' \in [Keys -> Buckets \cup {None}]
    BY <1>1, FinishFacts
  <2>5. clock' \in Nat /\ window' \in Nat \cup {-1} /\ sequence' \in Nat /\ made' \in SUBSET Requests
    BY <1>1 DEF IInv, TypeOK
  <2> QED
    BY <2>1, <2>2, <2>3, <2>4, <2>5 DEF TypeOK
<1>11. FetchesArePast'
  <2>1. window' <= clock' /\ Open' \subseteq made' /\ \A q \in Open' : fetches'[q].window <= window'
    BY <1>1, <1>2 DEF IInv, FetchesArePast
  <2>2. \A q \in Open' : \A k \in KeysOf(q)' : fetches'[q].held[k] < sequence'
    BY <1>1, <1>2, <1>3 DEF IInv, FetchesArePast
  <2>3. \A k \in Keys : buckets'[k] # None => buckets'[k].order < sequence'
    BY <1>1, <1>4, <1>5 DEF IInv, FetchesArePast
  <2> QED
    BY <2>1, <2>2, <2>3 DEF FetchesArePast
<1>12. OpenBucketsAreKept'
  <2>1. \A q \in Open : \A k \in KeysOf(q) : k \in Keys
    BY DEF KeysOf
  <2> QED
    BY <1>1, <1>2, <1>3, <1>6, <2>1 DEF IInv, OpenBucketsAreKept
<1>13. IdleIsTrue'
  BY <1>9 DEF IdleIsTrue, Indexed, Eligible, EntryOf, AttemptQuota, ByteQuota
<1>14. ChargesAreCovered'
  <2> SUFFICES ASSUME NEW k \in Keys, buckets'[k] # None
               PROVE  /\ Cardinality(Holders(k)') <= buckets'[k].attempts
                      /\ IsFiniteSet(Reserved(k)') /\ Cardinality(Reserved(k)') <= buckets'[k].bytes
                      /\ buckets'[k].attempts <= AttemptQuota(k)
                      /\ buckets'[k].bytes <= ByteQuota(k)
    BY DEF ChargesAreCovered, AttemptQuota, ByteQuota
  <2>1. /\ buckets[k] # None /\ buckets[k] \in Buckets
        /\ Cardinality(Holders(k)) <= buckets[k].attempts
        /\ IsFiniteSet(Reserved(k)) /\ Cardinality(Reserved(k)) <= buckets[k].bytes
        /\ buckets[k].attempts <= AttemptQuota(k) /\ buckets[k].bytes <= ByteQuota(k)
    BY <1>4 DEF IInv, TypeOK, ChargesAreCovered
  <2>2. Holders(k)' = Holders(k) \ {r} /\ Holders(k) \subseteq Open
    BY <1>2, <1>6 DEF Holders
  <2>3. Reserved(k)' = UNION {{q} \X (1..fetches[q].cap) : q \in Holders(k) \ {r}}
    BY <1>2, <2>2 DEF Reserved
  <2>4. CASE ~Holds(r, k)
    <3>1. Holders(k)' = Holders(k)
      BY <2>2, <2>4 DEF Holders
    <3>2. Reserved(k)' = Reserved(k)
      BY <2>2, <2>3, <3>1 DEF Reserved
    <3> QED
      BY <1>1, <2>1, <2>4, <3>1, <3>2, FinishFacts
  <2>5. CASE Holds(r, k)
    <3> DEFINE n == fetches[r].cap
    <3>1. n \in Nat /\ refund \in Nat /\ refund <= n
      BY <1>1, FetchFields, FinishFacts DEF IInv
    <3>2. r \in Holders(k) /\ IsFiniteSet(Holders(k))
      BY <1>1, <2>2, <2>5, FS_Subset DEF Holders, IInv, PermitsAreExact
    <3>3. Cardinality(Holders(k)') = Cardinality(Holders(k)) - 1 /\ Cardinality(Holders(k)) \in Nat
      BY <2>2, <3>2, FS_RemoveElement, FS_CardinalityType
    <3>4. Reserved(k) = Reserved(k)' \cup ({r} \X (1..n))
      BY <2>3, <3>2 DEF Reserved
    <3>5. \A i \in 1..n : <<r, i>> \notin Reserved(k)'
      BY <2>3
    <3>6. IsFiniteSet(Reserved(k)') /\ Cardinality(Reserved(k)') \in Nat
      BY <2>1, <3>4, FS_Subset, FS_CardinalityType
    <3>7. Cardinality(Reserved(k)) = Cardinality(Reserved(k)') + n
      <4> HIDE DEF n
      <4>1. LET T == Reserved(k)' \cup ({r} \X (1..n)) IN
            IsFiniteSet(T) /\ Cardinality(T) = Cardinality(Reserved(k)') + n
        BY <3>1, <3>5, <3>6, OneReservation
      <4> QED
        BY <3>4, <4>1
    <3>8. buckets'[k].attempts = buckets[k].attempts /\ buckets'[k].bytes = buckets[k].bytes - refund
      BY <1>1, <2>5, FinishFacts
    <3>9. /\ buckets[k].attempts \in Nat /\ buckets[k].bytes \in Int
          /\ AttemptQuota(k) \in Nat /\ ByteQuota(k) \in Nat
      BY <2>1, BucketFields, OptionsAssumption DEF AttemptQuota, ByteQuota
    <3> HIDE DEF n
    <3> QED
      BY <2>1, <3>1, <3>3, <3>6, <3>7, <3>8, <3>9
  <2> QED
    BY <2>4, <2>5
<1>15. TableIsBounded'
  <2>1. {k \in Keys : buckets'[k] # None} = {k \in Keys : buckets[k] # None}
    BY <1>4
  <2> QED
    BY <2>1 DEF IInv, TableIsBounded
<1> QED
  BY <1>7, <1>10, <1>11, <1>12, <1>13, <1>14, <1>15 DEF IInv

\* Time alone changes nothing that the invariant speaks of.
LEMMA TickKeeps ==
    ASSUME IInv, Tick \/ UNCHANGED vars
    PROVE  IInv'
<1>1. /\ clock' \in Nat /\ clock' >= clock
      /\ UNCHANGED <<window, sequence, buckets, idle, active, permits, made, fetches>>
  BY DEF Tick, vars, IInv, TypeOK
<1>2. TypeOK'
  BY <1>1 DEF IInv, TypeOK
<1>3. FetchesArePast'
  <2>1. window' <= clock'
    BY <1>1 DEF IInv, TypeOK, FetchesArePast
  <2> QED
    BY <1>1, <2>1 DEF IInv, FetchesArePast, Open, KeysOf
<1>4. PermitsAreExact'
  BY <1>1 DEF IInv, PermitsAreExact, Open, Users, KeysOf, PermitLimit
<1>5. OpenBucketsAreKept'
  BY <1>1 DEF IInv, OpenBucketsAreKept, Open, KeysOf, Holds
<1>6. IdleIsTrue'
  BY <1>1 DEF IInv, IdleIsTrue, Indexed, EntryOf, Eligible, AttemptQuota, ByteQuota
<1>7. ChargesAreCovered'
  <2>1. \A k : Holders(k)' = Holders(k) /\ Reserved(k)' = Reserved(k)
    BY <1>1 DEF Holders, Reserved, Open, Holds, KeysOf
  <2> QED
    BY <1>1, <2>1 DEF IInv, ChargesAreCovered, AttemptQuota, ByteQuota
<1>8. TableIsBounded'
  BY <1>1 DEF IInv, TableIsBounded
<1> QED
  BY <1>2, <1>3, <1>4, <1>5, <1>6, <1>7, <1>8 DEF IInv

\* The steps of the specification, one by one.
LEMMA Steps ==
    ASSUME [Next]_vars
    PROVE  \/ Tick \/ UNCHANGED vars
           \/ \E r \in Requests, K \in Calls, cap \in Caps :
                RefuseSpent(r, K, cap) \/ RefuseBusy(r, K, cap) \/ RefuseFull(r, K, cap)
           \/ \E r \in Requests, K \in Calls, cap \in Caps : Admit(r, K, cap)
           \/ \E r \in Requests : fetches[r] # None /\ \E refund \in 0..fetches[r].cap : Finish(r, refund)
BY DEF Next

LEMMA NextKeeps == IInv /\ [Next]_vars => IInv'
<1> SUFFICES ASSUME IInv, [Next]_vars PROVE IInv'
  OBVIOUS
<1>1. CASE Tick \/ UNCHANGED vars
  BY <1>1, TickKeeps
<1>2. CASE \E r \in Requests, K \in Calls, cap \in Caps :
             RefuseSpent(r, K, cap) \/ RefuseBusy(r, K, cap) \/ RefuseFull(r, K, cap)
  BY <1>2, RefuseSpentKeeps, RefuseBusyKeeps, RefuseFullKeeps
<1>3. CASE \E r \in Requests, K \in Calls, cap \in Caps : Admit(r, K, cap)
  BY <1>3, AdmitKeeps
<1>4. CASE \E r \in Requests : fetches[r] # None /\ \E refund \in 0..fetches[r].cap : Finish(r, refund)
  BY <1>4, FinishKeeps
<1> QED
  BY <1>1, <1>2, <1>3, <1>4, Steps

\* The inductive invariant holds, whatever the quotas, limits and number of keys
\* and calls.
THEOREM Invariance == Spec => []IInv
<1> QED
  BY InitInv, NextKeeps, PTL DEF Spec

\* No permit leaks and none is counted twice, through any change of window and
\* any order in which fetches end (the finally block of fetch()).
THEOREM PermitsCorrect == Spec => []PermitsAreExact
<1>1. IInv => PermitsAreExact
  BY DEF IInv
<1> QED
  BY <1>1, Invariance, PTL

\* The buckets of a fetch in flight are not evicted in its window, and a fetch of
\* a former window has none.
THEOREM KeptCorrect == Spec => []OpenBucketsAreKept
<1>1. IInv => OpenBucketsAreKept
  BY DEF IInv
<1> QED
  BY <1>1, Invariance, PTL

\* The index offers for eviction only what may go, with its present counts.
THEOREM IdleCorrect == Spec => []IdleIsTrue
<1>1. IInv => IdleIsTrue
  BY DEF IInv
<1> QED
  BY <1>1, Invariance, PTL

\* Charges never exceed a quota nor fall below what is in flight, so no refund
\* takes more than was charged.
THEOREM ChargesCorrect == Spec => []ChargesAreCovered
<1>1. IInv => ChargesAreCovered
  BY DEF IInv
<1> QED
  BY <1>1, Invariance, PTL

\* The table stays within its bound.
THEOREM BoundCorrect == Spec => []TableIsBounded
<1>1. IInv => TableIsBounded
  BY DEF IInv
<1> QED
  BY <1>1, Invariance, PTL

\* Nothing of a scope that is used up or was refused is forgotten in its window.
THEOREM PinnedCorrect == Spec => SpentScopesArePinned
<1> DEFINE Spends(k) ==
        (window' = window /\ buckets[k] # None
           /\ (buckets[k].denied \/ buckets[k].attempts = AttemptQuota(k))) =>
            /\ buckets'[k] # None
            /\ buckets'[k].order = buckets[k].order
            /\ buckets'[k].attempts >= buckets[k].attempts
            /\ buckets[k].denied => buckets'[k].denied
<1>1. ASSUME IInv, [Next]_vars, NEW k \in Keys PROVE Spends(k)
  <2> SUFFICES ASSUME window' = window, buckets[k] # None,
                      buckets[k].denied \/ buckets[k].attempts = AttemptQuota(k)
               PROVE  /\ buckets'[k] # None
                      /\ buckets'[k].order = buckets[k].order
                      /\ buckets'[k].attempts >= buckets[k].attempts
                      /\ buckets[k].denied => buckets'[k].denied
    OBVIOUS
  <2>1. buckets[k] \in Buckets /\ buckets[k].attempts \in Nat /\ AttemptQuota(k) \in Nat
    BY <1>1, BucketFields, OptionsAssumption DEF IInv, TypeOK, AttemptQuota
  <2>2. ASSUME NEW r, NEW K, Called(r, K) PROVE Table = buckets
    BY <2>2 DEF Called, Table
  <2>3. CASE Tick \/ UNCHANGED vars
    BY <2>1, <2>3 DEF Tick, vars
  <2>4. ASSUME NEW r \in Requests, NEW K \in Calls, NEW cap \in Caps,
               RefuseSpent(r, K, cap) \/ RefuseBusy(r, K, cap) \/ RefuseFull(r, K, cap)
        PROVE  /\ buckets'[k] # None
               /\ buckets'[k].order = buckets[k].order
               /\ buckets'[k].attempts >= buckets[k].attempts
               /\ buckets[k].denied => buckets'[k].denied
    <3>1. Table = buckets
      BY <2>2, <2>4 DEF RefuseSpent, RefuseBusy, RefuseFull
    <3>2. buckets'[k] = buckets[k] \/ buckets'[k] = [buckets[k] EXCEPT !.denied = TRUE]
      BY <2>4, <3>1 DEF RefuseSpent, RefuseBusy, RefuseFull, IInv, TypeOK
    <3>3. CASE buckets'[k] = buckets[k]
      BY <2>1, <3>3
    <3>4. CASE buckets'[k] = [buckets[k] EXCEPT !.denied = TRUE]
      BY <2>1, <3>4, Denying, BucketFields
    <3> QED
      BY <3>2, <3>3, <3>4
  <2>5. ASSUME NEW r \in Requests, NEW K \in Calls, NEW cap \in Caps, Admit(r, K, cap)
        PROVE  /\ buckets'[k] # None
               /\ buckets'[k].order = buckets[k].order
               /\ buckets'[k].attempts >= buckets[k].attempts
               /\ buckets[k].denied => buckets'[k].denied
    <3>1. PICK held \in [Keys -> Nat \cup {None}], E \in SUBSET Indexed(Index) :
               Admitted(r, K, cap, held, E)
      BY <1>1, <2>5, AdmitFacts
    <3>2. Table = buckets
      BY <2>2, <3>1 DEF Admitted
    <3>3. k \notin E
      <4>1. ASSUME k \in E PROVE Eligible(k, Table[k], permits[k])
        BY <1>1, <4>1, TableFacts DEF Indexed
      <4> QED
        BY <2>1, <3>2, <4>1 DEF Eligible
    <3>4. CASE k \in K
      <4>1. /\ buckets'[k].attempts = buckets[k].attempts + 1
            /\ buckets'[k].order = buckets[k].order
            /\ buckets'[k] \in Buckets
        BY <3>1, <3>2, <3>4 DEF Admitted, Attempts
      <4>2. buckets'[k].denied = buckets[k].denied
        BY <3>1, <3>2, <3>4 DEF Admitted, Denied
      <4> QED
        BY <2>1, <4>1, <4>2, BucketFields
    <3>5. CASE k \notin K
      <4>1. buckets'[k] = buckets[k]
        BY <1>1, <3>1, <3>2, <3>3, <3>5 DEF Admitted
      <4> QED
        BY <2>1, <4>1
    <3> QED
      BY <3>4, <3>5
  <2>6. ASSUME NEW r \in Requests, fetches[r] # None, NEW refund \in 0..fetches[r].cap, Finish(r, refund)
        PROVE  /\ buckets'[k] # None
               /\ buckets'[k].order = buckets[k].order
               /\ buckets'[k].attempts >= buckets[k].attempts
               /\ buckets[k].denied => buckets'[k].denied
    <3>1. r \in Open
      BY <2>6 DEF Open
    <3>2. CASE Holds(r, k)
      <4>1. /\ buckets'[k] # None /\ buckets'[k].order = buckets[k].order
            /\ buckets'[k].attempts = buckets[k].attempts
        BY <1>1, <2>6, <3>1, <3>2, FinishFacts
      <4>2. buckets'[k].denied = buckets[k].denied
        BY <1>1, <2>6, <3>1, <3>2, FinishFacts
      <4> QED
        BY <2>1, <4>1, <4>2
    <3>3. CASE ~Holds(r, k)
      <4>1. buckets'[k] = buckets[k]
        BY <1>1, <2>6, <3>1, <3>3, FinishFacts
      <4> QED
        BY <2>1, <4>1
    <3> QED
      BY <3>2, <3>3
  <2> QED
    BY <1>1, <2>3, <2>4, <2>5, <2>6, Steps
<1>2. IInv /\ [Next]_vars => [\A k \in Keys : Spends(k)]_vars
  BY <1>1
<1> QED
  BY <1>2, Invariance, PTL DEF Spec, SpentScopesArePinned

\* A fetch of a former window ends without a trace in the table and the index.
THEOREM LateEndsCorrect == Spec => LateEndsChangeNothing
<1> DEFINE Late(r) ==
        (fetches[r] # None /\ fetches'[r] = None /\ fetches[r].window # window) =>
            UNCHANGED <<buckets, idle>>
<1>1. ASSUME IInv, [Next]_vars, NEW r \in Requests PROVE Late(r)
  <2> SUFFICES ASSUME fetches[r] # None, fetches'[r] = None, fetches[r].window # window
               PROVE  UNCHANGED <<buckets, idle>>
    OBVIOUS
  <2>1. CASE Tick \/ UNCHANGED vars
    BY <2>1 DEF Tick, vars
  <2>2. ASSUME NEW q \in Requests, NEW K \in Calls, NEW cap \in Caps,
               RefuseSpent(q, K, cap) \/ RefuseBusy(q, K, cap) \/ RefuseFull(q, K, cap)
        PROVE  FALSE
    BY <2>2 DEF RefuseSpent, RefuseBusy, RefuseFull
  <2>3. ASSUME NEW q \in Requests, NEW K \in Calls, NEW cap \in Caps, Admit(q, K, cap)
        PROVE  FALSE
    <3>1. PICK held \in [Keys -> Nat \cup {None}], E \in SUBSET Indexed(Index) :
               Admitted(q, K, cap, held, E)
      BY <1>1, <2>3, AdmitFacts
    <3>2. [held |-> held, cap |-> cap, window |-> clock] # None
      BY <1>1, NoneAssumption DEF IInv, TypeOK, Fetches
    <3> QED
      BY <1>1, <3>1, <3>2 DEF Admitted, IInv, TypeOK
  <2>4. ASSUME NEW q \in Requests, fetches[q] # None, NEW refund \in 0..fetches[q].cap, Finish(q, refund)
        PROVE  UNCHANGED <<buckets, idle>>
    <3>1. q = r /\ r \in Open
      BY <1>1, <2>4 DEF Finish, IInv, TypeOK, Open
    <3>2. \A k \in Keys : ~Holds(r, k)
      BY <1>1, <3>1 DEF IInv, OpenBucketsAreKept, Holds
    <3>3. \A k \in Keys : buckets'[k] = buckets[k] /\ idle'[k] = idle[k]
      BY <1>1, <2>4, <3>1, <3>2, FinishFacts
    <3>4. /\ buckets \in [Keys -> Buckets \cup {None}] /\ buckets' \in [Keys -> Buckets \cup {None}]
          /\ idle \in [Keys -> Entries \cup {None}] /\ idle' \in [Keys -> Entries \cup {None}]
      BY <1>1, NextKeeps DEF IInv, TypeOK
    <3> QED
      BY <3>3, <3>4
  <2> QED
    BY <1>1, <2>1, <2>2, <2>3, <2>4, Steps
<1>2. IInv /\ [Next]_vars => [\A r \in Requests : Late(r)]_vars
  BY <1>1
<1> QED
  BY <1>2, Invariance, PTL DEF Spec, LateEndsChangeNothing

=============================================================================
