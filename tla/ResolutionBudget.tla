--------------------------- MODULE ResolutionBudget ---------------------------
(***************************************************************************)
(* The budget of outgoing resolution fetches, the class ResolutionBudget of *)
(* packages/trust-layer/src/net/resolution-budget.ts with the index of idle *)
(* buckets it evicts from.  A call is charged, before its fetch, to one or  *)
(* two client buckets and one origin bucket of the current time window.     *)
(*                                                                          *)
(* All of fetch() up to its only await runs without interruption, and so    *)
(* does all that follows it: a call is one step (refused or admitted) and   *)
(* its end another.  Buckets are objects that calls keep while they wait.   *)
(* Their field order, from a counter that never goes back, tells them apart.*)
(* The window of the time, clock, runs ahead of the window of the table.    *)
(***************************************************************************)
EXTENDS Integers, FiniteSets

CONSTANTS
    Clients,            \* keys of client buckets, "client:..."
    Origins,            \* keys of origin buckets, "origin:..."
    Requests,           \* calls of fetch(), each made once
    ClientAttempts, ClientBytes,    \* the quota of a client in a window
    OriginAttempts, OriginBytes,    \* the quota of an origin
    MaxBuckets,
    MaxTotal, MaxPerClient, MaxPerOrigin,   \* fetches in flight
    Caps,               \* the body limits calls come with
    MaxClock,           \* bound: the last window that time reaches
    None                \* no bucket, no entry, no fetch

Keys == Clients \cup Origins

\* The constructor refuses other numbers, and fetch() other caps.
ASSUME OptionsAssumption ==
    /\ {ClientAttempts, ClientBytes, OriginAttempts, OriginBytes} \subseteq Nat \ {0}
    /\ {MaxBuckets, MaxTotal, MaxPerClient, MaxPerOrigin} \subseteq Nat \ {0}
    /\ MaxBuckets >= 2
    /\ Caps \subseteq Nat \ {0}
    /\ MaxClock \in Nat

\* A key starts with "client:" or with "origin:".
ASSUME KeysAssumption == Clients \cap Origins = {}

Buckets == [attempts : Nat, bytes : Int, order : Nat, denied : BOOLEAN]
Entries == [attempts : Nat, bytes : Int, order : Nat]

\* What a call names: a client under its present and perhaps its previous
\* secret, and an origin.
Calls == {{a, b, o} : a \in Clients, b \in Clients, o \in Origins}

\* A fetch knows the bucket it was charged to for each of its keys.
Fetches == [held : [Keys -> Nat \cup {None}], cap : Caps, window : Int]

ASSUME NoneAssumption == None \notin Buckets \cup Entries \cup Fetches \cup Nat

VARIABLES
    clock,      \* the window of the present time
    window,     \* the window of the table, -1 before the first call
    sequence,   \* the order of the next bucket
    buckets,    \* key -> bucket or None
    idle,       \* key -> its entry in the index, or None
    active,     \* fetches in flight
    permits,    \* key -> those of them that count against it
    made,       \* the calls that were made
    fetches     \* call -> its fetch in flight, or None

vars == <<clock, window, sequence, buckets, idle, active, permits, made, fetches>>

AttemptQuota(k) == IF k \in Clients THEN ClientAttempts ELSE OriginAttempts
ByteQuota(k) == IF k \in Clients THEN ClientBytes ELSE OriginBytes
PermitLimit(k) == IF k \in Clients THEN MaxPerClient ELSE MaxPerOrigin

Init ==
    /\ clock = 0
    /\ window = -1
    /\ sequence = 0
    /\ buckets = [k \in Keys |-> None]
    /\ idle = [k \in Keys |-> None]
    /\ active = 0
    /\ permits = [k \in Keys |-> 0]
    /\ made = {}
    /\ fetches = [r \in Requests |-> None]

Tick ==
    /\ clock < MaxClock
    /\ clock' = clock + 1
    /\ UNCHANGED <<window, sequence, buckets, idle, active, permits, made, fetches>>

-----------------------------------------------------------------------------

\* A call in a new window starts with an empty table and an empty index.
Table == IF clock = window THEN buckets ELSE [k \in Keys |-> None]
Index == IF clock = window THEN idle ELSE [k \in Keys |-> None]

Fresh(K) == {k \in K : Table[k] = None}
Live == {k \in Keys : Table[k] # None}
Attempts(k) == IF Table[k] = None THEN 0 ELSE Table[k].attempts
Bytes(k) == IF Table[k] = None THEN 0 ELSE Table[k].bytes
Denied(k) == IF Table[k] = None THEN FALSE ELSE Table[k].denied

\* Mutant of Spent: the body limit of the call is not counted in advance.
SpentWithoutCap(k, cap) == Attempts(k) >= AttemptQuota(k) \/ Bytes(k) >= ByteQuota(k)

Spent(k, cap) == Attempts(k) >= AttemptQuota(k) \/ Bytes(k) + cap > ByteQuota(k)

\* Mutant of Eligible: a refused bucket may be evicted.
EligibleDenied(k, b, inUse) ==
    b.attempts < AttemptQuota(k) /\ b.bytes < ByteQuota(k) /\ inUse = 0

Eligible(k, b, inUse) ==
    /\ ~b.denied
    /\ b.attempts < AttemptQuota(k)
    /\ b.bytes < ByteQuota(k)
    /\ inUse = 0

EntryOf(b) == [attempts |-> b.attempts, bytes |-> b.bytes, order |-> b.order]

\* Mutant of Reindexed: the counts as they were before the refund.
ReindexedBefore(k, b, inUse) ==
    IF Eligible(k, b, inUse) /\ buckets[k] # None THEN EntryOf(buckets[k]) ELSE None

\* index(): what becomes of the entry of k.
Reindexed(k, b, inUse) == IF Eligible(k, b, inUse) THEN EntryOf(b) ELSE None

Less(e, f) ==
    \/ e.attempts < f.attempts
    \/ e.attempts = f.attempts /\ e.bytes < f.bytes
    \/ e.attempts = f.attempts /\ e.bytes = f.bytes /\ e.order < f.order

Without(index, K) == [k \in Keys |-> IF k \in K THEN None ELSE index[k]]
Indexed(index) == {k \in Keys : index[k] # None}

\* Every call in a window that the table is not of begins with a new table, and
\* every call numbers the buckets it misses, used or not.
Called(r, K) ==
    /\ r \notin made
    /\ made' = made \cup {r}
    /\ window' = clock
    /\ sequence' = sequence + Cardinality(Fresh(K))
    /\ clock' = clock

\* The clients are looked at first, and the origin if they all pass.  A bucket
\* that was only made for the call is dropped with its mark.
RefuseSpent(r, K, cap) ==
    LET spentClients == {k \in K \cap Clients : Spent(k, cap)}
        spent == IF spentClients # {} THEN spentClients ELSE {k \in K : Spent(k, cap)}
    IN  /\ Called(r, K)
        /\ spent # {}
        /\ buckets' = [k \in Keys |-> IF k \in spent /\ Table[k] # None
                                      THEN [Table[k] EXCEPT !.denied = TRUE] ELSE Table[k]]
        /\ idle' = Without(Index, spent)
        /\ UNCHANGED <<active, permits, fetches>>

HasQuota(K, cap) == \A k \in K : ~Spent(k, cap)
HasPermits(K) == active < MaxTotal /\ \A k \in K : permits[k] < PermitLimit(k)

RefuseBusy(r, K, cap) ==
    /\ Called(r, K)
    /\ HasQuota(K, cap)
    /\ ~HasPermits(K)
    /\ buckets' = Table
    /\ idle' = Index
    /\ UNCHANGED <<active, permits, fetches>>

\* How many buckets have to go.
Needed(K) == Cardinality(Live) + Cardinality(Fresh(K)) - MaxBuckets

\* Too few idle buckets besides those of the call, whose entries are put back.
RefuseFull(r, K, cap) ==
    /\ Called(r, K)
    /\ HasQuota(K, cap)
    /\ HasPermits(K)
    /\ Needed(K) > Cardinality(Indexed(Without(Index, K)))
    /\ Needed(K) > 0
    /\ buckets' = Table
    /\ idle' = [k \in Keys |-> IF k \in K /\ Table[k] # None
                               THEN Reindexed(k, Table[k], permits[k])
                               ELSE Without(Index, K)[k]]
    /\ UNCHANGED <<active, permits, fetches>>

\* The buckets that pop() takes: the lowest, as many as needed.
Evicted(index, n, E) ==
    /\ E \subseteq Indexed(index)
    /\ Cardinality(E) = IF n > 0 THEN n ELSE 0
    /\ \A k \in E, l \in Indexed(index) \ E : Less(index[k], index[l])

\* The orders of the buckets a call makes: the clients' before the origin's, and
\* the two clients come in either order.
Numbered(K, number) ==
    \A k, l \in K : k # l =>
        /\ number[k] # number[l]
        /\ l \in Origins => number[k] < number[l]

Charged(k, cap, order) ==
    [attempts |-> Attempts(k) + 1, bytes |-> Bytes(k) + cap, order |-> order,
     denied |-> Denied(k)]

\* Both scopes are charged before the fetch, after room was made for them.
Admit(r, K, cap) ==
    /\ Called(r, K)
    /\ HasQuota(K, cap)
    /\ HasPermits(K)
    /\ \E number \in [Fresh(K) -> sequence..sequence + Cardinality(Fresh(K)) - 1],
          E \in SUBSET Indexed(Without(Index, K)) :
         LET held == [k \in Keys |-> IF k \in Fresh(K) THEN number[k]
                                ELSE IF k \in K THEN Table[k].order ELSE None]
         IN  /\ Numbered(Fresh(K), number)
             /\ Evicted(Without(Index, K), Needed(K), E)
             /\ buckets' = [k \in Keys |-> IF k \in K THEN Charged(k, cap, held[k])
                                           ELSE IF k \in E THEN None ELSE Table[k]]
             /\ idle' = Without(Index, K \cup E)
             /\ fetches' = [fetches EXCEPT ![r] = [held |-> held, cap |-> cap, window |-> clock]]
    /\ active' = active + 1
    /\ permits' = [k \in Keys |-> IF k \in K THEN permits[k] + 1 ELSE permits[k]]

-----------------------------------------------------------------------------

KeysOf(r) == {k \in Keys : fetches[r].held[k] # None}

\* Mutant of Holds: whatever bucket the key has now.
HoldsKey(r, k) == k \in KeysOf(r) /\ buckets[k] # None

\* The bucket of k in the table is the very one fetch r was charged to.
Holds(r, k) == k \in KeysOf(r) /\ buckets[k] # None /\ buckets[k].order = fetches[r].held[k]

\* Mutant of Finish: the permit goes with the bucket it was taken with.
FinishKeepsPermits(r, refund) ==
    /\ fetches[r] # None
    /\ active' = active - 1
    /\ permits' = [k \in Keys |-> IF Holds(r, k) THEN permits[k] - 1 ELSE permits[k]]
    /\ buckets' = [k \in Keys |-> IF Holds(r, k)
                                  THEN [buckets[k] EXCEPT !.bytes = @ - refund] ELSE buckets[k]]
    /\ idle' = [k \in Keys |-> IF Holds(r, k)
                               THEN Reindexed(k, buckets'[k], permits'[k]) ELSE idle[k]]
    /\ fetches' = [fetches EXCEPT ![r] = None]
    /\ UNCHANGED <<clock, window, sequence, made>>

\* The fetch ends.  A good answer gives back the bytes it did not need, another
\* none; the permits come back in any case, and index() looks at the buckets
\* that are still the ones in the table.
Finish(r, refund) ==
    /\ fetches[r] # None
    /\ active' = active - 1
    /\ permits' = [k \in Keys |-> IF k \in KeysOf(r) THEN permits[k] - 1 ELSE permits[k]]
    /\ buckets' = [k \in Keys |-> IF Holds(r, k)
                                  THEN [buckets[k] EXCEPT !.bytes = @ - refund] ELSE buckets[k]]
    /\ idle' = [k \in Keys |-> IF Holds(r, k)
                               THEN Reindexed(k, buckets'[k], permits'[k]) ELSE idle[k]]
    /\ fetches' = [fetches EXCEPT ![r] = None]
    /\ UNCHANGED <<clock, window, sequence, made>>

Next ==
    \/ Tick
    \/ \E r \in Requests, K \in Calls, cap \in Caps :
         RefuseSpent(r, K, cap) \/ RefuseBusy(r, K, cap) \/ RefuseFull(r, K, cap) \/ Admit(r, K, cap)
    \/ \E r \in Requests : fetches[r] # None /\ \E refund \in 0..fetches[r].cap : Finish(r, refund)

Spec == Init /\ [][Next]_vars

-----------------------------------------------------------------------------

TypeOK ==
    /\ clock \in Nat
    /\ window \in Nat \cup {-1}
    /\ sequence \in Nat
    /\ buckets \in [Keys -> Buckets \cup {None}]
    /\ idle \in [Keys -> Entries \cup {None}]
    /\ active \in Nat
    /\ permits \in [Keys -> Nat]
    /\ made \in SUBSET Requests
    /\ fetches \in [Requests -> Fetches \cup {None}]

Open == {r \in Requests : fetches[r] # None}
Users(k) == {r \in Open : k \in KeysOf(r)}
Holders(k) == {r \in Open : Holds(r, k)}

\* Whatever window a fetch began in, and however it ends, it has one permit of
\* each scope until its end and none after: no permit leaks, and none is counted
\* twice, so that the limits hold for the fetches that are really in flight.
PermitsAreExact ==
    /\ IsFiniteSet(Open)
    /\ active = Cardinality(Open)
    /\ active <= MaxTotal
    /\ \A k \in Keys :
         /\ permits[k] = Cardinality(Users(k))
         /\ permits[k] <= PermitLimit(k)

\* A fetch of the window of the table finds the buckets it was charged to still
\* there, and one of a former window has none in the table.  The refund, made
\* on the object after the await, rests on it.
OpenBucketsAreKept ==
    \A r \in Open : \A k \in KeysOf(r) : Holds(r, k) <=> fetches[r].window = window

\* The index can only evict what it may: each entry is that of a bucket in the
\* table, as it is now, that nobody uses, with quota left and never refused.
IdleIsTrue ==
    \A k \in Indexed(idle) :
        /\ buckets[k] # None
        /\ idle[k] = EntryOf(buckets[k])
        /\ Eligible(k, buckets[k], permits[k])

\* Every bucket has been charged for the fetches that hold it, with all the
\* bytes they may still bring, and never beyond its quota.
Reserved(k) == UNION {{r} \X (1..fetches[r].cap) : r \in Holders(k)}
ChargesAreCovered ==
    \A k \in Keys : buckets[k] # None =>
        /\ Cardinality(Holders(k)) <= buckets[k].attempts
        /\ IsFiniteSet(Reserved(k)) /\ Cardinality(Reserved(k)) <= buckets[k].bytes
        /\ buckets[k].attempts <= AttemptQuota(k)
        /\ buckets[k].bytes <= ByteQuota(k)

\* The table stays within its bound, though a call adds up to three buckets.
TableIsBounded ==
    LET kept == {k \in Keys : buckets[k] # None} IN
    IsFiniteSet(kept) /\ Cardinality(kept) <= MaxBuckets

\* A scope that was used up or refused stays so to the end of its window: no
\* other traffic makes the table forget it, and nothing is uncharged but bytes.
SpentScopesArePinned ==
    [][\A k \in Keys :
          (window' = window /\ buckets[k] # None
             /\ (buckets[k].denied \/ buckets[k].attempts = AttemptQuota(k))) =>
              /\ buckets'[k] # None
              /\ buckets'[k].order = buckets[k].order
              /\ buckets'[k].attempts >= buckets[k].attempts
              /\ buckets[k].denied => buckets'[k].denied]_vars

\* The end of a fetch of a former window touches neither table nor index.
LateEndsChangeNothing ==
    [][\A r \in Requests :
          (fetches[r] # None /\ fetches'[r] = None /\ fetches[r].window # window) =>
              UNCHANGED <<buckets, idle>>]_vars

\* Fetches are of past windows or this one, and their buckets were numbered.
FetchesArePast ==
    /\ window <= clock
    /\ Open \subseteq made
    /\ \A r \in Open : fetches[r].window <= window
    /\ \A r \in Open : \A k \in KeysOf(r) : fetches[r].held[k] < sequence
    /\ \A k \in Keys : buckets[k] # None => buckets[k].order < sequence

\* The inductive invariant: the properties and FetchesArePast.
IInv ==
    /\ TypeOK
    /\ FetchesArePast
    /\ PermitsAreExact
    /\ OpenBucketsAreKept
    /\ IdleIsTrue
    /\ ChargesAreCovered
    /\ TableIsBounded

=============================================================================
