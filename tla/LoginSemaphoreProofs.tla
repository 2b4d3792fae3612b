------------------------- MODULE LoginSemaphoreProofs -------------------------
(***************************************************************************)
(* Proofs of the safety properties of LoginSemaphore for any number of      *)
(* logins and any configured limits.                                        *)
(***************************************************************************)
EXTENDS LoginSemaphore, FiniteSetTheorems, SequenceTheorems, TLAPS

LEMMA LimitsAreNumbers == Limit \in Nat \ {0} /\ QueueMax \in Nat
<1>1. \A x \in 1..64 : x \in Nat \ {0}
  OBVIOUS
<1>2. \A x \in 0..1024 : x \in Nat
  OBVIOUS
<1> QED
  BY <1>1, <1>2 DEF Limit, QueueMax

\* What the queue looks like to a proof.
LEMMA QueueFacts ==
    ASSUME IInv
    PROVE  /\ queue \in Seq(Requests) /\ Len(queue) \in Nat
           /\ DOMAIN queue = 1..Len(queue)
           /\ \A i \in 1..Len(queue) : queue[i] \in Requests
           /\ queue # <<>> <=> Len(queue) # 0
BY LenProperties, ElementOfSeq, EmptySeq DEF IInv, TypeOK

\* Under the invariant, a slot that is given back goes to the oldest waiting
\* request, if there is one: the loop of drain() turns at most once.
LEMMA DrainTurnsOnce ==
    ASSUME IInv, NEW r \in holders, NEW n \in 0..Len(queue), Drains(active - 1, n)
    PROVE  n = IF queue = <<>> THEN 0 ELSE 1
<1>1. CASE queue = <<>>
  BY <1>1, QueueFacts
<1>2. CASE queue # <<>>
  <2>1. active = Limit /\ Limit \in Nat \ {0} /\ Len(queue) \in Nat \ {0}
    BY <1>2, LimitsAreNumbers, QueueFacts DEF IInv, NoSlotIsWasted
  <2>2. n # 0
    BY <2>1 DEF Drains
  <2>3. ASSUME n > 1 PROVE FALSE
    <3>1. 1 \in 0..n - 1
      BY <2>3
    <3>2. active - 1 + 1 < Limit
      BY <3>1 DEF Drains
    <3> QED
      BY <2>1, <3>2
  <2> QED
    BY <1>2, <2>2, <2>3
<1> QED
  BY <1>1, <1>2

LEMMA InitInv == Init => IInv
<1> SUFFICES ASSUME Init PROVE IInv
  OBVIOUS
<1>1. TypeOK
  BY EmptySeq DEF Init, TypeOK
<1>2. DOMAIN queue = {} /\ Len(queue) = 0
  BY EmptySeq, LenProperties DEF Init
<1>3. MemoryIsBounded
  BY <1>2, FS_EmptySet, LimitsAreNumbers DEF Init, MemoryIsBounded
<1>4. NoSlotIsWasted /\ AnswersAreTrue
  BY <1>2 DEF Init, NoSlotIsWasted, AnswersAreTrue, Waits
<1> QED
  BY <1>1, <1>3, <1>4 DEF IInv, Init

LEMMA StartKeeps ==
    ASSUME IInv, NEW r \in Requests, Start(r)
    PROVE  IInv'
<1>1. /\ task[r] = "none" /\ answer[r] = "none" /\ ~Waits(r) /\ active < Limit
      /\ active' = active + 1 /\ holders' = holders \cup {r}
      /\ UNCHANGED <<queue, timers, answer>>
      /\ \A q \in Requests : task'[q] = IF q = r THEN "running" ELSE task[q]
  BY DEF Start, New, IInv, TypeOK
<1>2. r \notin holders /\ active \in Nat /\ Limit \in Nat
  BY <1>1, LimitsAreNumbers DEF IInv, TypeOK
<1>3. TypeOK'
  BY <1>1, <1>2 DEF Start, IInv, TypeOK
<1>4. IsFiniteSet(holders') /\ Cardinality(holders') = active + 1
  BY <1>1, <1>2, FS_AddElement DEF IInv, MemoryIsBounded
<1>5. MemoryIsBounded'
  BY <1>1, <1>2, <1>4 DEF IInv, MemoryIsBounded
<1>6. NoSlotIsWasted'
  BY <1>1, <1>2 DEF IInv, NoSlotIsWasted
<1>7. AnswersAreTrue'
  <2>1. \A q \in Requests : Waits(q)' <=> Waits(q)
    BY <1>1 DEF Waits
  <2> QED
    BY <1>1, <2>1 DEF IInv, AnswersAreTrue
<1>8. \A q \in holders' : task'[q] # "none"
  BY <1>1 DEF IInv, TypeOK
<1> QED
  BY <1>3, <1>5, <1>6, <1>7, <1>8 DEF IInv

LEMMA RefuseKeeps ==
    ASSUME IInv, NEW r \in Requests, Refuse(r)
    PROVE  IInv'
<1>1. /\ task[r] = "none" /\ ~Waits(r) /\ UNCHANGED <<active, queue, timers, task, holders>>
      /\ \A q \in Requests : answer'[q] = IF q = r THEN "queue_full" ELSE answer[q]
  BY DEF Refuse, New, IInv, TypeOK
<1>2. TypeOK' /\ MemoryIsBounded' /\ NoSlotIsWasted'
  BY DEF Refuse, IInv, TypeOK, MemoryIsBounded, NoSlotIsWasted
<1>3. AnswersAreTrue'
  <2>1. \A q \in Requests : Waits(q)' <=> Waits(q)
    BY <1>1 DEF Waits
  <2> QED
    BY <1>1, <2>1 DEF IInv, AnswersAreTrue
<1> QED
  BY <1>1, <1>2, <1>3 DEF IInv

LEMMA EnqueueKeeps ==
    ASSUME IInv, NEW r \in Requests, Enqueue(r)
    PROVE  IInv'
<1> DEFINE n == Len(queue) + 1
<1>1. /\ task[r] = "none" /\ answer[r] = "none" /\ ~Waits(r)
      /\ active >= Limit /\ Len(queue) < QueueMax
      /\ queue' = Append(queue, r) /\ timers' = timers \cup {r}
      /\ UNCHANGED <<active, task, holders, answer>>
  BY DEF Enqueue, New
<1>2. /\ queue \in Seq(Requests) /\ Len(queue) \in Nat /\ DOMAIN queue = 1..Len(queue)
      /\ Limit \in Nat /\ QueueMax \in Nat /\ active \in Nat
  BY QueueFacts, LimitsAreNumbers DEF IInv, TypeOK
<1>3. /\ queue' \in Seq(Requests) /\ Len(queue') = n /\ DOMAIN queue' = 1..n
      /\ \A i \in 1..Len(queue) : queue'[i] = queue[i]
      /\ queue'[n] = r
  BY <1>1, <1>2, AppendProperties, LenProperties
<1>4. TypeOK'
  BY <1>1, <1>3 DEF IInv, TypeOK
<1>5. MemoryIsBounded' /\ NoSlotIsWasted'
  BY <1>1, <1>2, <1>3 DEF IInv, MemoryIsBounded, NoSlotIsWasted
<1>6. \A q \in Requests : Waits(q)' <=> (Waits(q) \/ q = r)
  BY <1>2, <1>3 DEF Waits
<1>7. \A i \in 1..Len(queue) : queue[i] # r
  BY <1>1, <1>2 DEF Waits
<1>8. \A i, j \in DOMAIN queue' : queue'[i] = queue'[j] => i = j
  <2>1. \A i, j \in 1..Len(queue) : queue[i] = queue[j] => i = j
    BY <1>2 DEF IInv, AnswersAreTrue
  <2>2. \A i \in 1..n : i \in 1..Len(queue) \/ i = n
    BY <1>2
  <2> QED
    BY <1>3, <1>7, <2>1, <2>2
<1>9. AnswersAreTrue'
  BY <1>1, <1>6, <1>8 DEF IInv, AnswersAreTrue
<1> QED
  BY <1>1, <1>4, <1>5, <1>9 DEF IInv

\* What a timer does, with the place of its request known.
LEMMA TimeoutStep ==
    ASSUME IInv, NEW r \in Requests, Timeout(r)
    PROVE  \E p \in 1..Len(queue) :
             /\ queue[p] = r /\ task[r] = "none" /\ Len(queue) \in Nat \ {0}
             /\ timers' = timers \ {r} /\ UNCHANGED <<active, task, holders>>
             /\ \A q \in Requests : answer'[q] = IF q = r THEN "queue_timeout" ELSE answer[q]
             /\ answer' \in [Requests -> {"none", "result", "queue_full", "queue_timeout"}]
             /\ queue' \in Seq(Requests) /\ Len(queue') = Len(queue) - 1
             /\ DOMAIN queue' = 1..Len(queue')
             /\ \A k \in 1..Len(queue') :
                  queue'[k] = IF k < p THEN queue[k] ELSE queue[k + 1]
<1> DEFINE p == PlaceOf(r)
           n == Len(queue) - 1
<1>1. /\ Waits(r) /\ task[r] = "none" /\ answer[r] = "none"
      /\ timers' = timers \ {r} /\ UNCHANGED <<active, task, holders>>
      /\ \A q \in Requests : answer'[q] = IF q = r THEN "queue_timeout" ELSE answer[q]
      /\ answer' \in [Requests -> {"none", "result", "queue_full", "queue_timeout"}]
  BY DEF Timeout, Settle, IInv, TypeOK, AnswersAreTrue
<1>2. /\ queue \in Seq(Requests) /\ Len(queue) \in Nat /\ DOMAIN queue = 1..Len(queue)
      /\ \A i \in 1..Len(queue) : queue[i] \in Requests
      /\ QueueMax \in Nat
  BY QueueFacts, LimitsAreNumbers
<1>3. p \in 1..Len(queue) /\ queue[p] = r
  BY <1>1, <1>2 DEF Waits, PlaceOf
<1>4. queue' = [k \in 1..n |-> IF k < p THEN queue[k] ELSE queue[k + 1]]
  BY <1>1 DEF Timeout, Without
<1> HIDE DEF p
<1>5. /\ n \in Nat /\ queue' \in Seq(Requests) /\ Len(queue') = n /\ DOMAIN queue' = 1..n
      /\ \A k \in 1..n : queue'[k] = IF k < p THEN queue[k] ELSE queue[k + 1]
  <2>1. n \in Nat /\ \A k \in 1..n : k \in 1..Len(queue) /\ k + 1 \in 1..Len(queue)
    BY <1>2, <1>3
  <2>2. queue' \in [1..n -> Requests]
    BY <1>2, <1>4, <2>1
  <2>3. queue' \in Seq(Requests)
    BY <2>1, <2>2, SeqDef
  <2> QED
    BY <1>4, <2>1, <2>2, <2>3, LenProperties
<1> QED
  BY <1>1, <1>2, <1>3, <1>5

LEMMA TimeoutKeeps ==
    ASSUME IInv, NEW r \in Requests, Timeout(r)
    PROVE  IInv'
<1> DEFINE n == Len(queue) - 1
<1>1. /\ queue \in Seq(Requests) /\ Len(queue) \in Nat /\ DOMAIN queue = 1..Len(queue)
      /\ \A i \in 1..Len(queue) : queue[i] \in Requests
      /\ QueueMax \in Nat
  BY QueueFacts, LimitsAreNumbers
<1>2. PICK p \in 1..Len(queue) :
             /\ queue[p] = r /\ task[r] = "none" /\ Len(queue) \in Nat \ {0}
             /\ timers' = timers \ {r} /\ UNCHANGED <<active, task, holders>>
             /\ \A q \in Requests : answer'[q] = IF q = r THEN "queue_timeout" ELSE answer[q]
             /\ answer' \in [Requests -> {"none", "result", "queue_full", "queue_timeout"}]
             /\ queue' \in Seq(Requests) /\ Len(queue') = Len(queue) - 1
             /\ DOMAIN queue' = 1..Len(queue')
             /\ \A k \in 1..Len(queue') :
                  queue'[k] = IF k < p THEN queue[k] ELSE queue[k + 1]
  BY TimeoutStep
<1>3. queue[p] = r
  BY <1>2
<1>4. n \in Nat
  BY <1>2
<1>5. /\ n \in Nat /\ queue' \in Seq(Requests) /\ Len(queue') = n /\ DOMAIN queue' = 1..n
      /\ \A k \in 1..n : queue'[k] = IF k < p THEN queue[k] ELSE queue[k + 1]
  BY <1>2, <1>4
<1> HIDE DEF n
<1>6. \A i, j \in 1..Len(queue) : queue[i] = queue[j] => i = j
  BY <1>1 DEF IInv, AnswersAreTrue
<1>7. n = Len(queue) - 1
  BY DEF n
<1>8. \A i, j \in 1..n : queue'[i] = queue'[j] => i = j
  <2> SUFFICES ASSUME NEW i \in 1..n, NEW j \in 1..n, queue'[i] = queue'[j]
               PROVE  i = j
    OBVIOUS
  <2> DEFINE at(k) == IF k < p THEN k ELSE k + 1
  <2>1. at(i) \in 1..Len(queue) /\ at(j) \in 1..Len(queue)
    BY <1>1, <1>3, <1>7
  <2>2. queue[at(i)] = queue[at(j)]
    BY <1>5
  <2>3. at(i) = at(j)
    BY <1>6, <2>1, <2>2
  <2> QED
    BY <1>1, <1>3, <1>5, <2>3
<1>9. \A q \in Requests : Waits(q)' <=> (Waits(q) /\ q # r)
  <2> SUFFICES ASSUME NEW q \in Requests
               PROVE  (\E i \in 1..n : queue'[i] = q) <=>
                      (q # r /\ \E i \in 1..Len(queue) : queue[i] = q)
    BY <1>1, <1>5 DEF Waits
  <2>1. ASSUME NEW i \in 1..n, queue'[i] = q
        PROVE  q # r /\ \E k \in 1..Len(queue) : queue[k] = q
    <3>1. CASE i < p
      <4>1. i \in 1..Len(queue) /\ queue[i] = q
        BY <1>1, <1>5, <1>7, <2>1, <3>1
      <4> QED
        BY <1>3, <1>6, <3>1, <4>1
    <3>2. CASE ~(i < p)
      <4>1. i + 1 \in 1..Len(queue) /\ queue[i + 1] = q
        BY <1>1, <1>5, <1>7, <2>1, <3>2
      <4>2. i + 1 # p
        BY <1>3, <3>2
      <4> QED
        BY <1>3, <1>6, <4>1, <4>2
    <3> QED
      BY <3>1, <3>2
  <2>2. ASSUME q # r, NEW k \in 1..Len(queue), queue[k] = q
        PROVE  \E i \in 1..n : queue'[i] = q
    <3>1. k # p
      BY <1>3, <2>2
    <3>2. CASE k < p
      <4>1. k \in 1..n /\ queue'[k] = q
        BY <1>1, <1>3, <1>5, <1>7, <2>2, <3>2
      <4> QED
        BY <4>1
    <3>3. CASE k > p
      <4>1. k - 1 \in 1..n /\ ~(k - 1 < p) /\ k - 1 + 1 = k
        BY <1>1, <1>3, <1>7, <3>3
      <4>2. queue'[k - 1] = q
        BY <1>5, <2>2, <4>1
      <4> QED
        BY <4>1, <4>2
    <3> QED
      BY <1>3, <3>1, <3>2, <3>3
  <2> QED
    BY <2>1, <2>2
<1>10. TypeOK'
  BY <1>2, <1>5 DEF IInv, TypeOK
<1>11. MemoryIsBounded'
  BY <1>2, <1>1, <1>5, <1>7 DEF IInv, MemoryIsBounded
<1>12. NoSlotIsWasted'
  <2>1. queue # <<>>
    BY <1>1, <1>3, QueueFacts
  <2> QED
    BY <1>2, <2>1 DEF IInv, NoSlotIsWasted, Limit
<1>13. AnswersAreTrue'
  BY <1>2, <1>5, <1>8, <1>9 DEF IInv, AnswersAreTrue
<1> QED
  BY <1>2, <1>10, <1>11, <1>12, <1>13 DEF IInv

LEMMA EndKeeps ==
    ASSUME IInv, NEW r \in Requests, End(r)
    PROVE  IInv'
<1>1. /\ task[r] = "running" /\ UNCHANGED <<active, queue, timers, holders, answer>>
      /\ \A q \in Requests : task'[q] = IF q = r THEN "over" ELSE task[q]
  BY DEF End, IInv, TypeOK
<1>2. TypeOK' /\ MemoryIsBounded' /\ NoSlotIsWasted'
  BY <1>1 DEF End, IInv, TypeOK, MemoryIsBounded, NoSlotIsWasted
<1>3. AnswersAreTrue'
  <2>1. \A q \in Requests : Waits(q)' <=> Waits(q)
    BY <1>1 DEF Waits
  <2> QED
    BY <1>1, <2>1 DEF IInv, AnswersAreTrue
<1>4. \A q \in holders' : task'[q] # "none"
  BY <1>1 DEF IInv, TypeOK
<1> QED
  BY <1>2, <1>3, <1>4 DEF IInv

LEMMA AnswerKeeps ==
    ASSUME IInv, NEW r \in Requests, Answer(r)
    PROVE  IInv'
<1>1. /\ task[r] = "over" /\ UNCHANGED <<active, queue, timers, task, holders>>
      /\ \A q \in Requests : answer'[q] = IF q = r THEN "result" ELSE answer[q]
      /\ answer' \in [Requests -> {"none", "result", "queue_full", "queue_timeout"}]
  BY DEF Answer, Settle, IInv, TypeOK
<1>2. TypeOK' /\ MemoryIsBounded' /\ NoSlotIsWasted'
  BY <1>1 DEF IInv, TypeOK, MemoryIsBounded, NoSlotIsWasted
<1>3. AnswersAreTrue'
  <2>1. \A q \in Requests : Waits(q)' <=> Waits(q)
    BY <1>1 DEF Waits
  <2> QED
    BY <1>1, <2>1 DEF IInv, AnswersAreTrue
<1> QED
  BY <1>1, <1>2, <1>3 DEF IInv

\* What a release does, with the number of turns known.
LEMMA ReleaseStep ==
    ASSUME IInv, NEW r \in Requests, Release(r)
    PROVE  /\ r \in holders /\ task[r] = "over" /\ UNCHANGED answer
           /\ queue = <<>> =>
                /\ active' = active - 1 /\ holders' = holders \ {r}
                /\ UNCHANGED <<queue, timers, task>>
           /\ queue # <<>> =>
                /\ active' = active
                /\ queue' = SubSeq(queue, 2, Len(queue))
                /\ timers' = timers \ {queue[1]}
                /\ holders' = (holders \ {r}) \cup {queue[1]}
                /\ task' = [task EXCEPT ![queue[1]] = "running"]
<1>1. PICK n \in 0..Len(queue) :
        LET started == {queue[i] : i \in 1..n} IN
        /\ Drains(active - 1, n)
        /\ active' = active - 1 + n
        /\ queue' = SubSeq(queue, n + 1, Len(queue))
        /\ timers' = timers \ started
        /\ task' = [q \in Requests |-> IF q \in started THEN "running" ELSE task[q]]
        /\ holders' = (holders \ {r}) \cup started
  BY DEF Release
<1>2. r \in holders /\ task[r] = "over" /\ UNCHANGED answer
  BY DEF Release
<1>3. n = IF queue = <<>> THEN 0 ELSE 1
  BY <1>1, <1>2, DrainTurnsOnce
<1>4. active \in Nat /\ task \in [Requests -> {"none", "running", "over"}]
  BY DEF IInv, TypeOK
<1>5. CASE queue = <<>>
  <2>1. {queue[i] : i \in 1..n} = {} /\ Len(queue) = 0 /\ n = 0
    BY <1>3, <1>5, QueueFacts
  <2>2. SubSeq(queue, 1, 0) = <<>>
    BY <1>5, <2>1, QueueFacts, SubSeqProperties, EmptySeq
  <2> QED
    BY <1>1, <1>2, <1>4, <1>5, <2>1, <2>2
<1>6. CASE queue # <<>>
  <2>1. {queue[i] : i \in 1..n} = {queue[1]} /\ n = 1
    <3>1. n = 1 /\ \A i \in 1..n : i = 1
      BY <1>3, <1>6
    <3> QED
      BY <3>1
  <2>2. queue[1] \in Requests
    BY <1>6, QueueFacts
  <2>3. /\ active' = active - 1 + 1
        /\ queue' = SubSeq(queue, 1 + 1, Len(queue))
        /\ timers' = timers \ {queue[1]}
        /\ task' = [q \in Requests |-> IF q \in {queue[1]} THEN "running" ELSE task[q]]
        /\ holders' = (holders \ {r}) \cup {queue[1]}
    BY <1>1, <2>1
  <2>4. task' = [task EXCEPT ![queue[1]] = "running"]
    BY <1>4, <2>2, <2>3
  <2>5. active' = active /\ queue' = SubSeq(queue, 2, Len(queue))
    <3>1. 1 + 1 = 2 /\ active - 1 + 1 = active
      BY <1>4
    <3> QED
      BY <2>3, <3>1
  <2> QED
    BY <1>2, <1>6, <2>3, <2>4, <2>5
<1> QED
  BY <1>2, <1>5, <1>6

LEMMA ReleaseKeeps ==
    ASSUME IInv, NEW r \in Requests, Release(r)
    PROVE  IInv'
<1>1. r \in holders /\ task[r] = "over" /\ UNCHANGED answer
  BY ReleaseStep
<1>2. /\ IsFiniteSet(holders) /\ active = Cardinality(holders) /\ active \in Nat
      /\ IsFiniteSet(holders \ {r}) /\ Cardinality(holders \ {r}) = active - 1
  BY <1>1, FS_RemoveElement, FS_CardinalityType DEF IInv, TypeOK, MemoryIsBounded
<1>3. Limit \in Nat
  BY LimitsAreNumbers
<1>4. CASE queue = <<>>
  <2>1. /\ active' = active - 1 /\ holders' = holders \ {r}
        /\ UNCHANGED <<queue, timers, task>>
    BY <1>4, ReleaseStep
  <2>2. active - 1 \in Nat
    BY <1>2, FS_CardinalityType
  <2>3. TypeOK'
    BY <1>1, <2>1, <2>2 DEF IInv, TypeOK
  <2>4. MemoryIsBounded'
    BY <1>1, <1>2, <1>3, <2>1 DEF IInv, MemoryIsBounded
  <2>5. NoSlotIsWasted'
    BY <1>4, <2>1 DEF NoSlotIsWasted
  <2>6. AnswersAreTrue'
    <3>1. \A q \in Requests : Waits(q)' <=> Waits(q)
      BY <2>1 DEF Waits
    <3> QED
      BY <1>1, <2>1, <3>1 DEF IInv, AnswersAreTrue
  <2> QED
    BY <2>1, <2>3, <2>4, <2>5, <2>6 DEF IInv
<1>5. CASE queue # <<>>
  <2> DEFINE h == queue[1]
             n == Len(queue) - 1
  <2>1. /\ active' = active /\ queue' = SubSeq(queue, 2, Len(queue))
        /\ timers' = timers \ {h} /\ holders' = (holders \ {r}) \cup {h}
        /\ task' = [task EXCEPT ![h] = "running"]
    BY <1>5, ReleaseStep
  <2>2. /\ queue \in Seq(Requests) /\ Len(queue) \in Nat \ {0} /\ DOMAIN queue = 1..Len(queue)
        /\ h \in Requests /\ \A i, j \in 1..Len(queue) : queue[i] = queue[j] => i = j
    BY <1>5, QueueFacts DEF IInv, AnswersAreTrue
  <2>3. Waits(h) /\ task[h] = "none" /\ answer[h] = "none" /\ h \notin holders /\ h # r
    BY <1>1, <2>2 DEF IInv, AnswersAreTrue, Waits
  <2>4. /\ queue' \in Seq(Requests) /\ Len(queue') = n /\ DOMAIN queue' = 1..n
        /\ \A i \in 1..n : queue'[i] = queue[i + 1]
    <3>1. \A i \in 2..Len(queue) : queue[i] \in Requests
      BY <2>2, QueueFacts
    <3> QED
      BY <2>1, <2>2, <3>1, SubSeqProperties, LenProperties
  <2> HIDE DEF h
  <2>5. TypeOK'
    BY <1>1, <2>1, <2>2, <2>4 DEF IInv, TypeOK
  <2>6. IsFiniteSet(holders') /\ Cardinality(holders') = active
    <3>1. /\ IsFiniteSet((holders \ {r}) \cup {h})
          /\ Cardinality((holders \ {r}) \cup {h}) = active - 1 + 1
      BY <1>2, <2>3, FS_AddElement
    <3> QED
      BY <1>2, <2>1, <3>1
  <2>7. \A q \in Requests : task'[q] = IF q = h THEN "running" ELSE task[q]
    BY <2>1, <2>2 DEF IInv, TypeOK
  <2>8. MemoryIsBounded'
    <3>1. Len(queue') <= QueueMax
      BY <2>2, <2>4, LimitsAreNumbers DEF IInv, MemoryIsBounded
    <3>2. {q \in Requests : task'[q] = "running"} \subseteq holders'
      BY <1>1, <2>1, <2>7 DEF IInv, MemoryIsBounded
    <3> QED
      BY <2>1, <2>6, <3>1, <3>2 DEF IInv, MemoryIsBounded, Limit, QueueMax
  <2>9. NoSlotIsWasted'
    BY <1>5, <2>1 DEF IInv, NoSlotIsWasted, Limit
  <2>10. \A q \in Requests : Waits(q)' <=> (Waits(q) /\ q # h)
    <3>1. ASSUME NEW q \in Requests, NEW i \in 1..n, queue'[i] = q
          PROVE  q # h /\ Waits(q)
      <4>1. i + 1 \in 1..Len(queue) /\ i + 1 # 1 /\ queue[i + 1] = q
        BY <2>2, <2>4, <3>1
      <4> QED
        BY <2>2, <4>1 DEF Waits, h
    <3>2. ASSUME NEW q \in Requests, NEW k \in 1..Len(queue), queue[k] = q, q # h
          PROVE  \E i \in 1..n : queue'[i] = q
      <4>1. k # 1
        BY <3>2 DEF h
      <4>2. k - 1 \in 1..n /\ k - 1 + 1 = k
        BY <2>2, <4>1
      <4>3. queue'[k - 1] = q
        BY <2>4, <3>2, <4>2
      <4> QED
        BY <4>2, <4>3
    <3> QED
      BY <2>2, <2>4, <3>1, <3>2 DEF Waits
  <2>11. \A i, j \in DOMAIN queue' : queue'[i] = queue'[j] => i = j
    <3> SUFFICES ASSUME NEW i \in 1..n, NEW j \in 1..n, queue'[i] = queue'[j]
                 PROVE  i = j
      BY <2>4
    <3>1. i + 1 \in 1..Len(queue) /\ j + 1 \in 1..Len(queue)
      BY <2>2
    <3> QED
      BY <2>2, <2>4, <3>1
  <2>12. AnswersAreTrue'
    BY <1>1, <2>1, <2>3, <2>7, <2>10, <2>11 DEF IInv, AnswersAreTrue
  <2>13. \A q \in holders' : task'[q] # "none"
    BY <2>1, <2>2, <2>7 DEF IInv, TypeOK
  <2> QED
    BY <2>5, <2>8, <2>9, <2>12, <2>13 DEF IInv
<1> QED
  BY <1>4, <1>5

LEMMA NextKeeps ==
    ASSUME IInv, [Next]_vars
    PROVE  IInv'
<1>1. CASE UNCHANGED vars
  BY <1>1 DEF vars, IInv, TypeOK, MemoryIsBounded, NoSlotIsWasted, AnswersAreTrue, Waits
<1>2. CASE Next
  BY <1>2, StartKeeps, RefuseKeeps, EnqueueKeeps, TimeoutKeeps, EndKeeps, AnswerKeeps,
     ReleaseKeeps DEF Next
<1> QED
  BY <1>1, <1>2

\* The invariant holds however logins arrive, time out and end.
THEOREM Invariance == Spec => []IInv
<1>1. Init => IInv
  BY InitInv
<1>2. IInv /\ [Next]_vars => IInv'
  BY NextKeeps
<1> QED
  BY <1>1, <1>2, PTL DEF Spec

\* The slot counter of login-concurrency.js is exact and within its limit: no
\* slot leaks, and memory is bounded whatever the burst.
THEOREM MemoryCorrect == Spec => []MemoryIsBounded
<1>1. IInv => MemoryIsBounded
  BY DEF IInv
<1> QED
  BY <1>1, Invariance, PTL

\* Nobody waits beside a free slot, so run() need not look at the queue.
THEOREM NoWasteCorrect == Spec => []NoSlotIsWasted
<1>1. IInv => NoSlotIsWasted
  BY DEF IInv
<1> QED
  BY <1>1, Invariance, PTL

\* A login that was answered "busy" is never verified.
THEOREM AnswersCorrect == Spec => []AnswersAreTrue
<1>1. IInv => AnswersAreTrue
  BY DEF IInv
<1> QED
  BY <1>1, Invariance, PTL

\* One step starts at most one request, and nobody who waited before it is left.
LEMMA StartsInOrder ==
    ASSUME IInv, [Next]_vars, NEW r \in Requests, task[r] = "none", task'[r] = "running",
           NEW i \in DOMAIN queue, \A j \in DOMAIN queue : queue[j] = r => i < j
    PROVE  task'[queue[i]] = "running"
<1>1. /\ queue # <<>> /\ DOMAIN queue = 1..Len(queue) /\ Len(queue) \in Nat
      /\ task \in [Requests -> {"none", "running", "over"}]
  BY QueueFacts DEF IInv, TypeOK
<1>2. ~(active < Limit)
  BY <1>1, LimitsAreNumbers DEF IInv, NoSlotIsWasted
<1>3. PICK q \in Requests : Release(q)
  BY <1>1, <1>2 DEF Next, vars, Start, Refuse, Enqueue, Timeout, End, Answer
<1>4. task' = [task EXCEPT ![queue[1]] = "running"]
  BY <1>1, <1>3, ReleaseStep
<1>5. r = queue[1]
  BY <1>1, <1>4
<1> QED
  BY <1>1, <1>5

\* The queue is served in order, and a newcomer never overtakes it.
THEOREM OrderCorrect == Spec => FirstComeFirstServed
<1>1. IInv /\ [Next]_vars =>
        [\A r \in Requests :
           (task[r] = "none" /\ task'[r] = "running") =>
               \A i \in DOMAIN queue :
                   (\A j \in DOMAIN queue : queue[j] = r => i < j) =>
                       task'[queue[i]] = "running"]_vars
  BY StartsInOrder
<1> QED
  BY <1>1, Invariance, PTL DEF Spec, FirstComeFirstServed

\* Where a request that goes on waiting stood before the step.
LEMMA WaiterMoves ==
    ASSUME IInv, Next, NEW r \in Requests, Waits(r), NEW k \in DOMAIN queue', queue'[k] = r
    PROVE  \E i \in DOMAIN queue :
             /\ queue[i] = r
             /\ k <= i
             /\ holders \subseteq holders' \/ k < i
<1>1. /\ queue \in Seq(Requests) /\ Len(queue) \in Nat /\ DOMAIN queue = 1..Len(queue)
      /\ \A i \in 1..Len(queue) : queue[i] \in Requests
  BY QueueFacts
<1>2. PICK q \in Requests : \/ Start(q) \/ Refuse(q) \/ Enqueue(q) \/ Timeout(q)
                            \/ End(q) \/ Answer(q) \/ Release(q)
  BY DEF Next
<1>3. CASE Start(q) \/ Refuse(q) \/ End(q) \/ Answer(q)
  <2>1. queue' = queue /\ holders \subseteq holders'
    BY <1>3 DEF Start, Refuse, End, Answer
  <2> QED
    BY <1>1, <2>1
<1>4. CASE Enqueue(q)
  <2>1. q # r /\ holders' = holders /\ queue' = Append(queue, q)
    BY <1>4 DEF Enqueue, New
  <2>2. /\ DOMAIN queue' = 1..Len(queue) + 1 /\ queue'[Len(queue) + 1] = q
        /\ \A i \in 1..Len(queue) : queue'[i] = queue[i]
    BY <1>1, <2>1, AppendProperties, LenProperties
  <2>3. k \in 1..Len(queue)
    BY <1>1, <2>1, <2>2
  <2> QED
    BY <1>1, <2>1, <2>2, <2>3
<1>5. CASE Timeout(q)
  <2>1. PICK p \in 1..Len(queue) :
          /\ UNCHANGED holders /\ Len(queue') = Len(queue) - 1
          /\ DOMAIN queue' = 1..Len(queue')
          /\ \A x \in 1..Len(queue') : queue'[x] = IF x < p THEN queue[x] ELSE queue[x + 1]
    BY <1>5, TimeoutStep
  <2>2. k \in 1..Len(queue) /\ k + 1 \in 1..Len(queue) /\ k <= k + 1
    BY <1>1, <2>1
  <2> QED
    BY <1>1, <2>1, <2>2
<1>6. CASE Release(q)
  <2>1. q \in holders
    BY <1>6, ReleaseStep
  <2>2. queue # <<>>
    BY <1>1 DEF Waits
  <2>3. queue' = SubSeq(queue, 2, Len(queue)) /\ Len(queue) \in Nat \ {0}
    BY <1>1, <1>6, <2>2, ReleaseStep, QueueFacts
  <2>4. \A i \in 2..Len(queue) : queue[i] \in Requests
    BY <1>1
  <2>5. DOMAIN queue' = 1..Len(queue) - 1 /\ queue'[k] = queue[k + 1]
    BY <1>1, <2>3, <2>4, SubSeqProperties, LenProperties
  <2>6. k + 1 \in 1..Len(queue) /\ k <= k + 1 /\ k < k + 1
    BY <1>1, <2>3, <2>5
  <2> QED
    BY <1>1, <2>5, <2>6
<1> QED
  BY <1>2, <1>3, <1>4, <1>5, <1>6

\* Waiting in the queue of login-concurrency.js is bounded by the releases: the
\* k-th in the queue starts, or times out, by the time k more slots were given back.
THEOREM PlacesCorrect == Spec => PlacesImprove
<1>1. ASSUME IInv, Next, NEW r \in Requests, Waits(r), Waits(r)'
      PROVE  \E i \in DOMAIN queue, k \in DOMAIN queue' :
                 /\ queue[i] = r /\ queue'[k] = r
                 /\ k <= i
                 /\ holders \subseteq holders' \/ k < i
  <2>1. PICK k \in DOMAIN queue' : queue'[k] = r
    BY <1>1 DEF Waits
  <2> QED
    BY <1>1, <2>1, WaiterMoves
<1>2. IInv /\ [Next]_vars =>
        [\A r \in Requests :
           (Waits(r) /\ Waits(r)') =>
               \E i \in DOMAIN queue, k \in DOMAIN queue' :
                   /\ queue[i] = r /\ queue'[k] = r
                   /\ k <= i
                   /\ holders \subseteq holders' \/ k < i]_vars
  BY <1>1
<1> QED
  BY <1>2, Invariance, PTL DEF Spec, PlacesImprove

=============================================================================
