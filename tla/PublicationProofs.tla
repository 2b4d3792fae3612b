--------------------------- MODULE PublicationProofs ---------------------------
(***************************************************************************)
(* Proofs of the safety properties of Publication for every set of pages    *)
(* and revisions, any number of requests, and a server that may stop and a  *)
(* run store that may fail at any moment.                                   *)
(***************************************************************************)
EXTENDS PublicationInv, SequenceTheorems, TLAPS

\* The part of the invariant that is about one request.
JobFits(p) ==
    LET job == jobs[p] IN
    /\ job.at = "reading" =>
         /\ job.mode \in {"publish", "retry"}
         /\ job.mode = "retry" => job.run \in DOMAIN runs
    /\ HasChild(p) => job.mode \in {"publish", "retire"}
    /\ job.at = "new" => job = NewJob
    /\ job.at = "done" => job = DoneJob
    /\ (HasChild(p) /\ job.run # 0) =>
         /\ job.run \in DOMAIN runs
         /\ runs[job.run].snap = job.snap
         /\ runs[job.run].status = IF job.mode = "retire" THEN "unpublishing" ELSE "deploying"
         /\ \A q \in Requests : (HasChild(q) /\ jobs[q].run = job.run) => q = p
    /\ OfItsPages(job.read)
    /\ HasChild(p) => OfItsPages(job.snap)
    /\ \A s \in Slugs :
         /\ (AfterBuild(p) /\ job.snap[s] # None /\ job.built[s] # job.snap[s]) =>
              /\ shown[s] # job.snap[s]
              /\ job.at = "verifying" => job.read[s] # job.snap[s]
         /\ (/\ job.at \in {"verified", "pushing", "pushed"} /\ job.mode = "publish"
             /\ job.snap[s] # None) => job.built[s] = job.snap[s]
    /\ (job.at = "pushed" /\ job.run # 0) =>
         IF job.mode = "retire" THEN Retired(job.snap) ELSE Pushed(job.snap)

RowFits(i) ==
    /\ OfItsPages(runs[i].snap)
    /\ runs[i].status \in {"published", "unpublishing", "unpublished"} => Pushed(runs[i].snap)
    /\ runs[i].status = "unpublished" => Retired(runs[i].snap)

\* Unless the server stops, a row that is being worked on has a child.
Driven(i) ==
    ~Faults /\ runs[i].status \in Active =>
        \E p \in Requests : HasChild(p) /\ jobs[p].run = i

LEMMA InvByParts ==
    IInv <=> /\ TypeOK
             /\ OfItsPages(shown)
             /\ \A k \in DOMAIN branch : OfItsPages(branch[k].pages)
             /\ \A i \in DOMAIN runs : Driven(i)
             /\ \A i \in DOMAIN runs : RowFits(i)
             /\ \A p \in Requests : JobFits(p)
<1>1. (StatusesAreTrue /\ \A i \in DOMAIN runs : OfItsPages(runs[i].snap))
        <=> \A i \in DOMAIN runs : RowFits(i)
  BY DEF StatusesAreTrue, RowFits, Pushed, Retired
<1>2. ASSUME RetriesNameRows, DriversOwnTheirRuns, ReadWasPublic, GoneStaysGone,
             PushedWasPublicTogether, PushesStay, NEW p \in Requests
      PROVE  JobFits(p)
  BY <1>2 DEF RetriesNameRows, DriversOwnTheirRuns, ReadWasPublic, GoneStaysGone,
              PushedWasPublicTogether, PushesStay, JobFits
<1>3. ASSUME \A p \in Requests : JobFits(p)
      PROVE  /\ RetriesNameRows
             /\ DriversOwnTheirRuns
             /\ \A p \in Requests :
                  OfItsPages(jobs[p].read) /\ (HasChild(p) => OfItsPages(jobs[p].snap))
             /\ GoneStaysGone
             /\ PushedWasPublicTogether
             /\ PushesStay
  <2>1. RetriesNameRows
    BY <1>3 DEF RetriesNameRows, JobFits
  <2>2. DriversOwnTheirRuns
    BY <1>3 DEF DriversOwnTheirRuns, JobFits
  <2>3. \A p \in Requests :
          OfItsPages(jobs[p].read) /\ (HasChild(p) => OfItsPages(jobs[p].snap))
    BY <1>3 DEF JobFits
  <2>4. GoneStaysGone
    BY <1>3 DEF GoneStaysGone, JobFits
  <2>5. PushedWasPublicTogether
    BY <1>3 DEF PushedWasPublicTogether, JobFits
  <2>6. PushesStay
    BY <1>3 DEF PushesStay, JobFits
  <2> QED
    BY <2>1, <2>2, <2>3, <2>4, <2>5, <2>6
<1>4. ActiveRowsAreDriven <=> \A i \in DOMAIN runs : Driven(i)
  BY DEF ActiveRowsAreDriven, Driven
<1> QED
  BY <1>1, <1>2, <1>3, <1>4 DEF IInv, ReadWasPublic, HostShowsItsPages

Parts ==
    /\ TypeOK
    /\ OfItsPages(shown)
    /\ \A k \in DOMAIN branch : OfItsPages(branch[k].pages)
    /\ \A i \in DOMAIN runs : Driven(i)
    /\ \A i \in DOMAIN runs : RowFits(i)
    /\ \A p \in Requests : JobFits(p)

LEMMA InvByPartsNext == Parts' => IInv'
<1>1. Parts => IInv
  BY InvByParts DEF Parts
<1> QED
  BY <1>1, PTL

\* What may happen to the rows and the branch when request p takes a step that
\* only touches row i: rows are added or keep their snapshot, pushes stay.
RowsKept(i) ==
    /\ runs' \in Seq(Runs) /\ branch' \in Seq(Trees)
    /\ \A k \in DOMAIN runs :
         /\ k \in DOMAIN runs'
         /\ runs'[k].snap = runs[k].snap
         /\ k # i => runs'[k].status = runs[k].status
    /\ \A k \in DOMAIN branch : k \in DOMAIN branch' /\ branch'[k] = branch[k]

LEMMA PushesKept ==
    ASSUME NEW i, RowsKept(i), NEW snap
    PROVE  /\ Pushed(snap) => Pushed(snap)'
           /\ Retired(snap) => Retired(snap)'
BY DEF RowsKept, Pushed, Retired, Tombstone, Empty

\* A step of request p keeps the invariant if p still fits, every row that is
\* new or was touched is true to the branch, and p does not leave a row alone
\* that it works on.
LEMMA JobStepKeeps ==
    ASSUME IInv, NEW p \in Requests, NEW i, UNCHANGED <<shown, home>>,
           jobs' \in [Requests -> Jobs],
           \A q \in Requests : q # p => jobs'[q] = jobs[q],
           RowsKept(i),
           \A q \in Requests : (q # p /\ HasChild(q) /\ jobs[q].run # 0) => jobs[q].run # i,
           \A k \in DOMAIN runs' : (k \notin DOMAIN runs \/ k = i) => RowFits(k)' /\ Driven(k)',
           \A k \in DOMAIN branch' : k \notin DOMAIN branch => OfItsPages(branch'[k].pages),
           (HasChild(p) /\ jobs[p].run \in DOMAIN runs /\ jobs[p].run # i) =>
             HasChild(p)' /\ jobs'[p].run = jobs[p].run,
           JobFits(p)'
    PROVE  IInv'
<1>1. TypeOK'
  BY DEF IInv, TypeOK, RowsKept
<1>2. ASSUME NEW k \in DOMAIN runs'
      PROVE  RowFits(k)'
  <2>1. CASE k \notin DOMAIN runs \/ k = i
    BY <2>1
  <2>2. CASE k \in DOMAIN runs /\ k # i
    <3>1. RowFits(k)
      BY <2>2, InvByParts
    <3>2. runs'[k].snap = runs[k].snap /\ runs'[k].status = runs[k].status
      BY <2>2 DEF RowsKept
    <3>3. \A snap : (Pushed(snap) => Pushed(snap)') /\ (Retired(snap) => Retired(snap)')
      BY PushesKept
    <3>4. /\ Pushed(runs[k].snap) => Pushed(runs[k].snap)'
          /\ Retired(runs[k].snap) => Retired(runs[k].snap)'
      BY <3>2, <3>3 DEF Pushed, Retired
    <3>5. OfItsPages(runs[k].snap)'
      BY <3>1, <3>2 DEF RowFits, OfItsPages
    <3> QED
      BY <3>1, <3>2, <3>4, <3>5 DEF RowFits
  <2> QED
    BY <2>1, <2>2
<1>3. ASSUME NEW q \in Requests, q # p
      PROVE  JobFits(q)'
  <2>1. /\ jobs'[q] = jobs[q] /\ JobFits(q) /\ (HasChild(q)' <=> HasChild(q))
        /\ (AfterBuild(q)' <=> AfterBuild(q))
    BY <1>3, InvByParts DEF HasChild, AfterBuild
  <2>2. ASSUME HasChild(q), jobs[q].run # 0
        PROVE  /\ jobs[q].run \in DOMAIN runs'
               /\ runs'[jobs[q].run].snap = jobs[q].snap
               /\ runs'[jobs[q].run].status =
                    IF jobs[q].mode = "retire" THEN "unpublishing" ELSE "deploying"
               /\ \A r \in Requests : (HasChild(r)' /\ jobs'[r].run = jobs[q].run) => r = q
    <3>1. /\ jobs[q].run \in DOMAIN runs
          /\ runs[jobs[q].run].snap = jobs[q].snap
          /\ runs[jobs[q].run].status =
               IF jobs[q].mode = "retire" THEN "unpublishing" ELSE "deploying"
          /\ \A r \in Requests : (HasChild(r) /\ jobs[r].run = jobs[q].run) => r = q
      BY <2>1, <2>2 DEF JobFits
    <3>2. jobs[q].run # i
      BY <1>3, <2>2
    <3>3. ~(HasChild(p)' /\ jobs'[p].run = jobs[q].run)
      BY <1>3, <2>1, <2>2 DEF JobFits
    <3>4. \A r \in Requests : r # p => (HasChild(r)' <=> HasChild(r))
      BY DEF HasChild
    <3> QED
      BY <3>1, <3>2, <3>3, <3>4 DEF RowsKept
  <2>3. (jobs[q].at = "pushed" /\ jobs[q].run # 0) =>
           IF jobs[q].mode = "retire" THEN Retired(jobs[q].snap)' ELSE Pushed(jobs[q].snap)'
    <3>1. /\ Pushed(jobs[q].snap) => \E k \in DOMAIN branch' : branch'[k].pages = jobs[q].snap
          /\ Retired(jobs[q].snap) =>
               \E k, l \in DOMAIN branch' :
                  k < l /\ branch'[k].pages = jobs[q].snap /\ branch'[l] = Tombstone
      BY DEF RowsKept, Pushed, Retired, Tombstone, Empty
    <3> QED
      BY <2>1, <3>1 DEF JobFits, Pushed, Retired, Tombstone, Empty
  <2>4. jobs[q].at = "reading" =>
           /\ jobs[q].mode \in {"publish", "retry"}
           /\ jobs[q].mode = "retry" => jobs[q].run \in DOMAIN runs'
    BY <2>1 DEF JobFits, RowsKept
  <2>5. /\ HasChild(q) => jobs[q].mode \in {"publish", "retire"}
        /\ jobs[q].at = "new" => jobs[q] = NewJob
        /\ jobs[q].at = "done" => jobs[q] = DoneJob
        /\ OfItsPages(jobs[q].read) /\ (HasChild(q) => OfItsPages(jobs[q].snap))
        /\ \A s \in Slugs :
             /\ (AfterBuild(q) /\ jobs[q].snap[s] # None /\ jobs[q].built[s] # jobs[q].snap[s]) =>
                  /\ shown[s] # jobs[q].snap[s]
                  /\ jobs[q].at = "verifying" => jobs[q].read[s] # jobs[q].snap[s]
             /\ (/\ jobs[q].at \in {"verified", "pushing", "pushed"} /\ jobs[q].mode = "publish"
                 /\ jobs[q].snap[s] # None) => jobs[q].built[s] = jobs[q].snap[s]
    BY <2>1 DEF JobFits
  <2> QED
    BY <2>1, <2>2, <2>3, <2>4, <2>5 DEF JobFits, DoneJob, NewJob, Empty, OfItsPages
<1>4. OfItsPages(shown)' /\ (\A k \in DOMAIN branch' : OfItsPages(branch[k].pages)')
  BY InvByParts DEF OfItsPages, RowsKept
<1>5. ASSUME NEW k \in DOMAIN runs'
      PROVE  Driven(k)'
  <2>1. CASE k \notin DOMAIN runs \/ k = i
    BY <2>1
  <2>2. CASE k \in DOMAIN runs /\ k # i
    <3>1. Driven(k) /\ runs'[k].status = runs[k].status
      BY <2>2, InvByParts DEF RowsKept
    <3>2. ASSUME NEW q \in Requests, HasChild(q), jobs[q].run = k
          PROVE  HasChild(q)' /\ jobs'[q].run = k
      BY <2>2, <3>2 DEF HasChild
    <3> QED
      BY <3>1, <3>2 DEF Driven
  <2> QED
    BY <2>1, <2>2
<1> QED
  BY <1>1, <1>2, <1>3, <1>4, <1>5, InvByPartsNext DEF Parts

\* A step that only moves the job of p, which goes on with its row if it has one.
LEMMA QuietKeeps ==
    ASSUME IInv, NEW p \in Requests, UNCHANGED <<shown, home, runs, branch>>,
           jobs' \in [Requests -> Jobs],
           \A q \in Requests : q # p => jobs'[q] = jobs[q],
           (HasChild(p) /\ jobs[p].run \in DOMAIN runs) =>
             HasChild(p)' /\ jobs'[p].run = jobs[p].run,
           JobFits(p)'
    PROVE  IInv'
<1>1. RowsKept(0) /\ 0 \notin DOMAIN runs
  BY LenProperties DEF RowsKept, IInv, TypeOK
<1> QED
  BY <1>1, JobStepKeeps

\* The status of row i changes and nothing else of the tables.
LEMMA RowChange ==
    ASSUME IInv, NEW i \in DOMAIN runs, NEW status \in Statuses,
           runs' = [runs EXCEPT ![i].status = status], UNCHANGED branch
    PROVE  /\ RowsKept(i)
           /\ DOMAIN runs' = DOMAIN runs
           /\ runs'[i].status = status /\ runs'[i].snap = runs[i].snap
<1> DEFINE row == [runs[i] EXCEPT !.status = status]
<1>1. runs \in Seq(Runs) /\ i \in 1..Len(runs) /\ DOMAIN runs = 1..Len(runs)
  BY LenProperties DEF IInv, TypeOK
<1>2. runs[i] \in Runs
  BY <1>1, ElementOfSeq
<1>3. row \in Runs /\ row.snap = runs[i].snap /\ row.status = status
  BY <1>2 DEF Runs
<1>4. runs' = [runs EXCEPT ![i] = row]
  BY <1>1
<1> HIDE DEF row
<1>5. /\ runs' \in Seq(Runs) /\ Len(runs') = Len(runs)
      /\ \A k \in 1..Len(runs) : runs'[k] = IF k = i THEN row ELSE runs[k]
  BY <1>1, <1>3, <1>4, ExceptSeq
<1>6. DOMAIN runs' = 1..Len(runs)
  BY <1>5, LenProperties
<1> QED
  BY <1>1, <1>3, <1>5, <1>6 DEF RowsKept, IInv, TypeOK

\* The types of a job's parts.
LEMMA JobType ==
    ASSUME IInv, NEW p \in Requests
    PROVE  /\ jobs[p] \in Jobs
           /\ jobs[p].at \in Steps /\ jobs[p].mode \in {"publish", "retry", "retire"}
           /\ jobs[p].run \in Nat /\ jobs[p].snap \in Snapshots
           /\ jobs[p].todo \in SUBSET Slugs /\ jobs[p].read \in Snapshots
           /\ jobs[p].files \in SUBSET SourceSlugs
           /\ jobs[p].built \in Snapshots /\ jobs[p].base \in Nat
           /\ Empty \in Snapshots
           /\ shown \in Snapshots /\ OfItsPages(shown) /\ OfItsPages(Empty)
BY DEF IInv, TypeOK, Jobs, Snapshots, Empty, ReadWasPublic, OfItsPages

\* A job that ends asks nothing of the rest of the state.
LEMMA EndsFits ==
    ASSUME IInv, NEW p \in Requests, Ends(p), UNCHANGED <<shown, home>>
    PROVE  /\ jobs' \in [Requests -> Jobs]
           /\ \A q \in Requests : q # p => jobs'[q] = jobs[q]
           /\ JobFits(p)'
<1>1. DoneJob \in Jobs /\ DoneJob.at = "done" /\ DoneJob.read = Empty
  BY JobType DEF DoneJob, NewJob, Jobs, Steps
<1>2. jobs' = [jobs EXCEPT ![p] = DoneJob] /\ jobs'[p] = DoneJob
  BY DEF Ends, IInv, TypeOK
<1>3. OfItsPages(DoneJob.read)'
  BY <1>1, JobType DEF OfItsPages, Empty
<1>4. ~HasChild(p)' /\ ~AfterBuild(p)'
  BY <1>1, <1>2 DEF HasChild, AfterBuild, ChildSteps
<1> QED
  BY <1>1, <1>2, <1>3, <1>4 DEF JobFits, IInv, TypeOK

LEMMA EndKeeps ==
    ASSUME IInv, NEW p \in Requests, Ends(p), UNCHANGED <<shown, home, runs, branch>>,
           ~HasChild(p) \/ jobs[p].run = 0
    PROVE  IInv'
<1>1. HasChild(p) => jobs[p].run \notin DOMAIN runs
  BY LenProperties DEF IInv, TypeOK
<1> QED
  BY <1>1, EndsFits, QuietKeeps

\* A child that ends with an outcome its row can bear.
LEMMA ReportKeeps ==
    ASSUME IInv, NEW p \in Requests, NEW status \in Statuses \ Active, HasChild(p),
           Report(p, status), Ends(p), UNCHANGED <<shown, home, branch>>,
           jobs[p].run # 0 =>
             /\ status \in {"published", "unpublishing", "unpublished"} => Pushed(jobs[p].snap)
             /\ status = "unpublished" => Retired(jobs[p].snap)
    PROVE  IInv'
<1>1. CASE jobs[p].run = 0
  BY <1>1, EndKeeps DEF Report
<1>2. CASE jobs[p].run # 0
  <2> DEFINE i == jobs[p].run
  <2>1. /\ i \in DOMAIN runs /\ runs[i].snap = jobs[p].snap
        /\ \A q \in Requests : (HasChild(q) /\ jobs[q].run = i) => q = p
    BY <1>2, InvByParts DEF JobFits
  <2>2. /\ RowsKept(i) /\ DOMAIN runs' = DOMAIN runs
        /\ runs'[i].status = status /\ runs'[i].snap = runs[i].snap
    BY <1>2, <2>1, RowChange DEF Report
  <2>3. \A k \in DOMAIN runs' : (k \notin DOMAIN runs \/ k = i) => RowFits(k)' /\ Driven(k)'
    BY <1>2, <2>1, <2>2, InvByParts
    DEF RowFits, Driven, Pushed, Retired, Tombstone, Empty, OfItsPages
  <2>4. /\ jobs' \in [Requests -> Jobs] /\ JobFits(p)'
        /\ \A q \in Requests : q # p => jobs'[q] = jobs[q]
    BY EndsFits
  <2>5. jobs[p].run = i
    OBVIOUS
  <2> HIDE DEF i
  <2> QED
    BY <2>1, <2>2, <2>3, <2>4, <2>5, JobStepKeeps
<1> QED
  BY <1>1, <1>2

LEMMA FailKeeps ==
    ASSUME IInv, NEW p \in Requests, Fail(p)
    PROVE  IInv'
BY ReportKeeps DEF Fail, Statuses, Active

\* The row stays active with nobody to report to it, which only a fault excuses.
LEMMA StoreFailsKeeps ==
    ASSUME IInv, NEW p \in Requests, StoreFails(p)
    PROVE  IInv'
<1> DEFINE i == jobs[p].run
<1>1. Faults /\ Ends(p) /\ UNCHANGED <<shown, home, runs, branch>>
  BY DEF StoreFails
<1>2. CASE ~HasChild(p) \/ i = 0
  BY <1>1, <1>2, EndKeeps
<1>3. CASE HasChild(p) /\ i # 0
  <2>1. /\ i \in DOMAIN runs
        /\ \A q \in Requests : (HasChild(q) /\ jobs[q].run = i) => q = p
    BY <1>3, InvByParts DEF JobFits
  <2>2. RowsKept(i)
    BY <1>1 DEF RowsKept, IInv, TypeOK
  <2>3. \A k \in DOMAIN runs' : (k \notin DOMAIN runs \/ k = i) => RowFits(k)' /\ Driven(k)'
    BY <1>1, <2>1, InvByParts
    DEF RowFits, Driven, Pushed, Retired, Tombstone, Empty, OfItsPages
  <2>4. /\ jobs' \in [Requests -> Jobs] /\ JobFits(p)'
        /\ \A q \in Requests : q # p => jobs'[q] = jobs[q]
    BY <1>1, EndsFits
  <2>5. jobs[p].run = i
    OBVIOUS
  <2> HIDE DEF i
  <2> QED
    BY <1>1, <2>1, <2>2, <2>3, <2>4, <2>5, JobStepKeeps
<1> QED
  BY <1>2, <1>3

LEMMA FinishKeeps ==
    ASSUME IInv, NEW p \in Requests, Finish(p)
    PROVE  IInv'
<1>1. jobs[p].at = "pushed" /\ HasChild(p)
  BY DEF Finish, HasChild, ChildSteps
<1>2. jobs[p].run # 0 =>
        IF jobs[p].mode = "retire" THEN Retired(jobs[p].snap) ELSE Pushed(jobs[p].snap)
  BY <1>1, InvByParts DEF JobFits
<1>3. Retired(jobs[p].snap) => Pushed(jobs[p].snap)
  BY DEF Retired, Pushed
<1>4. CASE jobs[p].mode = "retire"
  BY <1>1, <1>2, <1>3, <1>4, ReportKeeps DEF Finish, Statuses, Active
<1>5. CASE jobs[p].mode # "retire"
  BY <1>1, <1>2, <1>5, ReportKeeps DEF Finish, Statuses, Active
<1> QED
  BY <1>4, <1>5

\* A child takes a step that leaves its binding alone and has not pushed yet.
LEMMA ChildKeeps ==
    ASSUME IInv, NEW p \in Requests, HasChild(p), NEW job \in Jobs,
           jobs' = [jobs EXCEPT ![p] = job], UNCHANGED <<shown, home, runs, branch>>,
           job.at \in ChildSteps \ {"pushed"},
           job.mode = jobs[p].mode, job.run = jobs[p].run, job.snap = jobs[p].snap,
           OfItsPages(job.read),
           (job.mode = "publish" /\ job.at \in {"built", "verifying", "verified", "pushing"}) =>
             \A s \in Slugs : (job.snap[s] # None /\ job.built[s] # job.snap[s]) =>
               /\ shown[s] # job.snap[s]
               /\ job.at = "verifying" => job.read[s] # job.snap[s],
           (job.mode = "publish" /\ job.at \in {"verified", "pushing"}) =>
             \A s \in Slugs : job.snap[s] # None => job.built[s] = job.snap[s]
    PROVE  IInv'
<1>1. /\ jobs' \in [Requests -> Jobs] /\ jobs'[p] = job
      /\ \A q \in Requests : q # p => jobs'[q] = jobs[q]
  BY DEF IInv, TypeOK
<1>2. HasChild(p)' /\ \A q \in Requests : HasChild(q)' <=> HasChild(q)
  BY <1>1 DEF HasChild
<1>3. JobFits(p)
  BY InvByParts
<1>4. (job.run # 0) =>
        /\ job.run \in DOMAIN runs
        /\ runs[job.run].snap = job.snap
        /\ runs[job.run].status = IF job.mode = "retire" THEN "unpublishing" ELSE "deploying"
        /\ \A q \in Requests : (HasChild(q)' /\ jobs'[q].run = job.run) => q = p
  BY <1>1, <1>2, <1>3 DEF JobFits
<1>5. job.at \notin {"reading", "new", "done"} /\ job.mode \in {"publish", "retire"}
  BY <1>3 DEF JobFits, ChildSteps
<1>6. OfItsPages(job.snap)
  BY <1>3 DEF JobFits
<1>7. OfItsPages(job.read)' /\ OfItsPages(job.snap)'
  BY <1>6 DEF OfItsPages
<1>8. JobFits(p)'
  BY <1>1, <1>2, <1>4, <1>5, <1>7 DEF JobFits, AfterBuild
<1> QED
  BY <1>1, <1>2, <1>8, QuietKeeps

LEMMA ChildListsKeeps ==
    ASSUME IInv, NEW p \in Requests, ChildLists(p)
    PROVE  IInv'
<1>1. PICK todo \in SUBSET Slugs, step \in {"checking", "verifying"},
           files \in SUBSET SourceSlugs :
        /\ jobs' = [jobs EXCEPT ![p] = [@ EXCEPT !.at = step, !.todo = todo,
                                                 !.read = Empty, !.files = files]]
        /\ step = "verifying" => jobs[p].at = "built"
        /\ jobs[p].at \in {"spawned", "built"}
  <2>1. CASE jobs[p].at = "spawned"
    <3>1. PICK todo \in SUBSET Slugs :
            jobs' = [jobs EXCEPT ![p].at = "checking", ![p].todo = todo,
                                 ![p].read = Empty, ![p].files = SourceSlugs]
      BY <2>1 DEF ChildLists
    <3>2. jobs' = [jobs EXCEPT ![p] = [@ EXCEPT !.at = "checking", !.todo = todo,
                                               !.read = Empty, !.files = SourceSlugs]]
      BY <3>1 DEF IInv, TypeOK
    <3> QED
      BY <2>1, <3>2
  <2>2. CASE jobs[p].at = "built"
    <3>1. PICK todo \in SUBSET Slugs :
            jobs' = [jobs EXCEPT ![p].at = "verifying", ![p].todo = todo, ![p].read = Empty]
      BY <2>2 DEF ChildLists, Lists
    <3>2. [jobs[p] EXCEPT !.at = "verifying", !.todo = todo, !.read = Empty]
            = [jobs[p] EXCEPT !.at = "verifying", !.todo = todo, !.read = Empty,
                              !.files = jobs[p].files]
      BY JobType DEF Jobs
    <3>3. jobs' = [jobs EXCEPT ![p] = [@ EXCEPT !.at = "verifying", !.todo = todo,
                                               !.read = Empty, !.files = jobs[p].files]]
      BY <3>1, <3>2 DEF IInv, TypeOK
    <3> QED
      BY <2>2, <3>3, JobType
  <2> QED
    BY <2>1, <2>2 DEF ChildLists
<1> DEFINE job == [jobs[p] EXCEPT !.at = step, !.todo = todo, !.read = Empty, !.files = files]
<1>2. /\ job \in Jobs /\ job.at = step /\ job.read = Empty
      /\ job.mode = jobs[p].mode /\ job.run = jobs[p].run /\ job.snap = jobs[p].snap
      /\ job.built = jobs[p].built
  BY JobType DEF Jobs, Steps, ChildSteps
<1>3. jobs' = [jobs EXCEPT ![p] = job]
  BY <1>1 DEF IInv, TypeOK
<1> HIDE DEF job
<1>4. HasChild(p) /\ step \in ChildSteps \ {"pushed"}
  BY <1>1 DEF HasChild, ChildSteps
<1>5. OfItsPages(Empty) /\ \A s \in Slugs : Empty[s] = None
  BY JobType DEF Empty
<1>6. (step = "verifying" /\ jobs[p].mode = "publish") =>
        \A s \in Slugs : (jobs[p].snap[s] # None /\ jobs[p].built[s] # jobs[p].snap[s]) =>
            shown[s] # jobs[p].snap[s]
  BY <1>1, InvByParts DEF JobFits, AfterBuild
<1>7. UNCHANGED <<shown, home, runs, branch>>
  BY DEF ChildLists
<1> QED
  BY <1>2, <1>3, <1>4, <1>5, <1>6, <1>7, ChildKeeps

\* After the build, a reading that finds the snapshot's revision shows that the
\* revision was public when the build ended.
LEMMA ReadPageKeeps ==
    ASSUME IInv, NEW p \in Requests, NEW s \in Slugs, ReadPage(p, s)
    PROVE  IInv'
<1>0. PICK files \in SUBSET SourceSlugs :
        jobs' = [jobs EXCEPT ![p].todo = @ \ {s}, ![p].read[s] = shown[s], ![p].files = files]
  BY JobType DEF ReadPage, FilesAfter
<1> DEFINE job == [jobs[p] EXCEPT !.todo = @ \ {s}, !.read[s] = shown[s], !.files = files]
<1>1. /\ job \in Jobs /\ job.at = jobs[p].at
      /\ job.mode = jobs[p].mode /\ job.run = jobs[p].run /\ job.snap = jobs[p].snap
      /\ job.built = jobs[p].built
      /\ \A x \in Slugs : job.read[x] = IF x = s THEN shown[s] ELSE jobs[p].read[x]
  BY JobType DEF Jobs, Snapshots
<1>2. jobs' = [jobs EXCEPT ![p] = job]
  BY <1>0 DEF IInv, TypeOK
<1> HIDE DEF job
<1>3. UNCHANGED <<shown, home, runs, branch>> /\ jobs[p].at \in {"reading", "checking", "verifying"}
  BY DEF ReadPage
<1>4. JobFits(p)
  BY InvByParts
<1>5. OfItsPages(job.read)
  BY <1>1, <1>4, JobType DEF JobFits, OfItsPages
<1>6. CASE jobs[p].at = "reading"
  <2>1. /\ jobs' \in [Requests -> Jobs] /\ jobs'[p] = job
        /\ \A q \in Requests : q # p => jobs'[q] = jobs[q]
    BY <1>1, <1>2 DEF IInv, TypeOK
  <2>2. ~HasChild(p)' /\ ~AfterBuild(p)'
    BY <1>1, <1>6, <2>1 DEF HasChild, AfterBuild, ChildSteps
  <2>3. JobFits(p)'
    BY <1>1, <1>3, <1>4, <1>5, <1>6, <2>1, <2>2 DEF JobFits, OfItsPages
  <2>4. ~HasChild(p)
    BY <1>6 DEF HasChild, ChildSteps
  <2> QED
    BY <1>3, <2>1, <2>3, <2>4, QuietKeeps
<1>7. CASE jobs[p].at \in {"checking", "verifying"}
  <2>1. HasChild(p) /\ job.at \in ChildSteps \ {"pushed"}
    BY <1>1, <1>7 DEF HasChild, ChildSteps
  <2>2. (job.mode = "publish" /\ job.at = "verifying") =>
          \A x \in Slugs : (job.snap[x] # None /\ job.built[x] # job.snap[x]) =>
              /\ shown[x] # job.snap[x]
              /\ job.read[x] # job.snap[x]
    BY <1>1, <1>4 DEF JobFits, AfterBuild
  <2>3. job.at \notin {"built", "verified", "pushing"}
    BY <1>1, <1>7
  <2> QED
    BY <1>1, <1>2, <1>3, <1>5, <2>1, <2>2, <2>3, ChildKeeps
<1> QED
  BY <1>3, <1>6, <1>7

LEMMA CheckBeforeKeeps ==
    ASSUME IInv, NEW p \in Requests, CheckBefore(p)
    PROVE  IInv'
<1> DEFINE job == [jobs[p] EXCEPT !.at = "building", !.read = Empty]
<1>1. /\ job \in Jobs /\ job.at = "building" /\ job.read = Empty
      /\ job.mode = jobs[p].mode /\ job.run = jobs[p].run /\ job.snap = jobs[p].snap
  BY JobType DEF Jobs, Steps, ChildSteps
<1>2. jobs' = [jobs EXCEPT ![p] = job] /\ UNCHANGED <<shown, home, runs, branch>>
  BY DEF CheckBefore, Goes, IInv, TypeOK
<1> HIDE DEF job
<1>3. HasChild(p) /\ job.at \in ChildSteps \ {"pushed"}
  BY <1>1 DEF CheckBefore, HasRead, HasChild, ChildSteps
<1>4. OfItsPages(job.read)
  BY <1>1, JobType
<1> QED
  BY <1>1, <1>2, <1>3, <1>4, ChildKeeps

LEMMA EndBuildKeeps ==
    ASSUME IInv, NEW p \in Requests, EndBuild(p)
    PROVE  IInv'
<1> DEFINE job == [jobs[p] EXCEPT !.at = "built", !.built = shown]
<1>1. /\ job \in Jobs /\ job.at = "built" /\ job.read = jobs[p].read /\ job.built = shown
      /\ job.mode = jobs[p].mode /\ job.run = jobs[p].run /\ job.snap = jobs[p].snap
  BY JobType DEF Jobs, Steps, ChildSteps
<1>2. jobs' = [jobs EXCEPT ![p] = job] /\ UNCHANGED <<shown, home, runs, branch>>
  BY DEF EndBuild, IInv, TypeOK
<1> HIDE DEF job
<1>3. HasChild(p) /\ job.at \in ChildSteps \ {"pushed"}
  BY <1>1 DEF EndBuild, HasChild, ChildSteps
<1>4. OfItsPages(job.read)
  BY <1>1, InvByParts DEF JobFits
<1> QED
  BY <1>1, <1>2, <1>3, <1>4, ChildKeeps

LEMMA CheckAfterKeeps ==
    ASSUME IInv, NEW p \in Requests, CheckAfter(p)
    PROVE  IInv'
<1> DEFINE job == [jobs[p] EXCEPT !.at = "verified", !.read = Empty]
<1>1. /\ job \in Jobs /\ job.at = "verified" /\ job.read = Empty /\ job.built = jobs[p].built
      /\ job.mode = jobs[p].mode /\ job.run = jobs[p].run /\ job.snap = jobs[p].snap
  BY JobType DEF Jobs, Steps, ChildSteps
<1>2. jobs' = [jobs EXCEPT ![p] = job] /\ UNCHANGED <<shown, home, runs, branch>>
  BY DEF CheckAfter, Goes, IInv, TypeOK
<1> HIDE DEF job
<1>3. HasChild(p) /\ job.at \in ChildSteps \ {"pushed"}
  BY <1>1 DEF CheckAfter, HasRead, HasChild, ChildSteps
<1>4. OfItsPages(job.read)
  BY <1>1, JobType
<1>5. jobs[p].mode = "publish" =>
        \A s \in Slugs : jobs[p].snap[s] # None => jobs[p].built[s] = jobs[p].snap[s]
  BY InvByParts DEF CheckAfter, HasRead, JobFits, AfterBuild
<1> QED
  BY <1>1, <1>2, <1>3, <1>4, <1>5, ChildKeeps

LEMMA ReadParentKeeps ==
    ASSUME IInv, NEW p \in Requests, ReadParent(p)
    PROVE  IInv'
<1> DEFINE job == [jobs[p] EXCEPT !.at = "pushing", !.base = Len(branch)]
<1>1. Len(branch) \in Nat
  BY LenProperties DEF IInv, TypeOK
<1>2. /\ job \in Jobs /\ job.at = "pushing" /\ job.read = jobs[p].read
      /\ job.built = jobs[p].built
      /\ job.mode = jobs[p].mode /\ job.run = jobs[p].run /\ job.snap = jobs[p].snap
  BY <1>1, JobType DEF Jobs, Steps, ChildSteps
<1>3. jobs' = [jobs EXCEPT ![p] = job] /\ UNCHANGED <<shown, home, runs, branch>>
  BY DEF ReadParent, IInv, TypeOK
<1> HIDE DEF job
<1>4. HasChild(p) /\ job.at \in ChildSteps \ {"pushed"}
  BY <1>2 DEF ReadParent, HasChild, ChildSteps
<1>5. /\ OfItsPages(job.read)
      /\ jobs[p].mode = "publish" =>
           \A s \in Slugs : jobs[p].snap[s] # None => jobs[p].built[s] = jobs[p].snap[s]
  BY <1>2, InvByParts DEF ReadParent, JobFits
<1> QED
  BY <1>2, <1>3, <1>4, <1>5, ChildKeeps

\* A request that has arrived is bound to nothing yet.
LEMMA ArriveKeeps ==
    ASSUME IInv, NEW p \in Requests, NEW job \in Jobs, job.at = "reading",
           job.mode \in {"publish", "retry"}, job.read = Empty,
           job.mode = "retry" => job.run \in DOMAIN runs, ~HasChild(p),
           jobs' = [jobs EXCEPT ![p] = job], UNCHANGED <<shown, home, runs, branch>>
    PROVE  IInv'
<1>1. /\ jobs' \in [Requests -> Jobs] /\ jobs'[p] = job
      /\ \A q \in Requests : q # p => jobs'[q] = jobs[q]
  BY DEF IInv, TypeOK
<1>2. ~HasChild(p)' /\ ~AfterBuild(p)'
  BY <1>1 DEF HasChild, AfterBuild, ChildSteps
<1>3. OfItsPages(job.read)'
  BY JobType DEF OfItsPages, Empty
<1>4. JobFits(p)'
  BY <1>1, <1>2, <1>3 DEF JobFits
<1> QED
  BY <1>1, <1>4, QuietKeeps

LEMMA ArrivePublishKeeps ==
    ASSUME IInv, NEW p \in Requests, ArrivePublish(p)
    PROVE  IInv'
<1>1. jobs[p].mode = "publish" /\ jobs[p].run = 0
  BY InvByParts DEF ArrivePublish, JobFits, NewJob
<1>2. PICK todo \in SUBSET Slugs :
        jobs' = [jobs EXCEPT ![p].at = "reading", ![p].todo = todo, ![p].read = Empty]
  BY DEF ArrivePublish, Lists
<1> DEFINE job == [jobs[p] EXCEPT !.at = "reading", !.todo = todo, !.read = Empty]
<1>3. job \in Jobs /\ job.at = "reading" /\ job.mode = "publish" /\ job.read = Empty
  BY <1>1, JobType DEF Jobs, Steps
<1>4. jobs' = [jobs EXCEPT ![p] = job] /\ UNCHANGED <<shown, home, runs, branch>>
  BY <1>2 DEF ArrivePublish, IInv, TypeOK
<1>5. ~HasChild(p)
  BY DEF ArrivePublish, HasChild, ChildSteps
<1> QED
  BY <1>3, <1>4, <1>5, ArriveKeeps

LEMMA ArriveRetryKeeps ==
    ASSUME IInv, NEW p \in Requests, NEW i \in DOMAIN runs, ArriveRetry(p, i)
    PROVE  IInv'
<1>1. jobs[p].read = Empty
  BY InvByParts DEF ArriveRetry, JobFits, NewJob
<1>2. PICK todo \in SUBSET Slugs :
        jobs' = [jobs EXCEPT ![p].at = "reading", ![p].mode = "retry",
                             ![p].run = i, ![p].todo = todo]
  BY DEF ArriveRetry
<1>3. i \in Nat
  BY LenProperties DEF IInv, TypeOK
<1> DEFINE job == [jobs[p] EXCEPT !.at = "reading", !.mode = "retry", !.run = i, !.todo = todo]
<1>4. job \in Jobs /\ job.at = "reading" /\ job.mode = "retry" /\ job.run = i
      /\ job.read = Empty
  BY <1>1, <1>3, JobType DEF Jobs, Steps
<1>5. jobs' = [jobs EXCEPT ![p] = job] /\ UNCHANGED <<shown, home, runs, branch>>
  BY <1>2 DEF ArriveRetry, IInv, TypeOK
<1>6. ~HasChild(p)
  BY DEF ArriveRetry, HasChild, ChildSteps
<1> QED
  BY <1>4, <1>5, <1>6, ArriveKeeps

\* The job of p becomes that of a child that owns row i, which nobody owned.
LEMMA OwnsFits ==
    ASSUME IInv, NEW p \in Requests, NEW job \in Jobs, UNCHANGED <<shown, home>>,
           jobs' = [jobs EXCEPT ![p] = job],
           job.at \in {"spawned", "verified"}, job.mode \in {"publish", "retire"},
           job.at = "verified" => job.mode = "retire",
           job.run \in DOMAIN runs', job.run # 0,
           runs'[job.run].snap = job.snap,
           runs'[job.run].status = IF job.mode = "retire" THEN "unpublishing" ELSE "deploying",
           \A q \in Requests : (q # p /\ HasChild(q)) => jobs[q].run # job.run,
           job.read = Empty,
           OfItsPages(job.snap)
    PROVE  /\ jobs' \in [Requests -> Jobs]
           /\ \A q \in Requests : q # p => jobs'[q] = jobs[q]
           /\ HasChild(p)' /\ jobs'[p].run = job.run
           /\ JobFits(p)'
<1>1. /\ jobs' \in [Requests -> Jobs] /\ jobs'[p] = job
      /\ \A q \in Requests : q # p => jobs'[q] = jobs[q]
  BY DEF IInv, TypeOK
<1>2. \A q \in Requests : q # p => (HasChild(q)' <=> HasChild(q))
  BY <1>1 DEF HasChild
<1>3. OfItsPages(job.read)'
  BY JobType DEF OfItsPages, Empty
<1>4. ~(AfterBuild(p)') /\ job.at \notin {"new", "reading", "pushed", "done"}
  BY <1>1 DEF AfterBuild
<1>5. \A q \in Requests : (HasChild(q)' /\ jobs'[q].run = job.run) => q = p
  BY <1>1, <1>2
<1>6. /\ (job.at \in {"verified", "pushing", "pushed"}) => job.mode # "publish"
  BY <1>4
<1>7. OfItsPages(job.snap)' /\ HasChild(p)'
  BY <1>1 DEF OfItsPages, HasChild, ChildSteps
<1> QED
  BY <1>1, <1>3, <1>4, <1>5, <1>6, <1>7 DEF JobFits

LEMMA StartRunKeeps ==
    ASSUME IInv, NEW p \in Requests, StartRun(p)
    PROVE  IInv'
<1> DEFINE i == Len(runs) + 1
           row == [snap |-> jobs[p].read, status |-> "deploying"]
           job == [jobs[p] EXCEPT !.at = "spawned", !.run = i,
                                  !.snap = jobs[p].read, !.read = Empty]
<1>1. /\ runs \in Seq(Runs) /\ branch \in Seq(Trees) /\ DOMAIN runs = 1..Len(runs)
      /\ Len(runs) \in Nat /\ i \in Nat
  BY LenProperties DEF IInv, TypeOK
<1>2. row \in Runs /\ row.snap = jobs[p].read /\ row.status = "deploying"
  BY JobType DEF Runs, Statuses, Active
<1>3. runs' = Append(runs, row) /\ UNCHANGED <<shown, home, branch>>
  BY DEF StartRun
<1> HIDE DEF row
<1>4. /\ runs' \in Seq(Runs) /\ Len(runs') = Len(runs) + 1
      /\ \A k \in 1..Len(runs) : runs'[k] = runs[k]
      /\ runs'[i] = row
  BY <1>1, <1>2, <1>3, AppendProperties
<1>5. DOMAIN runs' = 1..i /\ i \notin DOMAIN runs /\ i # 0
  BY <1>1, <1>4, LenProperties
<1>6. RowsKept(i)
  BY <1>1, <1>3, <1>4, <1>5 DEF RowsKept
<1>7. \A k \in DOMAIN runs' : (k \notin DOMAIN runs \/ k = i) => k = i /\ RowFits(k)'
  <2>1. OfItsPages(jobs[p].read)
    BY InvByParts DEF JobFits
  <2>2. runs'[i].snap = jobs[p].read /\ runs'[i].status = "deploying"
    BY <1>2, <1>4
  <2>3. ASSUME NEW k, k = i
        PROVE  RowFits(k)'
    BY <1>3, <2>1, <2>2, <2>3 DEF RowFits, OfItsPages
  <2> QED
    BY <1>1, <1>5, <2>3
<1>8. \A q \in Requests : (HasChild(q) /\ jobs[q].run # 0) => jobs[q].run # i
  BY <1>5, InvByParts DEF JobFits
<1>9. /\ job \in Jobs /\ job.at = "spawned" /\ job.run = i /\ job.mode = "publish"
      /\ job.snap = jobs[p].read /\ job.read = Empty
      /\ jobs' = [jobs EXCEPT ![p] = job]
  <2>1. jobs[p].mode = "publish"
    BY DEF StartRun
  <2>2. jobs[p] \in Jobs /\ Empty \in Snapshots /\ jobs[p].read \in Snapshots
    BY JobType
  <2>3. jobs' = [jobs EXCEPT ![p] = job]
    BY DEF StartRun, IInv, TypeOK
  <2> QED
    BY <1>1, <2>1, <2>2, <2>3 DEF Jobs, Steps, ChildSteps
<1> HIDE DEF job, i
<1>10. OfItsPages(job.snap)
  BY <1>9, InvByParts DEF JobFits
<1>11. \A q \in Requests : (q # p /\ HasChild(q)) => jobs[q].run # job.run
  BY <1>5, <1>8, <1>9
<1>12. /\ job.run \in DOMAIN runs' /\ job.run # 0
       /\ runs'[job.run].snap = job.snap /\ runs'[job.run].status = "deploying"
       /\ UNCHANGED <<shown, home>>
  BY <1>1, <1>2, <1>3, <1>4, <1>5, <1>9
<1>13. /\ jobs' \in [Requests -> Jobs]
       /\ \A q \in Requests : q # p => jobs'[q] = jobs[q]
       /\ HasChild(p)' /\ jobs'[p].run = job.run
       /\ JobFits(p)'
  BY <1>9, <1>10, <1>11, <1>12, OwnsFits
<1>14. \A k \in DOMAIN runs' : (k \notin DOMAIN runs \/ k = i) => RowFits(k)' /\ Driven(k)'
  BY <1>7, <1>9, <1>13 DEF Driven
<1>15. ~HasChild(p)
  BY DEF StartRun, HasRead, HasChild, ChildSteps
<1> QED
  BY <1>3, <1>6, <1>8, <1>13, <1>14, <1>15, JobStepKeeps

\* A row that is over is nobody's: it becomes the row of p.
LEMMA OwnRowKeeps ==
    ASSUME IInv, NEW p \in Requests, ~HasChild(p), NEW i \in DOMAIN runs,
           NEW status \in Active, runs[i].status \notin Active,
           runs' = [runs EXCEPT ![i].status = status], UNCHANGED <<shown, home, branch>>,
           NEW job \in Jobs, jobs' = [jobs EXCEPT ![p] = job],
           job.at \in {"spawned", "verified"}, job.mode \in {"publish", "retire"},
           job.at = "verified" => job.mode = "retire",
           job.run = i, job.snap = runs[i].snap, job.read = Empty,
           status = (IF job.mode = "retire" THEN "unpublishing" ELSE "deploying"),
           status = "unpublishing" => Pushed(runs[i].snap),
           OfItsPages(job.snap)
    PROVE  IInv'
<1>1. /\ RowsKept(i) /\ DOMAIN runs' = DOMAIN runs
      /\ runs'[i].status = status /\ runs'[i].snap = runs[i].snap
  <2>1. status \in Statuses
    BY DEF Statuses
  <2> QED
    BY <2>1, RowChange
<1>2. i # 0
  BY LenProperties DEF IInv, TypeOK
<1>3. \A q \in Requests : HasChild(q) => jobs[q].run # i
  BY <1>2, InvByParts DEF JobFits, Active
<1>4. /\ jobs' \in [Requests -> Jobs]
      /\ \A q \in Requests : q # p => jobs'[q] = jobs[q]
      /\ HasChild(p)' /\ jobs'[p].run = i
      /\ JobFits(p)'
  BY <1>1, <1>2, <1>3, OwnsFits
<1>5. \A k \in DOMAIN runs' : (k \notin DOMAIN runs \/ k = i) => RowFits(k)' /\ Driven(k)'
  BY <1>1, <1>4, InvByParts DEF RowFits, Driven, Pushed, Active, OfItsPages
<1> QED
  BY <1>1, <1>3, <1>4, <1>5, JobStepKeeps

LEMMA StartRetryKeeps ==
    ASSUME IInv, NEW p \in Requests, StartRetry(p)
    PROVE  IInv'
<1> DEFINE i == jobs[p].run
           job == [jobs[p] EXCEPT !.at = "spawned", !.mode = "publish",
                                  !.snap = jobs[p].read, !.read = Empty]
<1>1. /\ i \in DOMAIN runs /\ i # 0
      /\ runs[i].status \notin Active /\ runs[i].snap = jobs[p].read
  <2>1. i \in DOMAIN runs
    BY InvByParts DEF StartRetry, HasRead, JobFits
  <2>2. i # 0
    BY <2>1, LenProperties DEF IInv, TypeOK
  <2> QED
    BY <2>1, <2>2 DEF StartRetry, CanRetry, Settles
<1>2. runs' = [runs EXCEPT ![i].status = "deploying"] /\ UNCHANGED <<shown, home, branch>>
  BY <1>1 DEF StartRetry, Report
<1>3. /\ job \in Jobs /\ job.at = "spawned" /\ job.mode = "publish" /\ job.run = i
      /\ job.snap = jobs[p].read /\ job.read = Empty
  BY JobType DEF Jobs, Steps, ChildSteps
<1>4. jobs' = [jobs EXCEPT ![p] = job]
  BY DEF StartRetry, IInv, TypeOK
<1> HIDE DEF job, i
<1>5. OfItsPages(job.snap)
  BY <1>3, InvByParts DEF JobFits
<1>6. ~HasChild(p)
  BY DEF StartRetry, HasRead, HasChild, ChildSteps
<1> QED
  BY <1>1, <1>2, <1>3, <1>4, <1>5, <1>6, OwnRowKeeps DEF Active

LEMMA StartUnpublishKeeps ==
    ASSUME IInv, NEW p \in Requests, StartUnpublish(p)
    PROVE  IInv'
<1>1. PICK i \in DOMAIN runs :
        /\ runs[i].status = "published"
        /\ runs' = [runs EXCEPT ![i].status = "unpublishing"]
        /\ jobs' = [jobs EXCEPT ![p].at = "verified", ![p].mode = "retire",
                                ![p].run = i, ![p].snap = runs[i].snap]
  BY DEF StartUnpublish, IsLatestPublished
<1>2. jobs[p] = NewJob
  BY InvByParts DEF StartUnpublish, JobFits
<1>3. i \in Nat /\ runs[i] \in Runs
  BY LenProperties, ElementOfSeq DEF IInv, TypeOK
<1> DEFINE job == [jobs[p] EXCEPT !.at = "verified", !.mode = "retire",
                                  !.run = i, !.snap = runs[i].snap]
<1>4. /\ job \in Jobs /\ job.at = "verified" /\ job.mode = "retire" /\ job.run = i
      /\ job.snap = runs[i].snap /\ job.read = Empty
  <2>1. jobs[p] \in Jobs /\ jobs[p].read = Empty
    BY <1>2, JobType DEF NewJob
  <2>2. runs[i].snap \in Snapshots
    BY <1>3 DEF Runs
  <2> QED
    BY <1>3, <2>1, <2>2 DEF Jobs, Steps, ChildSteps
<1>5. jobs' = [jobs EXCEPT ![p] = job]
  BY <1>1 DEF IInv, TypeOK
<1> HIDE DEF job
<1>6. Pushed(runs[i].snap) /\ OfItsPages(runs[i].snap)
  BY <1>1, InvByParts DEF RowFits
<1>7. UNCHANGED <<shown, home, branch>> /\ ~HasChild(p)
  BY DEF StartUnpublish, HasChild, ChildSteps
<1> DEFINE status == "unpublishing"
<1>8. /\ status \in Active /\ runs[i].status \notin Active
      /\ runs' = [runs EXCEPT ![i].status = status]
      /\ status = IF job.mode = "retire" THEN "unpublishing" ELSE "deploying"
  BY <1>1, <1>4 DEF Active
<1>9. /\ job.at \in {"spawned", "verified"} /\ job.mode \in {"publish", "retire"}
      /\ job.at = "verified" => job.mode = "retire"
      /\ OfItsPages(job.snap)
  BY <1>4, <1>6
<1> HIDE DEF status
<1> QED
  BY <1>4, <1>5, <1>6, <1>7, <1>8, <1>9, OwnRowKeeps

\* The branch grows at its end: what was pushed stays pushed.
LEMMA PushKeeps ==
    ASSUME IInv, NEW p \in Requests, Push(p)
    PROVE  IInv'
<1> DEFINE n == Len(branch) + 1
           tree == Projection(p)
           job == [jobs[p] EXCEPT !.at = "pushed", !.read = Empty]
<1>1. JobFits(p) /\ HasChild(p)
  BY InvByParts DEF Push, HasChild, ChildSteps
<1>2. tree \in Trees /\ OfItsPages(tree.pages)
  BY <1>1, JobType DEF Projection, Tombstone, Trees, JobFits
<1>3. /\ runs' = runs /\ UNCHANGED <<shown, home>> /\ branch' = Append(branch, tree)
      /\ branch \in Seq(Trees) /\ DOMAIN branch = 1..Len(branch) /\ Len(branch) \in Nat
      /\ runs \in Seq(Runs) /\ DOMAIN runs = 1..Len(runs)
  BY LenProperties DEF Push, IInv, TypeOK
<1> HIDE DEF tree
<1>4. /\ branch' \in Seq(Trees) /\ DOMAIN branch' = 1..n
      /\ \A k \in 1..Len(branch) : branch'[k] = branch[k]
      /\ branch'[n] = tree
  BY <1>2, <1>3, AppendProperties, LenProperties
<1>5. RowsKept(0) /\ 0 \notin DOMAIN runs
  BY <1>3, <1>4 DEF RowsKept
<1>6. /\ job \in Jobs /\ job.at = "pushed" /\ job.mode = jobs[p].mode
      /\ job.run = jobs[p].run /\ job.snap = jobs[p].snap /\ job.read = Empty
      /\ job.built = jobs[p].built
  BY JobType DEF Jobs, Steps, ChildSteps
<1>7. jobs' = [jobs EXCEPT ![p] = job]
  BY DEF Push, Goes, IInv, TypeOK
<1> HIDE DEF job
<1>8. /\ jobs' \in [Requests -> Jobs] /\ jobs'[p] = job
      /\ \A q \in Requests : q # p => jobs'[q] = jobs[q]
  BY <1>6, <1>7 DEF IInv, TypeOK
<1>9. HasChild(p)' /\ \A q \in Requests : HasChild(q)' <=> HasChild(q)
  BY <1>1, <1>6, <1>8 DEF HasChild, ChildSteps
<1>10. job.run # 0 =>
         IF job.mode = "retire"
         THEN \E k, l \in DOMAIN branch' :
                 k < l /\ branch'[k].pages = job.snap /\ branch'[l] = Tombstone
         ELSE \E k \in DOMAIN branch' : branch'[k].pages = job.snap
  <2>1. CASE jobs[p].mode # "retire"
    <3>1. branch'[n].pages = job.snap /\ n \in DOMAIN branch'
      BY <1>3, <1>4, <1>6, <2>1 DEF tree, Projection
    <3> QED
      BY <1>6, <2>1, <3>1
  <2>2. CASE jobs[p].mode = "retire" /\ job.run # 0
    <3>1. runs[job.run].status = "unpublishing" /\ runs[job.run].snap = job.snap
          /\ job.run \in DOMAIN runs
      BY <1>1, <1>6, <2>2 DEF JobFits
    <3>2. Pushed(job.snap)
      BY <3>1, InvByParts DEF RowFits
    <3>3. PICK k \in DOMAIN branch : branch[k].pages = job.snap
      BY <3>2 DEF Pushed
    <3>4. branch'[n] = Tombstone /\ n \in DOMAIN branch' /\ k < n
          /\ k \in DOMAIN branch' /\ branch'[k].pages = job.snap
      BY <1>3, <1>4, <2>2, <3>3 DEF tree, Projection
    <3> QED
      BY <1>6, <2>2, <3>4
  <2> QED
    BY <2>1, <2>2
<1>11. JobFits(p)'
  <2>1. OfItsPages(jobs[p].read)' /\ OfItsPages(jobs[p].snap)'
    BY <1>1, <1>3, <1>6, <1>8, JobType DEF JobFits, OfItsPages, Empty
  <2>2. job.mode = "publish" =>
          \A s \in Slugs : job.snap[s] # None => job.built[s] = job.snap[s]
    BY <1>1, <1>6 DEF Push, JobFits
  <2>3. job.run # 0 =>
          /\ job.run \in DOMAIN runs
          /\ runs[job.run].snap = job.snap
          /\ runs[job.run].status = IF job.mode = "retire" THEN "unpublishing" ELSE "deploying"
          /\ \A q \in Requests : (HasChild(q)' /\ jobs'[q].run = job.run) => q = p
    BY <1>1, <1>6, <1>8, <1>9 DEF JobFits
  <2>4. job.mode \in {"publish", "retire"}
    BY <1>1, <1>6 DEF JobFits
  <2> QED
    BY <1>3, <1>6, <1>8, <1>10, <2>1, <2>2, <2>3, <2>4
    DEF JobFits, AfterBuild, Retired, Pushed, Tombstone, Empty
<1>12. \A k \in DOMAIN branch' : k \notin DOMAIN branch => OfItsPages(branch'[k].pages)
  BY <1>2, <1>3, <1>4
<1>13. HasChild(p)' /\ jobs'[p].run = jobs[p].run
  BY <1>6, <1>8, <1>9
<1> QED
  BY <1>3, <1>5, <1>8, <1>11, <1>12, <1>13, JobStepKeeps

\* What was made public under a page stays so, whatever is shown now.
LEMMA HomesStay ==
    ASSUME NEW snap \in Snapshots, OfItsPages(snap),
           \A r \in RevIds : home[r] # None => home'[r] = home[r]
    PROVE  OfItsPages(snap)'
BY NoneAssumption DEF Snapshots, OfItsPages

\* A page shows what it showed, nothing, or what was never public before: a
\* revision that stops being public never is again.
LEMMA PagesKeep ==
    ASSUME IInv, UNCHANGED <<runs, branch, jobs>>,
           shown' \in Snapshots, home' \in [RevIds -> Slugs \cup {None}],
           \A r \in RevIds : home[r] # None => home'[r] = home[r],
           OfItsPages(shown)',
           \A s \in Slugs : \/ shown'[s] \in {shown[s], None}
                            \/ home[shown'[s]] = None
    PROVE  IInv'
<1>1. TypeOK'
  BY DEF IInv, TypeOK
<1>2. ASSUME NEW i \in DOMAIN runs'
      PROVE  RowFits(i)' /\ Driven(i)'
  <2>0. i \in DOMAIN runs /\ runs[i] \in Runs
    BY <1>2, ElementOfSeq, LenProperties DEF IInv, TypeOK
  <2>1. RowFits(i) /\ Driven(i) /\ runs[i].snap \in Snapshots
    BY <2>0, InvByParts DEF Runs
  <2>2. OfItsPages(runs[i].snap)'
    BY <2>1, HomesStay DEF RowFits, OfItsPages
  <2> QED
    BY <2>1, <2>2 DEF RowFits, Driven, HasChild, Pushed, Retired, Tombstone, Empty
<1>3. ASSUME NEW p \in Requests
      PROVE  JobFits(p)'
  <2>1. JobFits(p) /\ (HasChild(p)' <=> HasChild(p)) /\ (AfterBuild(p)' <=> AfterBuild(p))
    BY InvByParts DEF HasChild, AfterBuild
  <2>2. \A q \in Requests : HasChild(q)' <=> HasChild(q)
    BY DEF HasChild
  <2>3. OfItsPages(jobs[p].read)' /\ (HasChild(p) => OfItsPages(jobs[p].snap)')
    BY <2>1, HomesStay, JobType DEF JobFits, OfItsPages
  <2>4. ASSUME NEW s \in Slugs, AfterBuild(p), jobs[p].snap[s] # None,
               jobs[p].built[s] # jobs[p].snap[s]
        PROVE  /\ shown'[s] # jobs[p].snap[s]
               /\ jobs[p].at = "verifying" => jobs[p].read[s] # jobs[p].snap[s]
    <3>1. HasChild(p)
      BY <2>4 DEF AfterBuild, HasChild, ChildSteps
    <3>2. home[jobs[p].snap[s]] # None
      BY <2>1, <2>4, <3>1, NoneAssumption DEF JobFits, OfItsPages
    <3> QED
      BY <2>1, <2>4, <3>2 DEF JobFits
  <2>5. (jobs[p].at = "pushed" /\ jobs[p].run # 0) =>
           IF jobs[p].mode = "retire" THEN Retired(jobs[p].snap)' ELSE Pushed(jobs[p].snap)'
    BY <2>1 DEF JobFits, Pushed, Retired, Tombstone, Empty
  <2> QED
    BY <2>1, <2>2, <2>3, <2>4, <2>5 DEF JobFits, DoneJob, NewJob, Empty, OfItsPages
<1>4. ASSUME NEW k \in DOMAIN branch'
      PROVE  OfItsPages(branch[k].pages)'
  <2>0. branch[k] \in Trees /\ k \in DOMAIN branch
    BY <1>4, ElementOfSeq, LenProperties DEF IInv, TypeOK
  <2>1. OfItsPages(branch[k].pages) /\ branch[k].pages \in Snapshots
    BY <2>0, InvByParts DEF Trees
  <2> QED
    BY <2>1, HomesStay DEF OfItsPages
<1> QED
  BY <1>1, <1>2, <1>3, <1>4, InvByPartsNext DEF Parts

LEMMA ApproveKeeps ==
    ASSUME IInv, NEW s \in Slugs, Approve(s)
    PROVE  IInv'
<1>0. PICK history \in SUBSET RevIds : \E r \in history : Show(s, r, history)
  BY DEF Approve
<1>1. PICK r \in history : Show(s, r, history)
  BY <1>0
<1>2. /\ UNCHANGED <<runs, branch, jobs>> /\ r \in RevIds /\ home[r] = None
      /\ shown' = [shown EXCEPT ![s] = r]
      /\ home' = [q \in RevIds |-> IF q \in history THEN s ELSE home[q]]
  BY <1>1 DEF Approve, Show
<1>3. /\ shown' \in Snapshots /\ home' \in [RevIds -> Slugs \cup {None}]
      /\ \A q \in RevIds : home[q] # None => home'[q] = home[q]
  BY <1>1, <1>2 DEF Show, IInv, TypeOK, Snapshots
<1>4. ASSUME NEW x \in Slugs
      PROVE  /\ shown'[x] # None => home'[shown'[x]] = x
             /\ shown'[x] = shown[x] \/ home[shown'[x]] = None
  <2>1. CASE x = s
    BY <1>1, <1>2, <2>1 DEF IInv, TypeOK, Snapshots
  <2>2. CASE x # s
    <3>1. shown'[x] = shown[x] /\ shown[x] \in RevIds \cup {None}
      BY <1>2, <2>2 DEF IInv, TypeOK, Snapshots
    <3>2. shown[x] # None => home[shown[x]] = x
      BY InvByParts DEF OfItsPages
    <3> QED
      BY <1>3, <3>1, <3>2, NoneAssumption
  <2> QED
    BY <2>1, <2>2
<1>5. OfItsPages(shown)'
  BY <1>4 DEF OfItsPages
<1> QED
  BY <1>2, <1>3, <1>4, <1>5, PagesKeep

LEMMA WithdrawKeeps ==
    ASSUME IInv, NEW s \in Slugs, Withdraw(s)
    PROVE  IInv'
<1>1. UNCHANGED <<home, runs, branch, jobs>> /\ shown' = [shown EXCEPT ![s] = None]
  BY DEF Withdraw, Hide
<1>2. /\ shown' \in Snapshots /\ home' \in [RevIds -> Slugs \cup {None}]
      /\ \A x \in Slugs : shown'[x] \in {shown[x], None}
  BY <1>1 DEF IInv, TypeOK, Snapshots
<1>3. OfItsPages(shown)'
  BY <1>1, <1>2, InvByParts DEF OfItsPages
<1> QED
  BY <1>1, <1>2, <1>3, PagesKeep

\* A child that outlives its server has no row any more.
LEMMA ServerStopKeeps ==
    ASSUME IInv, ServerStop
    PROVE  IInv'
<1>1. PICK survivors \in SUBSET {p \in Requests : HasChild(p)} :
        jobs' = [p \in Requests |->
                   CASE p \in survivors -> [jobs[p] EXCEPT !.run = 0]
                     [] jobs[p].at = "new" -> jobs[p]
                     [] OTHER -> DoneJob]
  BY DEF ServerStop
<1>2. UNCHANGED <<shown, home, runs, branch>>
  BY DEF ServerStop
<1>3. DoneJob \in Jobs /\ DoneJob.at = "done" /\ DoneJob.read = Empty /\ DoneJob.run = 0
  BY DEF DoneJob, NewJob, Jobs, Steps, Snapshots, Empty
<1>4. ASSUME NEW p \in Requests
      PROVE  JobFits(p)' /\ jobs'[p] \in Jobs
  <2>1. JobFits(p) /\ UNCHANGED <<shown, home>>
    BY <1>2, InvByParts
  <2>2. CASE p \in survivors
    <3> DEFINE job == [jobs[p] EXCEPT !.run = 0]
    <3>1. jobs'[p] = job /\ HasChild(p)
      <4>1. HasChild(p) /\ jobs[p].at # "new"
        BY <2>2 DEF HasChild, ChildSteps
      <4>2. jobs'[p] = job
        BY <1>1, <2>2, <4>1
      <4> QED
        BY <4>1, <4>2
    <3>2. /\ job \in Jobs /\ job.run = 0 /\ job.at = jobs[p].at /\ job.mode = jobs[p].mode
          /\ job.snap = jobs[p].snap /\ job.read = jobs[p].read /\ job.built = jobs[p].built
      BY JobType DEF Jobs
    <3> HIDE DEF job
    <3>3. (HasChild(p)' <=> HasChild(p)) /\ (AfterBuild(p)' <=> AfterBuild(p))
      BY <3>1, <3>2 DEF HasChild, AfterBuild
    <3>4. jobs[p].at \notin {"new", "reading", "done"}
      BY <3>1 DEF HasChild, ChildSteps
    <3> QED
      BY <1>2, <2>1, <3>1, <3>2, <3>3, <3>4 DEF JobFits, OfItsPages
  <2>3. CASE p \notin survivors /\ jobs[p].at = "new"
    <3>1. jobs'[p] = jobs[p]
      BY <1>1, <2>3
    <3>2. ~HasChild(p) /\ ~HasChild(p)' /\ ~AfterBuild(p)'
      BY <2>3, <3>1 DEF HasChild, AfterBuild, ChildSteps
    <3> QED
      BY <1>2, <2>1, <2>3, <3>1, <3>2, JobType DEF JobFits, DoneJob, NewJob, Empty, OfItsPages
  <2>4. CASE p \notin survivors /\ jobs[p].at # "new"
    <3>1. jobs'[p] = DoneJob
      BY <1>1, <2>4
    <3>2. ~HasChild(p)' /\ ~AfterBuild(p)'
      BY <1>3, <3>1 DEF HasChild, AfterBuild, ChildSteps
    <3>3. OfItsPages(DoneJob.read)'
      BY <1>3 DEF OfItsPages, Empty
    <3> QED
      BY <1>2, <1>3, <3>1, <3>2, <3>3 DEF JobFits
  <2> QED
    BY <2>2, <2>3, <2>4
<1>5. ASSUME NEW i \in DOMAIN runs'
      PROVE  RowFits(i)' /\ Driven(i)'
  <2>1. Faults
    BY DEF ServerStop
  <2> QED
    BY <1>2, <1>5, <2>1, InvByParts
    DEF RowFits, Driven, Pushed, Retired, Tombstone, Empty, OfItsPages
<1>6. TypeOK'
  <2>1. jobs' \in [Requests -> Jobs]
    BY <1>1, <1>4
  <2> QED
    BY <1>2, <2>1 DEF IInv, TypeOK
<1>7. OfItsPages(shown)' /\ (\A k \in DOMAIN branch' : OfItsPages(branch[k].pages)')
  BY <1>2, InvByParts DEF OfItsPages
<1> QED
  BY <1>4, <1>5, <1>6, <1>7, InvByPartsNext DEF Parts

LEMMA InitInv == Init => IInv
<1> SUFFICES ASSUME Init PROVE IInv
  OBVIOUS
<1>1. NewJob \in Jobs /\ OfItsPages(Empty)
  BY DEF NewJob, Jobs, Steps, Snapshots, Empty, OfItsPages
<1>2. TypeOK
  BY <1>1, EmptySeq DEF Init, Nobody, TypeOK, Snapshots
<1>3. DOMAIN runs = {} /\ DOMAIN branch = {} /\ OfItsPages(shown)
  BY LenProperties, <1>2 DEF Init, Nobody, OfItsPages
<1>4. ASSUME NEW p \in Requests
      PROVE  JobFits(p)
  <2>1. jobs[p] = NewJob /\ jobs[p].at = "new" /\ jobs[p].run = 0 /\ jobs[p].read = Empty
    BY DEF Init, NewJob
  <2>2. ~HasChild(p) /\ ~AfterBuild(p)
    BY <2>1 DEF HasChild, AfterBuild, ChildSteps
  <2> QED
    BY <1>1, <2>1, <2>2 DEF JobFits
<1> QED
  BY <1>2, <1>3, <1>4, InvByParts

LEMMA StutterKeeps ==
    ASSUME IInv, UNCHANGED vars
    PROVE  IInv'
<1>1. TypeOK' /\ RetriesNameRows' /\ DriversOwnTheirRuns'
  BY DEF vars, IInv, TypeOK, RetriesNameRows, DriversOwnTheirRuns, HasChild, Empty, NewJob, DoneJob
<1>2. ReadWasPublic' /\ HostShowsItsPages' /\ ActiveRowsAreDriven'
  BY DEF vars, IInv, ReadWasPublic, HostShowsItsPages, ActiveRowsAreDriven, OfItsPages, HasChild
<1>3. GoneStaysGone' /\ PushedWasPublicTogether' /\ PushesStay' /\ StatusesAreTrue'
  BY DEF vars, IInv, GoneStaysGone, PushedWasPublicTogether, PushesStay, StatusesAreTrue,
         AfterBuild, Pushed, Retired, Tombstone, Empty
<1> QED
  BY <1>1, <1>2, <1>3 DEF IInv

LEMMA StepKeeps ==
    ASSUME IInv, NEW p \in Requests, Step(p)
    PROVE  IInv'
<1>1. CASE KeepsExisting(p) \/ RefuseRetry(p)
  BY <1>1, EndKeeps DEF KeepsExisting, RefuseRetry, HasRead, HasChild, ChildSteps
<1> QED
  BY <1>1, ReadPageKeeps, StartRunKeeps, StartRetryKeeps, ChildListsKeeps, CheckBeforeKeeps,
     EndBuildKeeps, CheckAfterKeeps, ReadParentKeeps, PushKeeps, FinishKeeps, FailKeeps
  DEF Step

LEMMA NextKeeps ==
    ASSUME IInv, [Next]_vars
    PROVE  IInv'
<1>1. CASE \E s \in Slugs : Approve(s) \/ Withdraw(s)
  BY <1>1, ApproveKeeps, WithdrawKeeps
<1>2. CASE \E p \in Requests : Step(p)
  BY <1>2, StepKeeps
<1>3. ASSUME NEW p \in Requests,
             \/ ArrivePublish(p)
             \/ \E i \in DOMAIN runs : ArriveRetry(p, i)
             \/ StartUnpublish(p)
             \/ RefuseUnpublish(p)
      PROVE  IInv'
  <2>1. CASE RefuseUnpublish(p)
    BY <2>1, EndKeeps DEF RefuseUnpublish, HasChild, ChildSteps
  <2> QED
    BY <1>3, <2>1, ArrivePublishKeeps, ArriveRetryKeeps, StartUnpublishKeeps
<1>4. CASE ServerStop
  BY <1>4, ServerStopKeeps
<1>5. CASE \E p \in Requests : StoreFails(p)
  BY <1>5, StoreFailsKeeps
<1>6. CASE UNCHANGED vars
  BY <1>6, StutterKeeps
<1> QED
  BY <1>1, <1>2, <1>3, <1>4, <1>5, <1>6 DEF Next, Publish

\* Whatever is approved, asked for, retried, failed or stopped, and in whatever
\* order the handlers and the children take their steps, the invariant holds.
THEOREM Invariance == Spec => []IInv
<1>1. Init => IInv
  BY InitInv
<1>2. IInv /\ [Next]_vars => IInv'
  BY NextKeeps
<1> QED
  BY <1>1, <1>2, PTL DEF Spec

\* Every row, job and pushed tree keeps its shape.
THEOREM TypeCorrect == Spec => []TypeOK
<1>1. IInv => TypeOK
  BY DEF IInv
<1> QED
  BY <1>1, Invariance, PTL

\* A row that is being worked on has one driver: publish, retry and unpublish of
\* publication-orchestrator.ts never hand one row to two children.
THEOREM DriversCorrect == Spec => []DriversOwnTheirRuns
<1>1. IInv => DriversOwnTheirRuns
  BY DEF IInv
<1> QED
  BY <1>1, Invariance, PTL

\* The two readings of publish-site.mjs, page by page, before the build and
\* after it, are enough for what is pushed to have been public at one moment.
THEOREM TogetherCorrect == Spec => []PushedWasPublicTogether
<1>1. IInv => PushedWasPublicTogether
  BY DEF IInv
<1> QED
  BY <1>1, Invariance, PTL

\* A row says published, or unpublished, only if its snapshot was pushed, and in
\* the second case taken down again with everything beside it.
THEOREM StatusesCorrect == Spec => []StatusesAreTrue
<1>1. IInv => StatusesAreTrue
  BY DEF IInv
<1> QED
  BY <1>1, Invariance, PTL

\* Of the page store's revisions the static host was never given a draft, a
\* private page or one under another page's address: a revision that a tree holds
\* under a slug was made public under that slug.
THEOREM HostCorrect == Spec => []HostShowsItsPages
<1>1. IInv => HostShowsItsPages
  BY DEF IInv
<1> QED
  BY <1>1, Invariance, PTL

\* No row is stuck: while the server and the run store hold, a row that is
\* deploying or unpublishing has a child that will report to it.
THEOREM DrivenCorrect == Spec => []ActiveRowsAreDriven
<1>1. IInv => ActiveRowsAreDriven
  BY DEF IInv
<1> QED
  BY <1>1, Invariance, PTL

-----------------------------------------------------------------------------

\* What a step may do to the job of one request.
GoesForward(p) ==
    \/ Distance[jobs'[p].at] < Distance[jobs[p].at]
    \/ /\ jobs'[p].at = jobs[p].at
       /\ jobs'[p].todo \subseteq jobs[p].todo
       /\ jobs'[p].todo = jobs[p].todo =>
            jobs'[p] \in {jobs[p], [jobs[p] EXCEPT !.run = 0]}

LEMMA SameGoesForward ==
    ASSUME NEW p, jobs'[p] = jobs[p]
    PROVE  GoesForward(p)
BY DEF GoesForward

\* A request ends at any step but the last.
LEMMA EndGoesForward ==
    ASSUME IInv, NEW p \in Requests, Ends(p), jobs[p].at # "done"
    PROVE  GoesForward(p)
<1>1. jobs'[p].at = "done"
  BY DEF Ends, DoneJob, NewJob, IInv, TypeOK
<1>2. Distance[jobs[p].at] > 0 /\ Distance["done"] = 0
  BY JobType DEF Distance, Steps, ChildSteps
<1> QED
  BY <1>1, <1>2 DEF GoesForward

LEMMA StepGoesForward ==
    ASSUME IInv, NEW p \in Requests, Step(p)
    PROVE  GoesForward(p)
<1>1. ASSUME NEW s \in Slugs, ReadPage(p, s)
      PROVE  GoesForward(p)
  <2>1. PICK files \in FilesAfter(p, s) :
          jobs' = [jobs EXCEPT ![p].todo = @ \ {s}, ![p].read[s] = shown[s], ![p].files = files]
    BY <1>1 DEF ReadPage
  <2>2. jobs'[p] = [jobs[p] EXCEPT !.todo = @ \ {s}, !.read[s] = shown[s], !.files = files]
    BY <2>1 DEF IInv, TypeOK
  <2>3. jobs'[p].at = jobs[p].at /\ jobs'[p].todo = jobs[p].todo \ {s}
    BY <2>2, JobType DEF Jobs
  <2> QED
    BY <1>1, <2>3 DEF ReadPage, GoesForward
<1>2. CASE KeepsExisting(p) \/ RefuseRetry(p) \/ Finish(p) \/ Fail(p)
  BY <1>2, EndGoesForward
  DEF KeepsExisting, RefuseRetry, Finish, Fail, HasRead, HasChild, ChildSteps
<1>3. CASE StartRun(p) \/ StartRetry(p)
  BY <1>3, JobType DEF StartRun, StartRetry, HasRead, GoesForward, Distance, IInv, TypeOK, Jobs
<1>4. CASE ChildLists(p)
  <2>1. \/ jobs[p].at = "spawned" /\ jobs'[p].at = "checking"
        \/ jobs[p].at = "built" /\ jobs'[p].at = "verifying"
    <3>1. ASSUME NEW step, Lists(p, step)
          PROVE  jobs'[p].at = step
      <4>1. PICK todo : jobs' = [jobs EXCEPT ![p].at = step, ![p].todo = todo, ![p].read = Empty]
        BY <3>1 DEF Lists
      <4> QED
        BY <4>1, JobType DEF IInv, TypeOK, Jobs
    <3>2. ASSUME NEW todo, jobs' = [jobs EXCEPT ![p].at = "checking", ![p].todo = todo,
                                               ![p].read = Empty, ![p].files = SourceSlugs]
          PROVE  jobs'[p].at = "checking"
      BY <3>2, JobType DEF IInv, TypeOK, Jobs
    <3> QED
      BY <1>4, <3>1, <3>2 DEF ChildLists
  <2> QED
    BY <2>1 DEF GoesForward, Distance
<1>5. CASE CheckBefore(p) \/ CheckAfter(p) \/ Push(p)
  BY <1>5, JobType
  DEF CheckBefore, CheckAfter, Push, Goes, HasRead, GoesForward, Distance, IInv, TypeOK, Jobs
<1>6. CASE EndBuild(p) \/ ReadParent(p)
  BY <1>6, JobType DEF EndBuild, ReadParent, GoesForward, Distance, IInv, TypeOK, Jobs
<1> QED
  BY <1>1, <1>2, <1>3, <1>4, <1>5, <1>6 DEF Step

\* Only request p moves in a step that is its own.
LEMMA OthersStay ==
    ASSUME IInv, NEW p \in Requests, NEW q \in Requests, q # p,
           \/ ArrivePublish(p)
           \/ \E i \in DOMAIN runs : ArriveRetry(p, i)
           \/ StartUnpublish(p)
           \/ RefuseUnpublish(p)
           \/ Step(p) \/ StoreFails(p)
    PROVE  jobs'[q] = jobs[q]
BY DEF ArrivePublish, ArriveRetry, StartUnpublish, RefuseUnpublish, Step, Lists, Ends, Goes,
       ReadPage, KeepsExisting, StartRun, RefuseRetry, StartRetry, ChildLists, CheckBefore,
       EndBuild, CheckAfter, ReadParent, Push, Finish, Fail, StoreFails, IInv, TypeOK

LEMMA ArriveGoesForward ==
    ASSUME IInv, NEW p \in Requests,
           \/ ArrivePublish(p)
           \/ \E i \in DOMAIN runs : ArriveRetry(p, i)
           \/ StartUnpublish(p)
    PROVE  GoesForward(p)
<1>1. /\ jobs[p].at = "new"
      /\ jobs'[p].at \in {"reading", "verified"}
  <2>1. CASE ArrivePublish(p)
    <3>1. PICK todo : jobs' = [jobs EXCEPT ![p].at = "reading", ![p].todo = todo, ![p].read = Empty]
      BY <2>1 DEF ArrivePublish, Lists
    <3> QED
      BY <2>1, <3>1, JobType DEF ArrivePublish, IInv, TypeOK, Jobs
  <2>2. ASSUME NEW i, ArriveRetry(p, i)
        PROVE  jobs[p].at = "new" /\ jobs'[p].at = "reading"
    <3>1. PICK todo : jobs' = [jobs EXCEPT ![p].at = "reading", ![p].mode = "retry",
                                           ![p].run = i, ![p].todo = todo]
      BY <2>2 DEF ArriveRetry
    <3> QED
      BY <2>2, <3>1, JobType DEF ArriveRetry, IInv, TypeOK, Jobs
  <2>3. CASE StartUnpublish(p)
    <3>1. PICK i, snap : jobs' = [jobs EXCEPT ![p].at = "verified", ![p].mode = "retire",
                                              ![p].run = i, ![p].snap = snap]
      BY <2>3 DEF StartUnpublish
    <3>2. jobs'[p] = [jobs[p] EXCEPT !.at = "verified", !.mode = "retire",
                                     !.run = i, !.snap = snap]
      BY <3>1 DEF IInv, TypeOK
    <3>3. jobs'[p].at = "verified"
      BY <3>2, JobType DEF Jobs
    <3> QED
      BY <2>3, <3>3 DEF StartUnpublish
  <2> QED
    BY <2>1, <2>2, <2>3
<1> QED
  BY <1>1 DEF GoesForward, Distance

\* Handlers and children only go forward, whatever other requests, approvals,
\* failures and the end of the server do: no step of publishing is repeated.
THEOREM ForwardCorrect == Spec => RequestsGoForward
<1>1. ASSUME IInv, Next, NEW q \in Requests
      PROVE  GoesForward(q)
  <2>1. CASE \E s \in Slugs : Approve(s) \/ Withdraw(s)
    BY <2>1, SameGoesForward DEF Approve, Withdraw
  <2>2. CASE ServerStop
    <3>1. PICK survivors \in SUBSET {p \in Requests : HasChild(p)} :
            jobs' = [p \in Requests |->
                       CASE p \in survivors -> [jobs[p] EXCEPT !.run = 0]
                         [] jobs[p].at = "new" -> jobs[p]
                         [] OTHER -> DoneJob]
      BY <2>2 DEF ServerStop
    <3>2. CASE q \in survivors
      BY <1>1, <3>1, <3>2 DEF GoesForward, IInv, TypeOK, Jobs
    <3>3. CASE q \notin survivors /\ jobs[q].at = "new"
      BY <3>1, <3>3, SameGoesForward
    <3>4. CASE q \notin survivors /\ jobs[q].at = "done"
      <4>1. jobs[q] = DoneJob
        BY <1>1, <3>4, InvByParts DEF JobFits
      <4> QED
        BY <3>1, <3>4, <4>1, SameGoesForward
    <3>5. CASE q \notin survivors /\ jobs[q].at \notin {"new", "done"}
      <4>1. jobs'[q] = DoneJob
        BY <3>1, <3>5
      <4>2. Distance[jobs[q].at] > 0 /\ Distance[DoneJob.at] = 0
        BY <1>1, <3>5, JobType DEF Distance, Steps, ChildSteps, DoneJob, NewJob
      <4> QED
        BY <4>1, <4>2 DEF GoesForward
    <3> QED
      BY <3>2, <3>3, <3>4, <3>5
  <2>3. ASSUME NEW p \in Requests,
               \/ ArrivePublish(p)
               \/ \E i \in DOMAIN runs : ArriveRetry(p, i)
               \/ StartUnpublish(p)
               \/ RefuseUnpublish(p)
               \/ Step(p) \/ StoreFails(p)
        PROVE  GoesForward(q)
    <3>1. CASE q # p
      BY <1>1, <2>3, <3>1, OthersStay, SameGoesForward
    <3>2. CASE q = p /\ (RefuseUnpublish(p) \/ StoreFails(p))
      BY <1>1, <3>2, EndGoesForward DEF RefuseUnpublish, StoreFails
    <3>3. CASE q = p /\ ~RefuseUnpublish(p) /\ ~StoreFails(p)
      BY <1>1, <2>3, <3>3, ArriveGoesForward, StepGoesForward
    <3> QED
      BY <3>1, <3>2, <3>3
  <2> QED
    BY <1>1, <2>1, <2>2, <2>3 DEF Next, Publish
<1>2. IInv /\ [Next]_vars =>
        [\A p \in Requests :
            \/ Distance[jobs'[p].at] < Distance[jobs[p].at]
            \/ /\ jobs'[p].at = jobs[p].at
               /\ jobs'[p].todo \subseteq jobs[p].todo
               /\ jobs'[p].todo = jobs[p].todo =>
                    jobs'[p] \in {jobs[p], [jobs[p] EXCEPT !.run = 0]}]_vars
  BY <1>1 DEF GoesForward
<1> QED
  BY <1>2, Invariance, PTL DEF Spec, RequestsGoForward

=============================================================================
