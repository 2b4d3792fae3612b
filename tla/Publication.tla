------------------------------ MODULE Publication -----------------------------
(***************************************************************************)
(* Publishing the site: admin requests (publish, retry, unpublish) of       *)
(* functions/admin/api/publication.js, the run rows of the orchestrator,    *)
(* the publisher child process of scripts/publish-site.mjs and the branch   *)
(* of the static host it pushes to, while pages are approved and withdrawn. *)
(*                                                                          *)
(* A run is bound to a snapshot: the public revision of every page.  The    *)
(* handler reads it page by page, the child reads it again before the build *)
(* and once more after it, and only then touches the host.  The child may   *)
(* fail anywhere, after the push too, and the server may stop while         *)
(* children go on.                                                          *)
(*                                                                          *)
(* The pages are those of PublicPages, which the page store implements.     *)
(*                                                                          *)
(* Beside the pages of the store the child builds those the repository has  *)
(* in src/content/pages, unless it found the page in the store and not      *)
(* public.  They are in no snapshot, and neither check looks at them.       *)
(*                                                                          *)
(* Abstracted: a snapshot stands for its own hash, and what is built of the *)
(* store is the snapshot it was built from.  A row goes from queued to      *)
(* deploying without a real suspension, so a running row is "deploying".    *)
(* Posts, documents and revision histories in the tree, attempts, commit    *)
(* identities, URLs and error codes are left out.                           *)
(***************************************************************************)
EXTENDS PublicPages, Naturals, Sequences, FiniteSets

CONSTANTS
    SourceSlugs,    \* pages the repository has a public file of
    Requests,       \* admin requests, each made once
    Faults          \* whether the server may stop, and the run store fail

ASSUME NoneAssumption == None \notin RevIds \cup Slugs

VARIABLES
    runs,       \* the rows of publication_runs, ordered by started_at
    branch,     \* what was pushed to the static host, oldest first
    jobs        \* request -> how far its handler or its child has come

vars == <<shown, home, runs, branch, jobs>>

-----------------------------------------------------------------------------

\* A snapshot maps every slug to the revision it shows, or to None.
Snapshots == [Slugs -> RevIds \cup {None}]
Empty == [s \in Slugs |-> None]

\* What a push puts on the host: the pages of a snapshot, and the slugs the
\* repository's own files stand under.  A page of the store is written over the
\* file of its slug, of which only the translations then remain.
Trees == [pages : Snapshots, files : SUBSET SourceSlugs]

\* retireStaticSite replaces the whole tree: no page is left.
Tombstone == [pages |-> Empty, files |-> {}]

\* What the static host serves now.
Live == IF branch = <<>> THEN Tombstone ELSE branch[Len(branch)]

\* ACTIVE: a row some request is working on.
Active == {"deploying", "unpublishing"}
Statuses == Active \cup {"published", "failed", "unpublished"}
Runs == [snap : Snapshots, status : Statuses]

ChildSteps == {"spawned", "checking", "building", "built", "verifying",
               "verified", "pushing", "pushed"}
Steps == ChildSteps \cup {"new", "reading", "done"}

\* A request: its row (0 for none), the snapshot it is bound to, the slugs it
\* has yet to read, what it has read, the files it will build, what was public
\* when its build ended (history, read by no step) and the branch length it will
\* push on.
Jobs == [at : Steps, mode : {"publish", "retry", "retire"}, run : Nat,
         snap : Snapshots, todo : SUBSET Slugs, read : Snapshots,
         files : SUBSET SourceSlugs, built : Snapshots, base : Nat]

NewJob == [at |-> "new", mode |-> "publish", run |-> 0, snap |-> Empty,
           todo |-> {}, read |-> Empty, files |-> {}, built |-> Empty, base |-> 0]

\* A request that was answered, or whose server stopped.
DoneJob == [NewJob EXCEPT !.at = "done"]

HasChild(p) == jobs[p].at \in ChildSteps

\* findBySnapshot: the newest row of a snapshot, whatever became of it.
IsLatestOf(i, snap) ==
    /\ i \in DOMAIN runs
    /\ runs[i].snap = snap
    /\ \A j \in DOMAIN runs : runs[j].snap = snap => j <= i

\* latestPublished.
IsLatestPublished(i) ==
    /\ i \in DOMAIN runs
    /\ runs[i].status = "published"
    /\ \A j \in DOMAIN runs : runs[j].status = "published" => j <= i

\* Published and running rows are answered as they are.
Settles(status) == status \in Active \cup {"published"}

\* The row of p gets a status; a child whose server stopped has nobody to do it.
Report(p, status) ==
    runs' = IF jobs[p].run = 0 THEN runs
            ELSE [runs EXCEPT ![jobs[p].run].status = status]

\* The job of p moves on to a step, forgetting what it read, or ends.
Goes(p, step) == jobs' = [jobs EXCEPT ![p].at = step, ![p].read = Empty]
Ends(p) == jobs' = [jobs EXCEPT ![p] = DoneJob]

-----------------------------------------------------------------------------

Init ==
    /\ Nobody
    /\ runs = <<>>
    /\ branch = <<>>
    /\ jobs = [p \in Requests |-> NewJob]

\* An approval, a published save, an adoption or an import.
Approve(s) ==
    /\ \E history \in SUBSET RevIds : \E r \in history : Show(s, r, history)
    /\ UNCHANGED <<runs, branch, jobs>>

\* A draft or private save, or the removal of the page.
Withdraw(s) ==
    /\ shown[s] # None
    /\ Hide(s)
    /\ UNCHANGED <<runs, branch, jobs>>

\* store.list(): every public page, and pages that exist without being public.
Lists(p, step) ==
    \E todo \in SUBSET Slugs :
        /\ {s \in Slugs : shown[s] # None} \subseteq todo
        /\ jobs' = [jobs EXCEPT ![p].at = step, ![p].todo = todo, ![p].read = Empty]

\* POST publish.
ArrivePublish(p) ==
    /\ jobs[p].at = "new"
    /\ Lists(p, "reading")
    /\ UNCHANGED <<shown, home, runs, branch>>

\* POST retry of row i: the row is read after the current snapshot.
ArriveRetry(p, i) ==
    /\ jobs[p].at = "new"
    /\ \E todo \in SUBSET Slugs :
         /\ {s \in Slugs : shown[s] # None} \subseteq todo
         /\ jobs' = [jobs EXCEPT ![p].at = "reading", ![p].mode = "retry",
                                 ![p].run = i, ![p].todo = todo]
    /\ UNCHANGED <<shown, home, runs, branch>>

\* The files the child will still build when it has loaded s before the build: a
\* page that is there and not public excludes its file, one that was removed
\* since it was listed does not.
FilesAfter(p, s) ==
    IF jobs[p].at = "checking" /\ shown[s] = None
    THEN {jobs[p].files, jobs[p].files \ {s}}
    ELSE {jobs[p].files}

\* Mutant of ReadPage: the answers of two loads are confused.
ReadPageOfAnother(p, s) ==
    /\ jobs[p].at \in {"reading", "checking", "verifying"}
    /\ s \in jobs[p].todo
    /\ \E t \in Slugs, files \in FilesAfter(p, s) :
         jobs' = [jobs EXCEPT ![p].todo = @ \ {s}, ![p].read[s] = shown[t],
                              ![p].files = files]
    /\ UNCHANGED <<shown, home, runs, branch>>

\* store.load(slug), by the handler or by its child.
ReadPage(p, s) ==
    /\ jobs[p].at \in {"reading", "checking", "verifying"}
    /\ s \in jobs[p].todo
    /\ \E files \in FilesAfter(p, s) :
         jobs' = [jobs EXCEPT ![p].todo = @ \ {s}, ![p].read[s] = shown[s],
                              ![p].files = files]
    /\ UNCHANGED <<shown, home, runs, branch>>

HasRead(p, step) == jobs[p].at = step /\ jobs[p].todo = {}

\* publish(): nothing to publish, or the newest row of the snapshot will do.
KeepsExisting(p) ==
    /\ HasRead(p, "reading")
    /\ jobs[p].mode = "publish"
    /\ \/ jobs[p].read = Empty
       \/ \E i \in DOMAIN runs : IsLatestOf(i, jobs[p].read) /\ Settles(runs[i].status)
    /\ Ends(p)
    /\ UNCHANGED <<shown, home, runs, branch>>

\* publish(): a new row, and a child bound to its snapshot.
StartRun(p) ==
    /\ HasRead(p, "reading")
    /\ jobs[p].mode = "publish"
    /\ jobs[p].read # Empty
    /\ \A i \in DOMAIN runs : IsLatestOf(i, jobs[p].read) => ~Settles(runs[i].status)
    /\ runs' = Append(runs, [snap |-> jobs[p].read, status |-> "deploying"])
    /\ jobs' = [jobs EXCEPT ![p].at = "spawned", ![p].run = Len(runs) + 1,
                            ![p].snap = jobs[p].read, ![p].read = Empty]
    /\ UNCHANGED <<shown, home, branch>>

\* Mutant of CanRetry: a running row may be retried.
CanRetryRunning(row, snap) == row.status # "published" /\ row.snap = snap

\* retry() goes ahead: the row is over and still names what is public.
CanRetry(row, snap) == ~Settles(row.status) /\ row.snap = snap

\* retry(): answered as it is, or stale_publication_snapshot.
RefuseRetry(p) ==
    /\ HasRead(p, "reading")
    /\ jobs[p].mode = "retry"
    /\ ~CanRetry(runs[jobs[p].run], jobs[p].read)
    /\ Ends(p)
    /\ UNCHANGED <<shown, home, runs, branch>>

\* retry(): the same row runs again, in its old place of the order.
StartRetry(p) ==
    /\ HasRead(p, "reading")
    /\ jobs[p].mode = "retry"
    /\ CanRetry(runs[jobs[p].run], jobs[p].read)
    /\ Report(p, "deploying")
    /\ jobs' = [jobs EXCEPT ![p].at = "spawned", ![p].mode = "publish",
                            ![p].snap = jobs[p].read, ![p].read = Empty]
    /\ UNCHANGED <<shown, home, branch>>

\* unpublish(): the child retires the site without looking at the pages.
StartUnpublish(p) ==
    /\ jobs[p].at = "new"
    /\ \E i \in DOMAIN runs :
         /\ IsLatestPublished(i)
         /\ runs' = [runs EXCEPT ![i].status = "unpublishing"]
         /\ jobs' = [jobs EXCEPT ![p].at = "verified", ![p].mode = "retire",
                                 ![p].run = i, ![p].snap = runs[i].snap]
    /\ UNCHANGED <<shown, home, branch>>

\* nothing_to_unpublish.
RefuseUnpublish(p) ==
    /\ jobs[p].at = "new"
    /\ \A i \in DOMAIN runs : runs[i].status # "published"
    /\ Ends(p)
    /\ UNCHANGED <<shown, home, runs, branch>>

-----------------------------------------------------------------------------

\* The child opens the page store, before the build and after it; files of pages
\* it does not list before the build are all built.
ChildLists(p) ==
    /\ \/ /\ jobs[p].at = "spawned"
          /\ \E todo \in SUBSET Slugs :
               /\ {s \in Slugs : shown[s] # None} \subseteq todo
               /\ jobs' = [jobs EXCEPT ![p].at = "checking", ![p].todo = todo,
                                       ![p].read = Empty, ![p].files = SourceSlugs]
       \/ jobs[p].at = "built" /\ Lists(p, "verifying")
    /\ UNCHANGED <<shown, home, runs, branch>>

\* The layouts read are the snapshot; they are what gets built.
CheckBefore(p) ==
    /\ HasRead(p, "checking")
    /\ jobs[p].read = jobs[p].snap
    /\ Goes(p, "building")
    /\ UNCHANGED <<shown, home, runs, branch>>

EndBuild(p) ==
    /\ jobs[p].at = "building"
    /\ jobs' = [jobs EXCEPT ![p].at = "built", ![p].built = shown]
    /\ UNCHANGED <<shown, home, runs, branch>>

\* Mutant of CheckAfter: the pages are not looked at again after the build.
CheckAfterUnchecked(p) ==
    /\ HasRead(p, "verifying")
    /\ Goes(p, "verified")
    /\ UNCHANGED <<shown, home, runs, branch>>

CheckAfter(p) ==
    /\ HasRead(p, "verifying")
    /\ jobs[p].read = jobs[p].snap
    /\ Goes(p, "verified")
    /\ UNCHANGED <<shown, home, runs, branch>>

\* getBranchHeadSha: the commit will have this parent.
ReadParent(p) ==
    /\ jobs[p].at = "verified"
    /\ jobs' = [jobs EXCEPT ![p].at = "pushing", ![p].base = Len(branch)]
    /\ UNCHANGED <<shown, home, runs, branch>>

\* What the child built: its snapshot, beside the repository's own pages.
Projection(p) ==
    IF jobs[p].mode = "retire" THEN Tombstone
    ELSE [pages |-> jobs[p].snap, files |-> jobs[p].files]

\* The ref moves with force: false: only if nobody moved it since.
Push(p) ==
    /\ jobs[p].at = "pushing"
    /\ jobs[p].base = Len(branch)
    /\ branch' = Append(branch, Projection(p))
    /\ Goes(p, "pushed")
    /\ UNCHANGED <<shown, home, runs>>

Finish(p) ==
    /\ jobs[p].at = "pushed"
    /\ Report(p, IF jobs[p].mode = "retire" THEN "unpublished" ELSE "published")
    /\ Ends(p)
    /\ UNCHANGED <<shown, home, branch>>

\* Mutant of Fail: the exit code of the child is not looked at.
FailUnnoticed(p) ==
    /\ HasChild(p)
    /\ Report(p, IF jobs[p].mode = "retire" THEN "unpublished" ELSE "published")
    /\ Ends(p)
    /\ UNCHANGED <<shown, home, branch>>

\* Mutant of Fail: the error is thrown on before the row is updated.
FailUnreported(p) ==
    /\ HasChild(p)
    /\ Ends(p)
    /\ UNCHANGED <<shown, home, runs, branch>>

\* A stale snapshot, a refused push, or an error of any step: the child exits,
\* also after the push, when enabling Pages or its last answer fails.
Fail(p) ==
    /\ HasChild(p)
    /\ Report(p, "failed")
    /\ Ends(p)
    /\ UNCHANGED <<shown, home, branch>>

\* The server process ends.  Its handlers are gone; a child dies with it or
\* goes on with nobody to report to.
ServerStop ==
    /\ Faults
    /\ \E survivors \in SUBSET {p \in Requests : HasChild(p)} :
         jobs' = [p \in Requests |->
                    CASE p \in survivors -> [jobs[p] EXCEPT !.run = 0]
                      [] jobs[p].at = "new" -> jobs[p]
                      [] OTHER -> DoneJob]
    /\ UNCHANGED <<shown, home, runs, branch>>

\* A statement of the run store fails, that which was to report an error among
\* them: the handler answers, if it can, and the row stays as it is.
StoreFails(p) ==
    /\ Faults
    /\ jobs[p].at \notin {"new", "done"}
    /\ Ends(p)
    /\ UNCHANGED <<shown, home, runs, branch>>

\* What a request does once it has arrived.
Step(p) ==
    \/ \E s \in Slugs : ReadPage(p, s)
    \/ KeepsExisting(p) \/ StartRun(p) \/ RefuseRetry(p) \/ StartRetry(p)
    \/ ChildLists(p) \/ CheckBefore(p) \/ EndBuild(p) \/ CheckAfter(p)
    \/ ReadParent(p) \/ Push(p) \/ Finish(p) \/ Fail(p)

\* What is done about publishing, the pages left alone.
Publish ==
    \/ \E p \in Requests :
         \/ ArrivePublish(p)
         \/ \E i \in DOMAIN runs : ArriveRetry(p, i)
         \/ StartUnpublish(p) \/ RefuseUnpublish(p)
         \/ Step(p) \/ StoreFails(p)
    \/ ServerStop

Next == Publish \/ \E s \in Slugs : Approve(s) \/ Withdraw(s)

Spec == Init /\ [][Next]_vars

\* The event loop and the child run what they can; a network call or a build
\* ends, well or badly.
FairSpec == Spec /\ \A p \in Requests : WF_vars(Step(p))

-----------------------------------------------------------------------------

\* Every row, job and pushed tree has its shape.
TypeOK ==
    /\ shown \in Snapshots
    /\ home \in [RevIds -> Slugs \cup {None}]
    /\ runs \in Seq(Runs)
    /\ branch \in Seq(Trees)
    /\ jobs \in [Requests -> Jobs]

\* A row that is being worked on belongs to one request, which is bound to the
\* snapshot the row names; no other request changes the row under it.
DriversOwnTheirRuns ==
    \A p \in Requests : (HasChild(p) /\ jobs[p].run # 0) =>
        /\ jobs[p].run \in DOMAIN runs
        /\ runs[jobs[p].run].snap = jobs[p].snap
        /\ runs[jobs[p].run].status =
             IF jobs[p].mode = "retire" THEN "unpublishing" ELSE "deploying"
        /\ \A q \in Requests :
             (HasChild(q) /\ jobs[q].run = jobs[p].run) => q = p

\* The host only gets revisions that were all public at one moment, the end of
\* the build, although every reading goes page by page: an approval or a
\* withdrawal during the build aborts.
PushedWasPublicTogether ==
    \A p \in Requests :
        (jobs[p].at \in {"verified", "pushing", "pushed"} /\ jobs[p].mode = "publish") =>
            \A s \in Slugs : jobs[p].snap[s] # None => jobs[p].built[s] = jobs[p].snap[s]

\* A revision that a tree of the host ever held under a slug was made public
\* under that slug: no draft, and no revision of another page.  What else stands
\* there are files of the repository, of which this says nothing.
OfItsPages(snap) == \A s \in Slugs : snap[s] # None => home[snap[s]] = s
HostShowsItsPages == \A k \in DOMAIN branch : OfItsPages(branch[k].pages)

\* The snapshot of a published row was pushed, and that of an unpublished one was
\* pushed and later followed by a tree without any page or file, whatever failed
\* or stopped in between.
StatusesAreTrue ==
    \A i \in DOMAIN runs :
        /\ runs[i].status \in {"published", "unpublishing", "unpublished"} =>
             \E k \in DOMAIN branch : branch[k].pages = runs[i].snap
        /\ runs[i].status = "unpublished" =>
             \E k, l \in DOMAIN branch :
                 k < l /\ branch[k].pages = runs[i].snap /\ branch[l] = Tombstone

Running(i) == i \in DOMAIN runs /\ runs[i].status \in Active

\* While the server and the run store hold, every running row has a child that
\* works on it and will report its end, whatever was retried, refused or failed
\* around it.
ActiveRowsAreDriven ==
    ~Faults =>
        \A i \in DOMAIN runs : runs[i].status \in Active =>
            \E p \in Requests : HasChild(p) /\ jobs[p].run = i

\* How far a request is from its end, by the step it is at.
Distance == [new |-> 10, reading |-> 9, spawned |-> 8, checking |-> 7, building |-> 6,
             built |-> 5, verifying |-> 4, verified |-> 3, pushing |-> 2, pushed |-> 1,
             done |-> 0]

\* No request reads a page twice in one reading, goes back to an earlier step or
\* starts over: whatever the others do, it takes finitely many steps.
RequestsGoForward ==
    [][\A p \in Requests :
          \/ Distance[jobs'[p].at] < Distance[jobs[p].at]
          \/ /\ jobs'[p].at = jobs[p].at
             /\ jobs'[p].todo \subseteq jobs[p].todo
             /\ jobs'[p].todo = jobs[p].todo =>
                  jobs'[p] \in {jobs[p], [jobs[p] EXCEPT !.run = 0]}]_vars

\* While the server and the run store hold, every running row comes to an end.
RunsSettle ==
    \A i \in 1..Cardinality(Requests) : Running(i) ~> ~Running(i)

\* src/pages/admin/publish.astro:9: "Publica exactamente el conjunto de
\* revisiones aprobadas que muestra esta pantalla."  A publish that answers with
\* a published row leaves that snapshot, and no other page of the store, on the
\* host.
PublishedIsLive ==
    [][\A p \in Requests :
          (/\ KeepsExisting(p)
           /\ \E i \in DOMAIN runs : IsLatestOf(i, jobs[p].read) /\ runs[i].status = "published")
              => Live.pages = jobs[p].read]_vars

=============================================================================
