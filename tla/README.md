# Portaless in TLA+

TLA+ models of the parts of Portaless whose correctness rests on the order in
which things happen: the page store with its revisions and approvals, the
publication of the site to a static host, the bound on simultaneous password
verifications, the budget of outgoing resolution fetches, logins with their
second factors, sessions and recoveries, the limits on them, the installation
of plugins, and the signed history of a site. TLC checks every model on small
instances; TLAPS proves the safety properties for all sizes, and that the page
store, composed with the publisher, keeps what the publisher relies on.

All paths below are relative to the repository. `AE/` stands for
`packages/atomic-elements/src/persistence/`, `DE/` for
`packages/deploy-engine/src/`, `TN/` for `packages/trust-layer/src/net/`,
`AU/` for `packages/auth/src/`, `PS/` for `packages/plugin-sandbox/src/`,
`DID/` for `packages/apw-resolver/src/did-apw/`.

## 1. The system

Portaless is a content node: one Node process (or a set of Cloudflare
functions) that keeps a site as pages of atomic elements in SQLite or D1, lets
people and MCP agents edit and review them, publishes the public part to a
static host, runs third-party plugins in a sandbox and answers signed requests
of other nodes and of crawlers.

| Component | State it keeps | Operations | What is hard | What makes it correct |
| --- | --- | --- | --- | --- |
| Page store (`AE/stores/*`, `functions/admin/pages/[slug].js`) | `pages` (the head of every page), `page_revisions` (append-only), `page_revision_approvals`, evidence rows | load (adopts legacy rows), save, remove, import a public history, propose, approve, list | every write reads the head, awaits a digest and writes in a later transaction; clients hold revisions for hours; removed pages leave their history behind | no lost update; a history is a chain; what is public was approved; old revisions do not come back |
| Site publication (`DE/publication-*.ts`, `DE/github-static-publish.ts`, `functions/admin/api/publication.js`, `scripts/publish-site.mjs`) | `publication_runs`, the publisher child process, the branch of the host | publish, retry, unpublish; the child checks, builds, checks, pushes | snapshots are read page by page; pages change meanwhile; children fail anywhere; the server stops; the tree holds files of the repository too | one driver per run; the snapshot that is pushed was public together; row statuses tell the truth; runs end |
| Login concurrency (`functions/_shared/login-concurrency.js`) | slot counter, queue, timers | run, drain, timeout | timers race with freed slots; reactions run in either order | the bound; no leaked or idle slot; a refused login never runs; first come, first served |
| Hosting credentials (`DE/github-oauth.ts`, `oauth-store.ts`, `token-crypto.ts`, `providers-config-store.ts`) | encrypted tokens, provider settings | OAuth exchange, read, write | network | one row each |
| Element and theme packs (`AE/*-pack-store.ts`) | one row per pack | put, get, list | – | – |
| Editor, elements, rendering (`packages/atomic-elements/src`) | undo history in the browser | tree operations, undo, redo, render | deep trees | undo is the inverse of redo; ids stay unique |
| Authentication (`AU/auth-service.ts`, `AU/stores/*`) | users, sessions, second-factor challenges, recovery tokens, e-mail codes | login, second factor, change, recover, enrol, login by a provider, expiry | every call of a store is awaited; passwords and sessions change while others verify; several stores, no common transaction | one session for each challenge, one change for each recovery token; a change ends what was open; nobody else moves a password |
| Rate limits (`AU/*-rate-limit.ts`, `AU/stores/*-ephemeral-auth-store.ts`) | one table of counters per bucket and window | hit, clear | windows of two lengths in one table; on D1 each statement is a request | never more than the limit in a window; who is refused finds a full window of its own address or of the name it gave, a login one of its own address |
| Plugin registry, artifacts, install (`PS/registry`, `PS/install`, `functions/admin/api/plugins`) | artifacts and their chunks, registry rows, grants | install, uninstall, load, run | several stores, no common transaction, failures at every statement | what runs was accepted as a whole; a version is immutable; grants beyond the manifest go |
| Plugin quotas (`PS/registry/plugin-email-quota.ts`, `plugin-storage.ts`) | counts per plugin and day | consume, release | release after a failed send | never above the quota |
| Plugin runtimes (`PS/runtime`, `adapters`) | isolates | run with limits | external engines | – |
| Permissions (`packages/permissions/src`) | grants | set, query | – | the last decision counts |
| Resolution budget (`packages/trust-layer/src/net`) | buckets per window, permits, idle index | admit and fetch, refund, evict | window changes with fetches in flight; eviction | permits never leak; a bucket in use is not evicted |
| Web Bot Auth (`packages/trust-layer/src/webbotauth`) | nonces with expiry | verify | two instances, one nonce | one use per window |
| Trust policy, ledger, pay per crawl (`packages/trust-layer/src`) | append-only logs, lists | evaluate, log, settle | – | – |
| APW resolver: site history (`DID/*`, `functions/.well-known/apw-log.json.js`, `functions/admin/api/site-identity.js`) | the identity, `site_identity_keys`, `site_attestation_log`, the TXT record | create, rotate, number old keys, append, publish, verify the history of another site | appends, rotations and upgrades await in between; readers page through a log that grows; clocks are set back | the log is one chain; one active key; a verifier judges what is there |
| APW witnesses, scores, LTP (`DID/witness*`, `packages/apw-resolver/src/scoring`, `ltp-*`) | directory of witnesses | synchronize, resolve, score | – | a pure function of signed documents |
| Schema migrations (`packages/persistence-migrations/src`) | ledger, schema | gate, migrate | stops between migrations, two starts at once | the ledger is contiguous and true of the schema |
| MCP server (`packages/mcp-server/src`) | tokens, audit log | tools over the stores above | agents are concurrent clients of the page store | those of the stores |
| Server start, admin endpoints, dashboard, onboarding, portability, e-mail, images, AI, Bluesky identity, example plugins, SDK, SQLite driver, Astro site | little or none | glue, I/O, display | – | – |

How they interact: the editor, the admin endpoints and the MCP tools are all
clients of the page store, through HTTP preconditions (`If-Match`) or direct
calls. The publication handlers and their child read the page store (`list`,
then `load` of every slug) and never write it. The orchestrator spawns the child
and learns of it only through its exit code and its last line of output; the
child talks to the static host. The login endpoint runs each password
verification through the login semaphore, after it has counted the attempt in
the rate limits, and counts or clears the failures after it; recoveries and
plugin installs count in the same table. The plugin endpoints go through
artifacts, registry and grants in turn, and an administrator changes the grants
beside them. Accepting an attestation appends to the history of the site, which
other sites read through its public endpoint and its TXT record. The directory
fetcher of Web Bot Auth takes every outgoing fetch through the resolution
budget, if it is enabled.

## 2. Modules

| Module | Role |
| --- | --- |
| `PageRevisions` | the page store |
| `PublicPages` | what it promises to those who show its pages, with no store; `Publication` is built on it |
| `PageRevisionsInv`, `MCPageRevisions` | its inductive invariant; symmetry for TLC |
| `PublishedSite` | the page store and the publisher together |
| `PageRevisionsProofs` | eleven theorems, the refinement of `PublicPages` and the composition among them |
| `Publication` | requests, run rows, children and the host |
| `PublicationInv`, `MCPublication` | its inductive invariant; symmetry and a search restriction for TLC |
| `PublicationProofs` | eight theorems |
| `LoginSemaphore` | the semaphore, with its inductive invariant |
| `LoginSemaphoreProofs` | six theorems |
| `ResolutionBudget` | buckets, permits and eviction, with its inductive invariant |
| `MCResolutionBudget` | symmetry for TLC |
| `ResolutionBudgetProofs` | eight theorems |
| `AuthSessions` | logins, challenges, sessions, changes and recoveries, with its inductive invariant |
| `MCAuthSessions` | symmetry for TLC |
| `AuthSessionsProofs` | six theorems |
| `RateLimits` | the table of counters and the requests that count in it |
| `MCRateLimits` | limits and symmetry for TLC |
| `RateLimitsProofs` | its inductive invariant and four theorems |
| `PluginInstall` | artifacts, registry and grants of one plugin, with its inductive invariant |
| `PluginPromise` | what its endpoints promise together, with no store |
| `MCPluginInstall` | two builds for TLC |
| `PluginInstallProofs` | five theorems, the refinement of `PluginPromise` among them |
| `SiteHistory` | identity, keys, log, public endpoint and verifier |
| `SiteHistoryInv`, `MCSiteHistory` | its inductive invariant; symmetry for TLC |
| `SiteHistoryProofs` | seven theorems |

An operator named after its original with a suffix and commented "Mutant of" is
the original with one plausible bug in it; no specification uses it. It shows
that the property it is paired with in `PROJECT.json` does depend on that code.

### 2.1 PageRevisions

`pages`, `revisions` and `approvals` are the three tables. `ops[a]` is the
request client `a` has in flight. Every write has three moments, and each is an
action:

1. `OpenPage`: the client reads the page and keeps its revision, the ETag.
2. `BeginSave`, `BeginPropose`, `BeginApprove`, `BeginAdopt`: the server loads
   the page, checks the token and builds the revision. The digest it awaits
   ends this step.
3. `CommitSave` and its like, or `RefuseSave` and its like: the transaction,
   which looks at the head again. better-sqlite3 runs it without interruption.

`Abandon` is a client that leaves, a token refused at the load, or a process
that stops before the transaction. `Remove` is the `DELETE` handler, which has
no precondition. `Import` writes a whole validated history in one transaction;
that nothing awaits inside it makes it one action, although the history it may
write is any that `IsHistory` accepts.

The D1 store has the same checks, written as batches with conditions
(`AE/stores/d1-page-store.ts`, save 52–99, propose 163–186, approve 188–227,
adopt 297–323); the model is of the SQLite store, which self-hosted nodes run.

`PublicPages` is the store as its readers see it: `shown[s]` is the revision page
`s` shows, or none, and `home[r]` the page revision `r` was ever made public
under, or none; what becomes public has no home yet. `ImplementsPublicPages` maps
the head, if the policy lets it be published (`ShownRevision`), and the approvals
(`HomePage`) to it.

Abstractions: content, hashes and authors are left out; a layout is its status;
an absent status is "published", as the code reads it; an approval is membership
of a set. Random UUIDs are identities that are neither stored nor in flight.
Evidence rows have no effect on the rest and are left out.

### 2.2 Publication

The pages are those of `PublicPages`, which `Publication` extends: the part of the
page store that publishing sees, and all it relies on. `Approve` stands for every
operation of the page store that makes a revision public, alone or with its
history; `Withdraw` for those that make a page private or remove it. `runs` are the rows in order of
their start, `branch` is what was pushed, and `jobs[p]` follows request `p` from
the handler to the end of its child:

`new` → `reading` (page by page) → `spawned` → `checking` → `building` →
`built` → `verifying` → `verified` → `pushing` → `pushed` → `done`.

`StartRun` is one step from the look at `findBySnapshot` to the spawn: with
better-sqlite3 nothing in between yields to another request. With D1 no child
can be spawned (`build_runtime_unavailable`), so no run gets past its row there.
`ReadParent` and `Push` are the two calls that matter of a publication on
GitHub: the parent is read, objects are made, and the ref moves with
`force: false`. `Fail` may happen at any moment of a child, after the push too
(enabling Pages, or the last line of output). Two faults, which `Faults` allows or
rules out: `ServerStop` ends every handler, and each child dies with the server or
goes on with nobody to report to; `StoreFails` is a statement of the run store
that fails, also the one that was to report an error
(`DE/publication-orchestrator.ts:94,148`), and leaves the row as it is.

A tree on the host (`Trees`) is the snapshot and, under some slugs, files of the
repository: the child stages the public pages of `src/content/pages` with their
translations (`scripts/publish-site.mjs:134`, `scripts/public-build-stage.mjs:142-171`)
and writes the pages of the store over them (`:136`). `SourceSlugs` are the slugs
that have such a file, and field `files` of a job those its child will build: all
when it lists the pages before the build, less those of pages it then finds in
the store and not public (`FilesAfter`). Whether a page that shows nothing is a
draft or is gone is not in `PublicPages`, so either is possible at each load; a
draft that is made, or removed, is no step of the model. What follows is that a
page removed from the store is published again from its file, under its slug,
though it is in no snapshot, is no revision, and is looked at by neither check;
the same goes for a draft made or removed during the build (section 6). So the
properties about what was pushed speak of the snapshot in a tree:
`HostShowsItsPages` and `HostShowsApprovedRevisions` say where each revision the
host ever got came from, and nothing of the files beside it. Only a retired tree
is known whole: `StatusesAreTrue` says that it has neither pages nor files. The
posts, the documents and the histories of revisions that a tree holds too
(`scripts/publish-site.mjs:132,135,137`) are not modelled; the histories are read
between the two checks and compared with nothing.

Field `built` of a job is history: what was public when the build ended. No
action reads it.

Abstractions: a snapshot stands for its hash. A row
goes from queued to deploying at once. What is built of the store is what was
read, because the check before the build compares it with the snapshot. A publisher started
by hand from a shell takes no snapshot and makes no check; it is not modelled.

`PublishedSite` puts the two together: the tables and requests of `PageRevisions`
beside the runs, jobs and branch of `Publication`, whose pages are now what the
tables show. Any statement of a page request may come between any two steps of a
publication, since they share no lock and no transaction. `ImplementsPublication`
says that this site behaves as a `Publication` on `PublicPages`;
`HostShowsApprovedRevisions` that whatever revision was ever pushed under a slug
is an approved one of that page. Both are proved (section 5). No run checks them:
`page_revisions` and `publication` check the two halves on larger instances than
their product allows. The product was explored once while the proof was written:
with `Faults` and a source file for every page, 1 page, 1 client, 2 revisions,
1 publication and 2 admin requests (119,402 states), and 2 pages, one of them a
legacy draft, with 1 client, 2 revisions, 2 publications and 1 admin request
(194,126 states), with no violation.

### 2.3 LoginSemaphore

`active` is the counter, `queue` and `timers` the waiting entries, `task` what
became of each verification, `holders` the ones that have not given their slot
back (history but for `Release`), `answer` what the caller's promise settled to.
`run`, `drain` and the timer callback are synchronous: one action each. The end
of a task, the answer and the release are reactions of their own. `Release`
contains the whole loop of `drain`. A free slot goes to a newcomer without a
look at the queue; the invariant `NoSlotIsWasted` is what makes that fair. The
branch of the timer callback for an entry that is no longer queued is dead code,
since `drain` clears the timer; `AnswersAreTrue` says so.

### 2.4 ResolutionBudget

`buckets` is the table of one time window, `idle` the index it evicts from,
`permits` and `active` count what is in flight, `fetches[r]` is what call `r`
keeps while it waits: the identity of each bucket it was charged to, its byte
limit and its window. `clock` is the window of the present time; `window`, that
of the table, follows with the next call. `fetch()` has one `await`, so a call is
one step (`RefuseSpent`, `RefuseBusy`, `RefuseFull` or `Admit`), whose first act
is to drop a table of another window (`Table`, `Index`), and its end another
(`Finish`, for every outcome: an answer gives back some of the reserved bytes,
a failure none).

The field `order` comes from a counter that is never reset, so it serves as the
identity of a bucket object: `Holds` is the comparison `!==` of `index()`. The
index is modelled by what it promises, `pop` takes the lowest entries; its heap
is not. A window has no length and a refusal no `Retry-After`. Client keys are
given; their derivation by HMAC is left out.

### 2.5 AuthSessions

`users`, `challenges`, `resets` and `sessions` are the tables of `AU/stores/schema.sql`;
`req[r]` is one request. Every call of a store is awaited, so each is an action,
and `at` names the one a request does next: a login may `Rehash`, then
`IssueChallenge` or `CreateSession`; a second factor is read (`BeginFactor`),
judged (`JudgeCode`) and counted or consumed (`RecordFailure`, `Consume`); a
recovery marks its token (`Recover`, or `MarkUsed` after it on D1) and, as a
change does, stores the password, deletes the tokens and ends the sessions
(`StorePassword`, `InvalidateResets`, `RevokeSessions`). `Break` is a call that
fails, or a process that stops, between any two of them. Challenges, tokens and
sessions are random, so each bears the name of the request that made it.

The two backends differ where the model says `backend`: SQLite finds and marks a
recovery token without giving way, D1 in two requests. `late` is history: another
password was stored while this login was under way, or was put back when its
session was already open.

Left out: accounts made or linked by a provider, e-mail step-up codes (no
endpoint uses them yet), the history of password events, and roles.

### 2.6 RateLimits

`counts` is the table `auth_rate_limits`, by bucket and start of the window.
`clock` counts quarters of an hour and `hour` is the quarter in which the present
hour began; logins count by the quarter, recoveries and actions (install, remove,
upload, fetch) by the hour. `req[r].at` is the bucket request `r` counts in next:

- a login: `attempt`, then `verifying`, then `ipFailures` and `userFailures`, or
  both cleared;
- a recovery: `resetIp`, `resetUser`; an action: `actionIp`, `actionActor`.

`hit()` is one step on SQLite, the one that read the clock. On D1 the clock is
read first, `SendDelete` and `SendInsert` follow, and quarters may pass in
between. `past.hits` is history: each count that was given, and whether its
window was still the newest the table had seen (`onTime`).

Addresses and names stand for their hashes. Limits are any positive numbers:
`loginAttemptLimit` replaces others, the rest are constants. The names in
`Users` are those of users and of the actors of the admin endpoints. The clock is
not set back; the in-memory store, which tests use, is left out.

### 2.7 PluginInstall and PluginPromise

A release of the plugin (publisher and version) has a row of metadata (`meta`)
and the code in parts (`parts`); `registry` is the plugin's row and `grants` what
it was granted. Each awaited statement of `install.js`, `uninstall.js` and
`run.js` is an action. `put()` and `delete()` of SQLite run their statements
without giving way, which is the guard `Free`, but in no transaction: `Break`, a
failure or a stop, may leave any prefix of them. `Grant` and `Revoke` are the
administrator's. `late` of a request, `by` and `given` of the registry row are
history: what was overtaken by whom.

`PluginPromise` knows no store: installs accept builds, capabilities are given
and taken, and what a request runs is an accepted build, with the capabilities
its manifest asks for and that are granted at that moment. `ImplementsPromise`
maps the endpoints to it: nothing half written, overwritten or removed between
two reads of a run ever runs.

Left out: signatures and step-up, which only decide who may ask; plugins loaded
from disk; votes and lists.

### 2.8 SiteHistory

`identity`, `keys` and `log` are the three tables; `txt` is the record the
operator has published. Requests append an attestation, rotate the key, create the
identity, verify the history as another site does, or publish the TXT record from
the checklist. Each reads through `ensureKeys()`, which copies an old identity to
the table of keys and numbers keys that have no `key_id` (`CopyIdentity`,
`ReadPending`, `ReadMaxPending`, `Backfill`); `Init` is a new site or one in one
of three states of that upgrade. A transaction, any other statement and a reading
of the clock are a step each. An append reads the active key, then the head, then
the clock, looks for a duplicate and inserts; on a conflict it starts again. A
verifier reads page by page, with the keys of its first page.

The clock may be set back once (`SetBack`). `past` says what happened that the
code does not guard against: a clock set back, a rotation that overtook an append
(or the other way round), keys numbered twice.

A key pair is named by the request that makes it, a hash by what is hashed. Left
out: the witnesses of an entry and their index, scores, a change of the domain of
the did, and the cache of 60 seconds in front of the endpoint.

## 3. Runs

| Run | Instance | States | Shows |
| --- | --- | --- | --- |
| `page_revisions` | 1 page, 2 clients, 4 revisions, 2 publications | 104 thousand | chains, the approved head, no lost update, the head moves forward, a proposal pins the head, the refinement of `PublicPages` |
| `publication` | 2 pages with files, 3 revisions, 2 requests, faults | 1.1 million | one driver per row, snapshots that are pushed were public together, revisions are pushed under the slug they were public under |
| `publication_settles` | 1 page with a file, 1 revision, 3 requests, no faults, fair | 16 thousand | statuses are true; running rows are driven; every run ends |
| `publication_not_live` | 2 pages, 3 requests one after the other | violation | see 6 |
| `login_semaphore` | 5 logins, 2 slots, a queue of 2, fair | 23 thousand | the bound, no waste, true answers, order, places only improve, service |
| `resolution_budget` | 4 calls, 2 clients, 2 origins, 3 buckets, 2 windows | 79 thousand | exact permits, a true index, charges within quota, pinned scopes, late ends |
| `auth_sessions` | 1 user, 2 passwords, 4 requests, 2 attempts, both backends | 639 thousand | one session for each challenge, second factors are passed, one change for each token, only overtaken logins outlive a change, settled passwords stay |
| `auth_rehash` | 1 user, 2 passwords, 3 requests | violation | see 6 |
| `rate_limits` | 3 requests, 2 addresses, 1 name, hours of 2 quarters, both backends | 615 thousand | limits hold; refusals are earned |
| `rate_limits_hour` | 3 requests, 1 address, 1 name | violation | see 6 |
| `plugin_install` | 3 requests, 2 releases, 2 builds (of two parts and of one), 1 capability, both backends | 724 thousand | answers nobody overtook are true, grants are pruned, versions are immutable, the refinement of `PluginPromise` |
| `site_history` | 3 requests, 2 attestations, 2 moments, 2 attempts, pages of 1 entry, both backends | 1.2 million | the chain, the active key, failures and verdicts explained, true appends, the past is kept |

Why these bounds are enough to meet the interesting cases. Page store: a lost
update, a fork or a late approval needs two clients and three revisions (base
and two rivals); the fourth lets a page be removed and made again while a
request of its former life is in flight, and two publications tell the lives
apart. `ImportNos` has a gap (1, 3) because imported numbers need not be
consecutive. Publication: a torn reading needs two pages; a race of drivers or
of pushes needs two requests; a third revision lets one page be approved,
withdrawn and approved again beside the other; three requests let a run fail, be retried and be retired around others.
Login: two slots and two places with five requests give every combination of
running, waiting, refused and timed out. Resolution budget: three buckets for
four keys force evictions of one and of two, with aliases; quotas of two and
three attempts are used up by four calls; two windows give late ends beside
fetches of the new window. Authentication: four requests are a login, two answers
to its challenge and a change, or a mail, two confirmations and a login; two
passwords tell old from new; two attempts use a challenge up. Rate limits: three
requests exceed each limit (two attempts, one of the rest); the run begins in the
last quarter of an hour, so quarters and hours differ in it, and passes the end
of both; two addresses under one name tell refusals for an address from those for
a name. Plugins: two
installs and a removal or a run; two releases tell an upgrade from a
reinstallation; the builds differ in code, in parts and in capabilities. Site
history: with three requests a rotation overtakes an append before a verifier
comes, two numberings meet, and a verifier of two pages is overtaken.

Bounds of the models: `RevIds`, `PubIds`, `ImportNos`, `MaxClock` (windows of `ResolutionBudget`,
quarters of `RateLimits`), `MaxTime`, `MaxId` and `MaxPages` (`SiteHistory`; the
second never stops a step of this instance) and `Requests`, each made once. Deadlock is not
checked because these systems stop legitimately: when every request is answered
or every identity is used up. `OneAtATime` in `publication_not_live` restricts
the search to requests that do not overlap; it makes the counterexample short
and shows that it needs no race.

## 4. Fairness

`Publication`: weak fairness of what a request that has arrived does next, for
each request. The event loop runs a ready continuation, a fetch ends through its
time-outs, and a build is assumed to end; whether a step succeeds is open, since
`Fail` is a step too. Nothing is asked of arrivals, approvals or withdrawals.
`RunsSettle` and `ActiveRowsAreDriven` assume `Faults = FALSE`: a row whose server
stopped, or whose end the run store failed to note, stays active for ever, and
every later publish or retry of that snapshot is answered with it
(`DE/publication-orchestrator.ts:117,126`). A store that fails just then is
assumed away, not covered.

`LoginSemaphore`: weak fairness of end, answer and release, for each request: a
scrypt call ends and promise reactions run. Nothing is asked of the timers, so
`WaitersAreServed` is owed to the queue alone.

The other models state no liveness and assume no fairness: whether a request gets
an answer depends there on its own steps alone, and none of them waits for
another.

## 5. Proofs

All theorems hold for every value of the constants, under the assumptions named
in the modules: `LegacyDraftSlugs` is a set of slugs, imported numbers are
positive, `None` is no identity, no page and no row. `LoginSemaphore` needs none: its limits are computed
from whatever is configured. `ResolutionBudget` assumes what its constructor
checks, positive numbers, and that no client key is an origin key. Everywhere
`None` is none of the names. `AuthSessions` assumes at least one attempt,
`RateLimits` positive limits and an hour of at least one quarter,
`PluginInstall` that each code has between one and `MaxParts` parts,
`SiteHistory` positive bounds and distinct names of the old keys.

Each proof has the same shape: `Init => IInv`, `IInv /\ [Next]_vars => IInv'`
with one lemma per action, and the properties from `IInv`.

**Page store.** The properties are not inductive: that a commit does not fork a
history depends on what its request read, possibly long ago. `IInv` adds
`OpShape` and `OpContinues` (what a request holds continues the revision it read,
or starts a publication nobody else has), `HeadMatchesRevision`,
`ApprovalsMatchRevisions`, `ParentsPrecede`, and the core, `HeadIsNewest`: the
head is the newest revision of its publication but for one unapproved revision
right on top of it. With the `UNIQUE` constraint this gives `HistoryIsAChain`,
though no code compares children. The action properties follow from one lemma,
`HeadMoves`, about how any step can change a head.

**Publication.** The heart is `GoneStaysGone`: a revision that was no longer
public when the build ended is not public later, so the second reading, which
comes after the build, cannot find it; this is why two page-by-page readings are
enough for `PushedWasPublicTogether`. `PushesStay` links a child that has pushed
to the branch, which gives `StatusesAreTrue`. `ReadWasPublic` follows a revision
from a page through a reading, a row and a child to the host: each link was made
public under its page, and `home` never changes again, so `HostShowsItsPages`
holds however late the push. It is about the revisions in a tree; of the
repository's files beside them nothing is proved but that a retired tree has none. `ActiveRowsAreDriven` and `RequestsGoForward` are
the safety halves of the liveness property `RunsSettle`: while the server and the
run store hold, a row that is running always has a child bound to it, and each step of a
request brings it nearer to its end. What is left to TLC is that a step that can
be taken is taken.

**The published site.** `SiteImplements` is a composition: `StoreStepIsPageStep`
shows, from `HeadMoves` and `PublicPagesKept`'s lemmas, that every step of the
store is an `Approve`, a `Withdraw` or a stutter of `Publication`, and the
publisher's steps are its own. The theorems of `Publication` then hold of the site
by instantiation (`Pub` in `PageRevisionsProofs`), and `HostApprovedCorrect` is
`HostShowsItsPages` read through `HomePage` together with the store's invariant.

**Login semaphore.** The properties are nearly inductive together; the lemma
`DrainTurnsOnce` shows that under `NoSlotIsWasted` a release starts at most one
waiting login, which carries `MemoryIsBounded` and the order. `PlacesImprove` is
the safety half of `WaitersAreServed`: nobody who waits is ever put further back,
and each release brings every one of them nearer; only that releases keep coming
is left to fairness and TLC.

**Resolution budget.** `IInv` is the properties and `FetchesArePast`: what is held
was numbered before, by a call of this window or a former one. The lemma
`TableFacts` states the invariant of the table a call works on, be it the old
one or an empty one, so that each call is proved once for both cases. Reserved
bytes are counted as a set of pairs of a fetch and one of its bytes, which makes
their sum a cardinality, within the prover's reach.

**Public pages.** A step that changes what a page shows is a save, an approval
or an import, and `HeadMoves` with `HeadIsNewest` says that the revision it shows
was not approved before (`InsertPromised`, `ApprovePromised`, `ImportPromised`);
all others leave what is shown alone or hide it.

**Authentication.** `IInv` adds to the properties what links rows to requests:
`TokensAreIssued` (an open challenge or token is of a request that got past the
step that makes it) and `LoginsAreFresh` (a login under way was verified with the
stored password, or is late), which is what `StaleSessionsWereUnderWay` needs
when a session is made. Each of the twenty actions has a lemma. On top of it,
`FInv` adds `FactorsAreCarried`: a request that answers a challenge keeps the
account and the password of the login that was asked for it, and no session of an
account with a second factor skips the challenge. `Carries` says what any step
may do to any request (go on with the same account, begin without a challenge, or
begin for one), and `FactorsStep` derives the invariant from it at once, which
gives `SecondFactorsArePassed`.

**Rate limits.** The lemmas `CountInv` and `MoveInv` prove once what counts and
what does not. A row never says more than was counted (`CountsAreHits`), so a
count over the limit is earned; counts on time of one window are all different
(`OnTimeHitsDiffer`), so those up to the limit are at most as many as the limit:
the proof is an injection into `1..Limit`. That an hour begins at most `Quarters`
before the clock is not needed.

**Plugins.** `InstallGoes` and `RemovalGoes` say what a request that nobody
overtook has done so far, step by step; `StoredWasAccepted` gives the refinement,
since what `LoadParts` joins has the hash that `LoadMeta` read;
`PruningIsUnderWay` says that the request that registered the release still has
in hand what is to be revoked.

**Site history.** `SiteOK` is the invariant of the tables, `RequestOK` that of one
request, and the lemmas about `Drift` say what any step of others may do to it:
the log grows at its end, windows of retired keys stay, numbers change only when
keys are numbered twice. `RequestOK` is stable under `Drift`, so each action is
proved for its own request alone.

| Module | Theorem | Property |
| --- | --- | --- |
| `PageRevisionsProofs` | `Invariance`, `TypeCorrect`, `ChainCorrect`, `PublicHeadCorrect`, `DisjointCorrect` | `IInv`, `TypeOK`, `HistoryIsAChain`, `PublicHeadIsLastApproved`, `PublicationsAreDisjoint` |
| | `NoLostUpdateCorrect`, `HeadForwardCorrect`, `ProposalPinsCorrect`, `PublicPagesKept` | `NoLostUpdate`, `HeadOnlyMovesForward`, `PendingProposalPinsHead`, `ImplementsPublicPages` |
| | `SiteImplements`, `HostApprovedCorrect` | `ImplementsPublication`, `HostShowsApprovedRevisions` |
| `PublicationProofs` | `Invariance`, `TypeCorrect`, `DriversCorrect`, `TogetherCorrect`, `StatusesCorrect` | `IInv`, `TypeOK`, `DriversOwnTheirRuns`, `PushedWasPublicTogether`, `StatusesAreTrue` |
| | `HostCorrect`, `DrivenCorrect`, `ForwardCorrect` | `HostShowsItsPages`, `ActiveRowsAreDriven`, `RequestsGoForward` |
| `LoginSemaphoreProofs` | `Invariance`, `MemoryCorrect`, `NoWasteCorrect`, `AnswersCorrect`, `OrderCorrect`, `PlacesCorrect` | `IInv`, `MemoryIsBounded`, `NoSlotIsWasted`, `AnswersAreTrue`, `FirstComeFirstServed`, `PlacesImprove` |
| `ResolutionBudgetProofs` | `Invariance`, `PermitsCorrect`, `KeptCorrect`, `IdleCorrect`, `ChargesCorrect`, `BoundCorrect` | `IInv`, `PermitsAreExact`, `OpenBucketsAreKept`, `IdleIsTrue`, `ChargesAreCovered`, `TableIsBounded` |
| | `PinnedCorrect`, `LateEndsCorrect` | `SpentScopesArePinned`, `LateEndsChangeNothing` |
| `AuthSessionsProofs` | `Invariance`, `ChallengesCorrect`, `FactorsCorrect`, `RecoveryCorrect`, `StaleCorrect`, `SettledCorrect` | `IInv`, `ChallengesGiveOneSession`, `SecondFactorsArePassed`, `RecoveryTokensAreUsedOnce`, `StaleSessionsWereUnderWay`, `SettledPasswordsStay` |
| `RateLimitsProofs` | `Invariance`, `TypeCorrect`, `LimitsCorrect`, `RefusalsCorrect` | `IInv`, `TypeOK`, `LimitsHold`, `RefusalsAreEarned` |
| `PluginInstallProofs` | `Invariance`, `SettledCorrect`, `GrantsCorrect`, `ImmutableCorrect`, `PromiseKept` | `IInv`, `SettledIsTrue`, `GrantsArePruned`, `VersionsAreImmutable`, `ImplementsPromise` |
| `SiteHistoryProofs` | `Invariance`, `ChainCorrect`, `ActiveKeyCorrect`, `FailuresCorrect` | `IInv`, `HistoryIsAChain`, `OneActiveKey`, `FailuresAreExplained` |
| | `VerdictsCorrect`, `AppendsCorrect`, `PastCorrect` | `VerdictsAreTrue`, `AppendsAreTrue`, `PastIsKept` |

Proved and in no run: `TypeOK` of each module, `PublicationsAreDisjoint`,
`OpenBucketsAreKept`, `TableIsBounded`, `RequestsGoForward`,
`ImplementsPublication`, `HostShowsApprovedRevisions` and the inductive
invariants. TLC was used on each before its proof, the inductive invariants on the
instances above.

Only model-checked: the liveness properties `RunsSettle` and `WaitersAreServed`
(the prover handles neither fairness nor `ENABLED`) and the three violations,
which are traces. Induction over data is out of the prover's reach too, and
operators declared `RECURSIVE`; no module declares one.

## 6. Where code and documents differ

Three are runs that TLC finds violated.

- `publication_not_live`. Publishing a snapshot that was published before
  answers with the old row, even if something else was pushed since: a page that
  was withdrawn stays on the host (`src/pages/admin/publish.astro:9`).
- `auth_rehash`. A login that migrates an old hash stores the password it has
  verified, without a look at the account again. If a change or a recovery stored
  another one in between, the old password is back
  (`AU/auth-service.ts:133-135`). Once every hash has the present cost this cannot
  happen: `SettledPasswordsStay`.
- `rate_limits_hour`. `hit()` deletes all rows of windows that began before its
  own, and logins count by the quarter of an hour in the table where recoveries,
  installs and uploads count by the hour
  (`AU/stores/sqlite-ephemeral-auth-store.ts:94`, D1 `:92`). From the second
  quarter on every login sets the hourly counts to nothing, and more than five
  recoveries of one address pass in an hour
  (`AU/password-reset-rate-limit.ts:1-3`).

Smaller differences, with no run:

- With a proposal waiting on the head, every save of the page computes the number
  of the proposal and fails on the `UNIQUE` constraint: an internal error for a
  client that was not stale (`docs/architecture/public-revision-history.md:23-25`
  names the 409 only). No operation rejects a proposal, so the page can then be
  changed only by approving it or by removing the page
  (`PendingProposalPinsHead`).
- An approval or a withdrawal after the child's second check, while blobs, tree and
  commit are made, is not noticed (`docs/architecture/deployment-engine.md:46-48`).
  The snapshot was still public together once: `PushedWasPublicTogether`.
- A page removed from the store whose file is still in `src/content/pages` is
  published again from the file, which no screen shows and neither check looks at
  (`src/pages/admin/publish.astro:9`, "exactamente"; the comment of
  `DE/github-static-publish.ts:153-154` speaks of removed pages that would stay
  live). That files are included is documented
  (`docs/architecture/deployment-engine.md:58-61`), and so is that a draft in the
  store blocks its file; but a draft made after the child has read the pages does
  not, and the check after the build does not see it.
- A failure after the push, or of a retirement, leaves no published row while the
  host serves the site, and `unpublish` refuses (`src/pages/admin/publish.astro:97-99`).
- The index of idle buckets does not hold every eligible bucket
  (`TN/idle-bucket-index.ts:3`): one that a key gets in a new window while a fetch
  of the old one is open is not indexed, and the end of that fetch comes too late
  to do so.
- A rotation between the moments an append reads the active key and dates its
  entry leaves the entry outside the window of its key, and the history never
  verifies again (`DID/history-log.ts:104`; its comment, lines 19-21, says that
  rotating does not invalidate the past, while the endpoint asks the operator to
  confirm that what the old key signed stops verifying,
  `functions/admin/api/site-identity.js:108`: in the model entries inside the window
  of a retired key go on verifying). A key that is retired after the clock was
  set back has the same effect. `FailuresAreExplained` says that these, and keys
  numbered twice, are the only causes.
- Two requests on an upgraded site may both find keys without numbers; the second
  numbers them again (`DID/site-identity-store.ts:300`), and an entry signed in
  between names a number no key has.
- Two concurrent installs of one version do not see each other, so the stored
  bytes of a version may be replaced (`functions/admin/api/plugins/install.js:17-18`;
  `VersionsAreImmutable` excuses an install that any other write has overtaken, a
  grant among them, which is more than this race).
- On D1 a recovery token is read and marked in two requests, and two confirmations
  may both change the password (`AU/stores/d1-password-reset-store.ts:38-66`,
  `docs/architecture/authentication.md:16-17`).
- A login limit outside 1 to 64 is replaced by 4 rather than clamped
  (`README.md:282`, `functions/_shared/login-concurrency.js:70`).
- A draft saved as the head is listed as stale and is approvable
  (`docs/architecture/mcp-agents.md:84`).
- A snapshot published by a retry of an older row is built again
  (`DE/publication-orchestrator.ts:5,116`).

## 7. Done, and not modelled

Done: the page store with what it promises, publication, the login semaphore, the
resolution budget, authentication, rate limits, the plugin install with what it
promises, and the site history, each with its proofs.

Not modelled, of the code whose order matters:

- quotas of plugins (`PS/registry/plugin-email-quota.ts`): consume and release are
  single statements; what is left is the failure between a sending and its release;
- schema migrations (`packages/persistence-migrations/src`): each is one
  transaction, and two starts at once meet at the lock of SQLite;
- the index of witnesses (`DID/witness-index-store.ts`): rows of one writer, the
  synchronizer. Read while modelling its neighbours: on D1 two synchronizations at
  once may write the older directory entry last (line 26);
- nonces of Web Bot Auth: one conditional `INSERT`;
- the undo history and the tree operations of the editor, one browser's state;
- the heap of the idle index, of which `ResolutionBudget` assumes lowest first.

Not modelled, and not planned: rendering and display, external services,
cryptography, the plugin engines, start-up scripts, backups. They keep no state
whose order matters, or are not this repository's code.
