---------------------------- MODULE PublishedSite -----------------------------
(***************************************************************************)
(* The page store and the publisher of the static site together: the child  *)
(* of scripts/publish-site.mjs and the handlers of publication.js read the  *)
(* tables that editors, agents and reviewers write.  Publication knows the  *)
(* pages only through PublicPages; here they are those of PageRevisions.    *)
(***************************************************************************)
EXTENDS PageRevisionsInv, Sequences

CONSTANTS
    SourceSlugs,    \* pages the repository has a public file of
    Requests,       \* admin requests, each made once
    Faults          \* whether the server may stop, and the run store fail

VARIABLES
    runs,       \* the rows of publication_runs
    branch,     \* what was pushed to the static host
    jobs        \* request -> how far its handler or its child has come

siteVars == <<pages, revisions, approvals, ops, runs, branch, jobs>>

\* The publisher, on the pages as the store shows them.
Site == INSTANCE Publication WITH shown <- [s \in Slugs |-> ShownRevision(s)],
                                  home <- [r \in RevIds |-> HomePage(r)]

SiteInit ==
    /\ Init
    /\ runs = <<>>
    /\ branch = <<>>
    /\ jobs = [p \in Requests |-> Site!NewJob]

\* Any statement of a page store request may come between any two steps of a
\* publication: they share no lock and no transaction.
SiteNext ==
    \/ Next /\ UNCHANGED <<runs, branch, jobs>>
    \/ UNCHANGED vars /\ Site!Publish

SiteSpec == SiteInit /\ [][SiteNext]_siteVars

-----------------------------------------------------------------------------

\* The store and the publisher together behave as the publication on a site
\* whose pages change by the rules of PublicPages.
ImplementsPublication == Site!Spec

\* From the editor to the static host: whatever revision of the store was ever
\* pushed under a slug is one of that slug's page that a reviewer or a published
\* save approved, and never one the publication policy excludes.  A tree also
\* holds files of the repository, which nobody approves in the store.
HostShowsApprovedRevisions ==
    \A k \in DOMAIN branch, s \in Slugs :
        LET r == branch[k].pages[s] IN
        r # None =>
            /\ s \notin LegacyDraftSlugs
            /\ r \in approvals
            /\ Stored(r)
            /\ revisions[r].slug = s

=============================================================================
