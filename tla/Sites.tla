------------------------------- MODULE Sites -------------------------------
(***************************************************************************)
(* How the dashboard's page gets from web/ to a browser.  vite builds it   *)
(* (web/vite.config.mjs), web/scripts/prepare-sites-build.mjs completes    *)
(* the package, and three hosts serve what was published last:             *)
(*   sites  behind the worker of web/worker/index.js,                      *)
(*   pages  GitHub Pages, below the path /whichrepo/ (pages.yml),          *)
(*   local  the binary that embeds what "make web" has copied (server.go). *)
(* Builds are killed half way, and a host may get a new version between a  *)
(* page and its script.                                                    *)
(***************************************************************************)
EXTENDS Integers

CONSTANTS
    MaxEdits,       \* bound on the editions of web/
    None,           \* no such file
    Torn            \* a file that was being written when the build was killed

ASSUME SitesAssumption == MaxEdits \in Nat /\ None \notin Nat /\ Torn \notin Nat

VARIABLES
    source,     \* the edition of web/ on the disk
    missing,    \* what prepare needs and web/ lacks: worker, hosting
    host,       \* what web/ is built for: sites or pages ("npm run build"),
                \* or local ("make web")
    step,       \* how far the build is
    began, bundle,  \* the editions when it began, and when vite read the sources
    dist,       \* web/dist: page, script, worker, hosting
    static,     \* internal/dashboard/static: page and script
    published,  \* what the host serves
    tab,        \* a browser tab: closed, asked, falling back, answered, running, blank
    request, reply,
    opened,     \* the page that the tab shows
    outdated    \* (auxiliary) was the host published to since the tab was opened?

sourceVars == <<source, missing>>
planVars == <<host, began, bundle>>
buildVars == <<host, step, began, bundle, dist, static>>
tabVars == <<tab, request, reply, opened, outdated>>
vars == <<source, missing, host, step, began, bundle, dist, static, published,
          tab, request, reply, opened, outdated>>

Hosts == {"sites", "pages", "local"}
Inputs == {"worker", "hosting"}
Editions == 0..MaxEdits

\* Mutation: one base for all hosts.
OneBase(g) == "/"

\* base of vite.config.mjs: GITHUB_ACTIONS is set where pages.yml runs.
Base(g) == IF g = "pages" THEN "/whichrepo/" ELSE "/"

\* Where a host keeps the files of dist/client.
Root(h) == IF h = "pages" THEN "/whichrepo/" ELSE "/"

\* index.html names its script by base and by the hash of its text, which
\* differs between editions.
PageOf(edition, base) == [edition |-> edition, base |-> base]
AllPages == [edition : Editions, base : {"/", "/whichrepo/"}]
ASSUME NoneIsNoPage == None \notin AllPages

\* The path of the page itself, one that nobody has a file for, and those of
\* scripts.
Index == [file |-> "index", of |-> None]
Deep == [file |-> "none", of |-> None]
ScriptPath(page) == [file |-> "script", of |-> page]
Paths == {Index, Deep} \cup {ScriptPath(page) : page \in AllPages}

Requests == [method : {"GET", "HEAD", "POST"}, html : BOOLEAN, path : Paths]
Navigation(path) == [method |-> "GET", html |-> TRUE, path |-> path]
ScriptRequest(page) == [method |-> "GET", html |-> FALSE, path |-> ScriptPath(page)]

NoFiles == [page |-> None, script |-> None]
Files == [page : AllPages \cup {None}, script : Editions \cup {None}]
Package == [page : AllPages \cup {None}, script : Editions \cup {None},
            worker : Editions \cup {None, Torn}, hosting : Editions \cup {None, Torn}]
Client(package) == [page |-> package.page, script |-> package.script]
\* The other of the two files of a client.
Other(f) == IF f = "page" THEN "script" ELSE "page"

NotFound == [kind |-> "404", page |-> None, script |-> None]
AsPage(page) == [kind |-> "page", page |-> page, script |-> None]
AsScript(edition) == [kind |-> "script", page |-> None, script |-> edition]
Replies == {NotFound} \cup {AsPage(p) : p \in AllPages} \cup {AsScript(e) : e \in Editions}

BuildSteps == {"idle", "bundling", "emptying", "writing", "checking", "worker",
               "worker half", "hosting", "hosting half", "built", "filling", "made", "failed"}

TypeOK ==
    /\ source \in Editions /\ missing \subseteq Inputs
    /\ host \in Hosts /\ step \in BuildSteps
    /\ began \in Editions /\ bundle \in Editions
    /\ dist \in Package /\ static \in Files
    /\ published \in Files
    /\ tab \in {"closed", "asked", "falling back", "answered", "running", "blank"}
    /\ request \in Requests
    /\ reply \in Replies
    /\ opened \in AllPages \cup {None}
    /\ outdated \in BOOLEAN

Init ==
    /\ source = 0 /\ missing \in SUBSET Inputs
    /\ host \in Hosts /\ step = "idle" /\ began = 0 /\ bundle = 0
    /\ dist = [page |-> None, script |-> None, worker |-> None, hosting |-> None]
    /\ static = NoFiles
    /\ published = NoFiles
    /\ tab = "closed" /\ request = Navigation(Index)
    /\ reply = NotFound /\ opened = None /\ outdated = FALSE

-----------------------------------------------------------------------------
(* Building *)

Edit ==
    /\ source < MaxEdits /\ source' = source + 1
    /\ missing' \in SUBSET Inputs
    /\ UNCHANGED <<buildVars, published, tabVars>>

\* No build is running.
AtRest == step \in {"idle", "made", "failed"} \cup (IF host = "local" THEN {} ELSE {"built"})

Begin ==
    /\ AtRest
    /\ step' = "bundling" /\ began' = source
    /\ UNCHANGED <<sourceVars, host, bundle, dist, static, published, tabVars>>

\* vite reads the sources, and writes nothing before it has understood them.
Bundle ==
    /\ step = "bundling" /\ step' = "emptying"
    /\ bundle' = source
    /\ UNCHANGED <<sourceVars, host, began, dist, static, published, tabVars>>

\* It empties its outDir, dist/client, and nothing else of dist,
EmptyClient ==
    /\ step = "emptying" /\ step' = "writing"
    /\ dist' = [dist EXCEPT !.page = None, !.script = None]
    /\ UNCHANGED <<sourceVars, planVars, static, published, tabVars>>

\* and writes the files in any order.
WriteClient(f) ==
    /\ step = "writing" /\ dist[f] = None
    /\ dist' = [dist EXCEPT ![f] = IF f = "page" THEN PageOf(bundle, Base(host)) ELSE bundle]
    /\ step' = IF dist[Other(f)] = None THEN "writing" ELSE "checking"
    /\ UNCHANGED <<sourceVars, planVars, static, published, tabVars>>

\* prepare-sites-build looks for what it needs before it writes.
Check ==
    /\ step = "checking"
    /\ step' = IF dist.page = None \/ missing # {} THEN "failed" ELSE "worker"
    /\ UNCHANGED <<sourceVars, planVars, dist, static, published, tabVars>>

Half(f) == IF f = "worker" THEN "worker half" ELSE "hosting half"

\* copyFileSync fails for a file that is gone since (Fail), and else truncates
CopyStart(f) ==
    /\ step = f /\ f \notin missing
    /\ dist' = [dist EXCEPT ![f] = Torn]
    /\ step' = Half(f)
    /\ UNCHANGED <<sourceVars, planVars, static, published, tabVars>>

\* and writes: first the worker, then the hosting file.
CopyEnd(f) ==
    /\ step = Half(f)
    /\ dist' = [dist EXCEPT ![f] = source]
    /\ step' = IF f = "worker" THEN "hosting" ELSE "built"
    /\ UNCHANGED <<sourceVars, planVars, static, published, tabVars>>

\* "make web" goes on: rm -rf,
RemoveStatic ==
    /\ step = "built" /\ host = "local" /\ step' = "filling"
    /\ static' = NoFiles
    /\ UNCHANGED <<sourceVars, planVars, dist, published, tabVars>>

\* and cp -R.
FillStatic(f) ==
    /\ step = "filling" /\ static[f] = None
    /\ static' = [static EXCEPT ![f] = dist[f]]
    /\ step' = IF static[Other(f)] = None THEN "filling" ELSE "made"
    /\ UNCHANGED <<sourceVars, planVars, dist, published, tabVars>>

\* Mutation: "vite build; node scripts/prepare-sites-build.mjs"
FailUnheeded ==
    /\ ~ AtRest
    /\ step' = IF step = "bundling" THEN "checking" ELSE "failed"
    /\ UNCHANGED <<sourceVars, planVars, dist, static, published, tabVars>>

\* vite refuses the sources, a file cannot be copied, or the build is killed.
Fail ==
    /\ ~ AtRest
    /\ step' = "failed"
    /\ UNCHANGED <<sourceVars, planVars, dist, static, published, tabVars>>

\* What was made with success is published; the binary is built and started anew.
Publish ==
    /\ step = IF host = "local" THEN "made" ELSE "built"
    /\ published' = IF host = "local" THEN static ELSE Client(dist)
    /\ outdated' = (tab # "closed")
    /\ UNCHANGED <<sourceVars, buildVars, tab, request, reply, opened>>

-----------------------------------------------------------------------------
(* Serving *)

\* Mutation: the script's name has no hash.
FileAtAnyName(path) ==
    IF path = Index /\ published.page # None THEN AsPage(published.page)
    ELSE IF path.file = "script" /\ path.of.base = Root(host) /\ published.script # None
    THEN AsScript(published.script)
    ELSE NotFound

\* What the files of a host answer to GET or HEAD.
FileAt(path) ==
    IF path = Index /\ published.page # None THEN AsPage(published.page)
    ELSE IF path = ScriptPath(PageOf(published.script, Root(host)))
    THEN AsScript(published.script)
    ELSE NotFound

\* Files are not posted to.
Asset == IF request.method = "POST" THEN NotFound ELSE FileAt(request.path)

\* The page is opened, or somebody sends another request for a path of it.
Ask ==
    /\ tab = "closed" /\ tab' = "asked"
    /\ request' \in {r \in Requests : r.path \in {Index, Deep}}
    /\ outdated' = FALSE
    /\ UNCHANGED <<sourceVars, buildVars, published, reply, opened>>

\* The worker asks for what was asked for,
WorkerFetch ==
    /\ tab = "asked" /\ host = "sites"
    /\ IF Asset = NotFound /\ request.html /\ request.method \in {"GET", "HEAD"}
       THEN tab' = "falling back" /\ UNCHANGED reply
       ELSE tab' = "answered" /\ reply' = Asset
    /\ UNCHANGED <<sourceVars, buildVars, published, request, opened, outdated>>

\* and, for a navigation that has no file, for the page.
FallBack ==
    /\ tab = "falling back" /\ tab' = "answered"
    /\ reply' = FileAt(Index)
    /\ UNCHANGED <<sourceVars, buildVars, published, request, opened, outdated>>

PagesFetch ==
    /\ tab = "asked" /\ host = "pages" /\ tab' = "answered"
    /\ reply' = Asset
    /\ UNCHANGED <<sourceVars, buildVars, published, request, opened, outdated>>

\* Mutation: the page is sent without a look at whether it could be read.
LocalFetchUnchecked ==
    /\ tab = "asked" /\ host = "local" /\ tab' = "answered"
    /\ reply' = IF FileAt(request.path) = NotFound THEN AsPage(published.page)
                ELSE FileAt(request.path)
    /\ UNCHANGED <<sourceVars, buildVars, published, request, opened, outdated>>

\* The handler of "/" in server.go answers whatever is no file with the page.
LocalFetch ==
    /\ tab = "asked" /\ host = "local" /\ tab' = "answered"
    /\ reply' = IF FileAt(request.path) = NotFound THEN FileAt(Index)
                ELSE FileAt(request.path)
    /\ UNCHANGED <<sourceVars, buildVars, published, request, opened, outdated>>

-----------------------------------------------------------------------------
(* The browser *)

\* The page names its script.
LoadScript ==
    /\ tab = "answered" /\ opened = None
    /\ request = Navigation(request.path) /\ reply.kind = "page"
    /\ tab' = "asked"
    /\ opened' = reply.page
    /\ request' = ScriptRequest(reply.page)
    /\ UNCHANGED <<sourceVars, buildVars, published, reply, outdated>>

\* main.jsx renders App, unless the answer is none, or HTML.
Run ==
    /\ tab = "answered" /\ opened # None
    /\ tab' = IF reply.kind = "script" THEN "running" ELSE "blank"
    /\ UNCHANGED <<sourceVars, buildVars, published, request, reply, opened, outdated>>

Close ==
    /\ tab # "closed" /\ tab' = "closed"
    /\ request' = Navigation(Index)
    /\ reply' = NotFound /\ opened' = None /\ outdated' = FALSE
    /\ UNCHANGED <<sourceVars, buildVars, published>>

Build ==
    \/ Bundle \/ EmptyClient \/ Check \/ RemoveStatic \/ Fail
    \/ \E f \in {"page", "script"} : WriteClient(f) \/ FillStatic(f)
    \/ \E f \in Inputs : CopyStart(f) \/ CopyEnd(f)

Next ==
    \/ Edit \/ Build
    \/ Begin \/ Publish
    \/ Ask \/ WorkerFetch \/ FallBack \/ PagesFetch \/ LocalFetch
    \/ LoadScript \/ Run \/ Close

Spec == Init /\ [][Next]_vars

-----------------------------------------------------------------------------
(* Properties *)

\* A build that ends well (the last line of prepare-sites-build.mjs) leaves a
\* whole package: page and script of one edition, which fit the place they are
\* built for, worker and hosting file whole, and nothing older than the build -
\* whatever builds failed before and left their files.
PackageIsWhole ==
    step = "built" =>
        /\ dist.page = PageOf(bundle, Base(host)) /\ dist.script = bundle
        /\ bundle \in began..source
        /\ dist.worker \in bundle..source /\ dist.hosting \in bundle..source

\* A page runs (main.jsx), on each host, at every path the host has pages for,
\* unless another version was published after it was asked for.
NavigationRuns ==
    \/ tab = "blank"
    \/ tab = "answered" /\ request = Navigation(request.path) /\ reply = NotFound
    => \/ outdated
       \/ published = NoFiles
       \/ host = "pages" /\ request.path = Deep

\* Whatever is published meanwhile, a page never runs the script of another
\* edition.
PageRunsItsOwnScript == tab = "running" => reply.script = opened.edition
=============================================================================
