----------------------------- MODULE SitesProofs -----------------------------
(***************************************************************************)
(* For any number of editions of web/, in whatever order builds are made,  *)
(* killed and published: the files of a build belong together, a tab runs  *)
(* the script of its own page, and a page runs wherever its host has pages *)
(* for.  The argument goes along the way of a page: from a build (Built)   *)
(* to a host (Hosted) and from there to a tab (Shown).                     *)
(***************************************************************************)
EXTENDS Sites, TLAPS

Complete == {"checking", "worker", "worker half", "hosting", "hosting half", "built",
             "filling", "made"}

\* What a build has written, it has written itself.
Built ==
    /\ began <= source /\ bundle <= source
    /\ step \notin {"idle", "bundling", "failed"} => began <= bundle
    /\ step = "writing" =>
        dist.page \in {None, PageOf(bundle, Base(host))} /\ dist.script \in {None, bundle}
    /\ step \in Complete => dist.page = PageOf(bundle, Base(host)) /\ dist.script = bundle
    /\ step \in {"hosting", "hosting half", "built"} => dist.worker \in bundle..source
    /\ step = "built" => dist.hosting \in bundle..source

\* A host has no page, or one with its script, built for it.
Hosted ==
    /\ step = "filling" => static.page \in {None, dist.page} /\ static.script \in {None, dist.script}
    /\ step = "made" => static.page = dist.page /\ static.script = dist.script
    /\ \/ published = NoFiles
       \/ published.page = PageOf(published.script, Base(host)) /\ published.script \in Editions

\* What a tab has asked for and got.
Shown ==
    /\ tab = "closed" => opened = None
    /\ tab \in {"running", "blank"} => opened # None
    /\ tab = "falling back" => request.html
    /\ opened = None => request.path \in {Index, Deep}
    /\ opened # None => request = ScriptRequest(opened)
    /\ tab = "running" => reply.kind = "script"
    /\ tab \in {"answered", "running"} /\ opened # None /\ reply.kind = "script" =>
        reply.script = opened.edition

\* What it has got while no other version was published.
ShownOfHost ==
    ~ outdated =>
        /\ opened # None => opened = published.page
        /\ tab = "answered" /\ reply.kind = "page" =>
            reply.page = published.page /\ published.page # None
        /\ tab = "answered" /\ opened # None => reply.kind = "script"
        /\ tab # "blank"
        /\ tab = "falling back" => host = "sites"
        /\ tab = "answered" /\ opened = None /\ request = Navigation(request.path)
           /\ published # NoFiles /\ ~ (host = "pages" /\ request.path = Deep) => reply # NotFound

-----------------------------------------------------------------------------
(* Types *)

LEMMA PageTypes ==
    /\ \A e \in Editions, h \in Hosts : PageOf(e, Base(h)) \in AllPages
    /\ \A p \in AllPages : p.edition \in Editions /\ p = PageOf(p.edition, p.base)
    /\ \A e \in Editions : e # None /\ e # Torn
    /\ 0 \in Editions
BY SitesAssumption DEF AllPages, PageOf, Base, Editions, Hosts

LEMMA RequestTypes ==
    /\ Index \in Paths /\ Deep \in Paths /\ \A page \in AllPages : ScriptPath(page) \in Paths
    /\ \A path \in Paths : Navigation(path) \in Requests
    /\ \A page \in AllPages : ScriptRequest(page) \in Requests
    /\ NotFound \in Replies
<1>1. Index \in Paths /\ Deep \in Paths /\ \A page \in AllPages : ScriptPath(page) \in Paths
  BY DEF Paths
<1>2. \A path \in Paths : Navigation(path) \in Requests
  BY DEF Navigation, Requests
<1>3. \A page \in AllPages : ScriptRequest(page) \in Requests
  BY <1>1 DEF ScriptRequest, Requests
<1>4. NotFound \in Replies
  BY DEF Replies
<1> QED
  BY <1>1, <1>2, <1>3, <1>4

LEMMA FileTypes ==
    ASSUME TypeOK, NEW path \in Paths PROVE FileAt(path) \in Replies
<1>1. published.page \in AllPages \cup {None} /\ published.script \in Editions \cup {None}
  BY DEF TypeOK, Files
<1>2. CASE path = Index /\ published.page # None
  BY <1>1, <1>2 DEF FileAt, Replies
<1>3. CASE ~ (path = Index /\ published.page # None)
           /\ path = ScriptPath(PageOf(published.script, Root(host)))
  <2>1. PageOf(published.script, Root(host)) \in AllPages
    <3>1. path \notin {Index, Deep}
      BY <1>3 DEF ScriptPath, Index, Deep
    <3>2. PICK page \in AllPages : path = ScriptPath(page)
      BY <3>1 DEF Paths
    <3> QED
      BY <1>3, <3>2 DEF ScriptPath
  <2>2. published.script \in Editions
    BY <2>1 DEF PageOf, AllPages
  <2> QED
    BY <1>3, <2>2 DEF FileAt, Replies
<1>4. CASE ~ (path = Index /\ published.page # None)
           /\ path # ScriptPath(PageOf(published.script, Root(host)))
  BY <1>4 DEF FileAt, Replies
<1> QED
  BY <1>2, <1>3, <1>4

LEMMA PageReplies ==
    ASSUME NEW r \in Replies, r.kind = "page" PROVE r.page \in AllPages
<1>1. r # NotFound /\ \A e \in Editions : r # AsScript(e)
  BY DEF NotFound, AsScript
<1>2. PICK page \in AllPages : r = AsPage(page)
  BY <1>1 DEF Replies
<1> QED
  BY <1>2 DEF AsPage

LEMMA InitTypes == Init => TypeOK
<1> SUFFICES ASSUME Init PROVE TypeOK
  OBVIOUS
<1>1. dist \in Package /\ static \in Files /\ published \in Files
  BY DEF Init, Package, Files, NoFiles
<1>2. request \in Requests /\ reply \in Replies
  BY RequestTypes DEF Init
<1>3. source \in Editions /\ began \in Editions /\ bundle \in Editions
  BY PageTypes DEF Init
<1> QED
  BY <1>1, <1>2, <1>3 DEF Init, TypeOK, BuildSteps

LEMMA StepTypes == TypeOK /\ [Next]_vars => TypeOK'
<1> SUFFICES ASSUME TypeOK, [Next]_vars PROVE TypeOK'
  OBVIOUS
<1> USE DEF BuildSteps
<1>1. CASE Edit
  <2>1. source \in 0..MaxEdits /\ source < MaxEdits /\ source' = source + 1
    BY <1>1 DEF Edit, TypeOK, Editions
  <2>2. source' \in Editions
    BY <2>1, SitesAssumption DEF Editions
  <2> QED
    BY <1>1, <2>2 DEF Edit, TypeOK, buildVars, tabVars
<1>2. CASE Begin \/ Bundle \/ Check \/ Fail
  BY <1>2 DEF Begin, Bundle, Check, Fail, TypeOK, tabVars, sourceVars, planVars
<1>3. CASE EmptyClient
  <2>1. dist' \in Package
    BY <1>3 DEF EmptyClient, TypeOK, Package
  <2> QED
    BY <1>3, <2>1 DEF EmptyClient, TypeOK, tabVars, sourceVars, planVars
<1>4. CASE RemoveStatic
  <2>1. static' \in Files
    BY <1>4 DEF RemoveStatic, Files, NoFiles
  <2> QED
    BY <1>4, <2>1 DEF RemoveStatic, TypeOK, tabVars, sourceVars, planVars
<1>5. ASSUME NEW f \in {"page", "script"}, WriteClient(f) PROVE TypeOK'
  <2>1. dist' \in Package
    BY <1>5, PageTypes DEF WriteClient, TypeOK, Package
  <2> QED
    BY <1>5, <2>1 DEF WriteClient, TypeOK, tabVars, sourceVars, planVars
<1>6. ASSUME NEW f \in {"page", "script"}, FillStatic(f) PROVE TypeOK'
  <2>1. static' \in Files
    BY <1>6 DEF FillStatic, TypeOK, Files, Package
  <2> QED
    BY <1>6, <2>1 DEF FillStatic, TypeOK, tabVars, sourceVars, planVars
<1>7. ASSUME NEW f \in Inputs, CopyStart(f) \/ CopyEnd(f) PROVE TypeOK'
  <2>1. dist' \in Package
    BY <1>7 DEF CopyStart, CopyEnd, TypeOK, Package, Inputs
  <2> QED
    BY <1>7, <2>1 DEF CopyStart, CopyEnd, TypeOK, tabVars, sourceVars, planVars, Half
<1>8. CASE Publish
  <2>1. published' \in Files
    BY <1>8 DEF Publish, TypeOK, Client, Files, Package
  <2> QED
    BY <1>8, <2>1 DEF Publish, TypeOK, sourceVars, buildVars
<1>9. CASE Ask
  BY <1>9 DEF Ask, TypeOK, sourceVars, buildVars
<1>10. CASE WorkerFetch \/ PagesFetch \/ LocalFetch \/ FallBack
  <2>1. request.path \in Paths /\ Index \in Paths
    BY DEF TypeOK, Requests, Paths
  <2>2. FileAt(request.path) \in Replies /\ FileAt(Index) \in Replies /\ NotFound \in Replies
    BY <2>1, FileTypes DEF Replies
  <2> QED
    BY <1>10, <2>2 DEF WorkerFetch, PagesFetch, LocalFetch, FallBack, Asset, TypeOK, sourceVars,
       buildVars
<1>11. CASE LoadScript
  <2>1. reply.page \in AllPages
    <3>1. reply \in Replies /\ reply.kind = "page"
      BY <1>11 DEF LoadScript, TypeOK
    <3> QED
      BY <3>1, PageReplies
  <2>2. ScriptRequest(reply.page) \in Requests
    BY <2>1, RequestTypes
  <2> QED
    BY <1>11, <2>1, <2>2 DEF LoadScript, TypeOK, sourceVars, buildVars
<1>12. CASE Run
  BY <1>12 DEF Run, TypeOK, sourceVars, buildVars
<1>13. CASE Close
  BY <1>13, RequestTypes DEF Close, TypeOK, sourceVars, buildVars
<1>14. CASE UNCHANGED vars
  BY <1>14 DEF vars, TypeOK
<1> QED
  BY <1>1, <1>2, <1>3, <1>4, <1>5, <1>6, <1>7, <1>8, <1>9, <1>10, <1>11, <1>12, <1>13,
     <1>14 DEF Next, Build

\* Builds, hosts and tabs keep their types.
THEOREM TypeCorrect == Spec => []TypeOK
BY InitTypes, StepTypes, PTL DEF Spec
-----------------------------------------------------------------------------
(* The package *)

TabStep == Ask \/ WorkerFetch \/ FallBack \/ PagesFetch \/ LocalFetch \/ LoadScript \/ Run \/ Close

LEMMA TabStepOnly ==
    ASSUME TabStep
    PROVE  UNCHANGED <<source, missing, host, step, began, bundle, dist, static, published>>
BY DEF TabStep, Ask, WorkerFetch, FallBack, PagesFetch, LocalFetch, LoadScript, Run, Close,
   sourceVars, buildVars

LEMMA InitBuilt == Init => Built /\ Hosted /\ Shown /\ ShownOfHost
<1> SUFFICES ASSUME Init PROVE Built /\ Hosted /\ Shown /\ ShownOfHost
  OBVIOUS
<1>1. Built /\ Hosted
  BY DEF Init, Built, Hosted, Complete
<1>2. Shown /\ ShownOfHost
  BY DEF Init, Shown, ShownOfHost, Navigation, NotFound
<1> QED
  BY <1>1, <1>2

LEMMA EditionTypes ==
    /\ \A e \in Editions : e \in Nat
    /\ TypeOK => source \in Nat /\ began \in Nat /\ bundle \in Nat
<1>1. \A e \in Editions : e \in Nat
  BY SitesAssumption DEF Editions
<1> QED
  BY <1>1 DEF TypeOK

LEMMA StepBuilt == TypeOK /\ Built /\ [Next]_vars => Built'
<1> SUFFICES ASSUME TypeOK, Built, [Next]_vars PROVE Built'
  OBVIOUS
<1>1. source \in Nat /\ began \in Nat /\ bundle \in Nat /\ began <= source /\ bundle <= source
  <2>1. began <= source /\ bundle <= source
    BY DEF Built
  <2> QED
    BY <2>1, EditionTypes
<1>2. CASE Edit
  <2>1. source' = source + 1 /\ UNCHANGED <<host, step, began, bundle, dist>>
    BY <1>2 DEF Edit, buildVars
  <2>2. \A x \in bundle..source : x \in bundle..source'
    BY <1>1, <2>1
  <2>3. began <= source' /\ bundle <= source'
    BY <1>1, <2>1
  <2> QED
    BY <2>1, <2>2, <2>3 DEF Built
<1>3. CASE Begin
  <2>1. step' = "bundling" /\ began' = source /\ UNCHANGED <<source, host, bundle, dist>>
    BY <1>3 DEF Begin, sourceVars
  <2>2. began' <= source'
    BY <1>1, <2>1
  <2> QED
    BY <2>1, <2>2 DEF Built, Complete
<1>4. CASE Bundle
  BY <1>1, <1>4 DEF Bundle, Built, Complete, sourceVars
<1>5. CASE EmptyClient
  BY <1>1, <1>5 DEF EmptyClient, Built, Complete, sourceVars, planVars, TypeOK, Package
<1>6. CASE Fail
  BY <1>1, <1>6 DEF Fail, Built, Complete, sourceVars, planVars
<1>7. CASE Check \/ RemoveStatic
  BY <1>1, <1>7 DEF Check, RemoveStatic, Built, Complete, sourceVars, planVars
<1>8. ASSUME NEW f \in {"page", "script"}, WriteClient(f) PROVE Built'
  <2>1. /\ step = "writing" /\ step' \in {"writing", "checking"} /\ UNCHANGED <<source, host, began, bundle>>
        /\ step' = "checking" => dist[Other(f)] # None
    BY <1>8 DEF WriteClient, sourceVars, planVars
  <2>2. CASE f = "page"
    <3>1. dist'.page = PageOf(bundle, Base(host)) /\ dist'.script = dist.script
      BY <1>8, <2>2 DEF WriteClient, TypeOK, Package
    <3>2. Other(f) = "script"
      BY <2>2 DEF Other
    <3> QED
      BY <1>1, <2>1, <3>1, <3>2 DEF Built, Complete
  <2>3. CASE f = "script"
    <3>1. dist'.script = bundle /\ dist'.page = dist.page
      BY <1>8, <2>3 DEF WriteClient, TypeOK, Package
    <3>2. Other(f) = "page"
      BY <2>3 DEF Other
    <3> QED
      BY <1>1, <2>1, <3>1, <3>2 DEF Built, Complete
  <2> QED
    BY <2>2, <2>3
<1>9. ASSUME NEW f \in Inputs, CopyStart(f) PROVE Built'
  <2>1. /\ f = "worker" \/ dist'.worker = dist.worker
        /\ dist'.page = dist.page /\ dist'.script = dist.script
    BY <1>9 DEF CopyStart, TypeOK, Package, Inputs
  <2> QED
    BY <1>1, <1>9, <2>1 DEF CopyStart, Half, Built, Complete, sourceVars, planVars, Inputs
<1>10. ASSUME NEW f \in Inputs, CopyEnd(f) PROVE Built'
  <2>1. /\ dist'.page = dist.page /\ dist'.script = dist.script
        /\ f = "worker" => dist'.worker = source
        /\ f = "hosting" => dist'.worker = dist.worker /\ dist'.hosting = source
    BY <1>10 DEF CopyEnd, TypeOK, Package, Inputs
  <2>2. source \in bundle..source
    BY <1>1
  <2>3. UNCHANGED <<source, host, began, bundle>>
    BY <1>10 DEF CopyEnd, sourceVars, planVars
  <2>4. CASE f = "worker"
    <3>1. step = "worker half" /\ step' = "hosting"
      BY <1>10, <2>4 DEF CopyEnd, Half
    <3> QED
      BY <2>1, <2>2, <2>3, <2>4, <3>1 DEF Built, Complete
  <2>5. CASE f = "hosting"
    <3>1. step = "hosting half" /\ step' = "built"
      BY <1>10, <2>5 DEF CopyEnd, Half
    <3> QED
      BY <2>1, <2>2, <2>3, <2>5, <3>1 DEF Built, Complete
  <2> QED
    BY <2>4, <2>5 DEF Inputs
<1>11. ASSUME NEW f \in {"page", "script"}, FillStatic(f) PROVE Built'
  BY <1>1, <1>11 DEF FillStatic, Built, Complete, sourceVars, planVars
<1>12. CASE Publish \/ TabStep \/ UNCHANGED vars
  BY <1>12, TabStepOnly DEF Publish, vars, Built, Complete, sourceVars, buildVars
<1> QED
  BY <1>2, <1>3, <1>4, <1>5, <1>6, <1>7, <1>8, <1>9, <1>10, <1>11, <1>12 DEF Next, Build, TabStep

\* A build that ends well leaves a whole package, whatever builds were killed
\* before it and left their files.
THEOREM PackageAlwaysWhole == Spec => []PackageIsWhole
<1>1. TypeOK /\ Built => PackageIsWhole
  <2> SUFFICES ASSUME TypeOK, Built, step = "built" PROVE PackageIsWhole
    BY DEF PackageIsWhole
  <2>1. bundle \in Nat /\ began \in Nat /\ source \in Nat
    BY EditionTypes
  <2> QED
    BY <2>1 DEF Built, Complete, PackageIsWhole
<1> QED
  BY <1>1, InitTypes, StepTypes, InitBuilt, StepBuilt, PTL DEF Spec

-----------------------------------------------------------------------------
(* The hosts *)

LEMMA StepHosted == TypeOK /\ Built /\ Hosted /\ [Next]_vars => Hosted'
<1> SUFFICES ASSUME TypeOK, Built, Hosted, [Next]_vars PROVE Hosted'
  OBVIOUS
<1>1. CASE Edit \/ Begin \/ Bundle \/ Check \/ Fail
  BY <1>1 DEF Edit, Begin, Bundle, Check, Fail, Hosted, sourceVars, planVars, buildVars
<1>2. CASE EmptyClient \/ \E f \in {"page", "script"} : WriteClient(f)
  BY <1>2 DEF EmptyClient, WriteClient, Hosted, sourceVars, planVars
<1>3. CASE \E f \in Inputs : CopyStart(f) \/ CopyEnd(f)
  BY <1>3 DEF CopyStart, CopyEnd, Half, Inputs, Hosted, sourceVars, planVars
<1>4. CASE RemoveStatic
  BY <1>4 DEF RemoveStatic, Hosted, NoFiles, sourceVars, planVars
<1>5. ASSUME NEW f \in {"page", "script"}, FillStatic(f) PROVE Hosted'
  <2>1. /\ step = "filling" /\ step' \in {"filling", "made"} /\ UNCHANGED <<host, dist, published>>
        /\ step' = "made" => static[Other(f)] # None
    BY <1>5 DEF FillStatic, planVars
  <2>2. CASE f = "page"
    <3>1. static'.page = dist.page /\ static'.script = static.script /\ Other(f) = "script"
      BY <1>5, <2>2 DEF FillStatic, Other, TypeOK, Files
    <3> QED
      BY <2>1, <3>1 DEF Hosted
  <2>3. CASE f = "script"
    <3>1. static'.script = dist.script /\ static'.page = static.page /\ Other(f) = "page"
      BY <1>5, <2>3 DEF FillStatic, Other, TypeOK, Files
    <3> QED
      BY <2>1, <3>1 DEF Hosted
  <2> QED
    BY <2>2, <2>3
<1>6. CASE Publish
  <2>1. published'.page = PageOf(published'.script, Base(host)) /\ published'.script \in Editions
    BY <1>6 DEF Publish, Built, Hosted, Complete, Client, TypeOK
  <2> QED
    BY <1>6, <2>1 DEF Publish, Hosted, buildVars
<1>7. CASE TabStep \/ UNCHANGED vars
  BY <1>7, TabStepOnly DEF vars, Hosted
<1> QED
  BY <1>1, <1>2, <1>3, <1>4, <1>5, <1>6, <1>7 DEF Next, Build, TabStep

-----------------------------------------------------------------------------
(* The tab *)

LEMMA RequestsDiffer ==
    /\ \A page : ScriptPath(page) # Index /\ ScriptPath(page) # Deep
    /\ \A p, q : ScriptPath(p) = ScriptPath(q) => p = q
    /\ Index # Deep
    /\ \A page, path : ScriptRequest(page) # Navigation(path)
    /\ \A page : ScriptRequest(page).path = ScriptPath(page) /\ ~ ScriptRequest(page).html
                 /\ ScriptRequest(page).method = "GET"
BY DEF ScriptPath, Index, Deep, ScriptRequest, Navigation

\* An answer is the page of the host, a script that was asked for, or none.
LEMMA AnswersFit ==
    ASSUME NEW path
    PROVE  /\ FileAt(path).kind = "page" =>
                path = Index /\ FileAt(path).page = published.page /\ published.page # None
           /\ FileAt(path).kind = "script" =>
                path = ScriptPath(PageOf(FileAt(path).script, Root(host)))
           /\ NotFound.kind = "404" /\ FileAt(path) # NotFound => FileAt(path).kind # "404"
BY DEF FileAt, AsPage, AsScript, NotFound

\* A step that is not the tab's own.
LEMMA ShownUndisturbed ==
    ASSUME Shown, UNCHANGED <<tab, request, reply, opened>> PROVE Shown'
BY DEF Shown

LEMMA StepShown == TypeOK /\ Shown /\ [Next]_vars => Shown'
<1> SUFFICES ASSUME TypeOK, Shown, [Next]_vars PROVE Shown'
  OBVIOUS
<1>1. CASE Ask
  BY <1>1 DEF Ask, Shown
<1>2. CASE WorkerFetch \/ PagesFetch \/ LocalFetch \/ FallBack
  <2>1. \/ tab' = "falling back"
        \/ reply' \in {NotFound, FileAt(Index), FileAt(request.path)}
    BY <1>2 DEF WorkerFetch, PagesFetch, LocalFetch, FallBack, Asset
  <2>2. /\ tab' \in {"falling back", "answered"} /\ request' = request /\ opened' = opened
        /\ tab' = "falling back" => request.html
    BY <1>2 DEF WorkerFetch, PagesFetch, LocalFetch, FallBack
  <2>3. ASSUME tab' = "answered", opened # None, reply'.kind = "script"
        PROVE  reply'.script = opened.edition
    <3>1. request.path = ScriptPath(opened)
      BY <2>3, RequestsDiffer DEF Shown
    <3>2. reply' = FileAt(request.path)
      <4>1. NotFound.kind # "script"
        BY DEF NotFound
      <4>2. FileAt(Index).kind # "script"
        <5>1. \A page : ScriptPath(page) # Index
          BY RequestsDiffer
        <5>2. FileAt(Index).kind = "script" =>
                  Index = ScriptPath(PageOf(FileAt(Index).script, Root(host)))
          BY AnswersFit
        <5> QED
          BY <5>1, <5>2
      <4> QED
        BY <2>1, <2>3, <4>1, <4>2
    <3>3. opened = PageOf(reply'.script, Root(host))
      BY <2>3, <3>1, <3>2, AnswersFit, RequestsDiffer
    <3> QED
      BY <3>3 DEF PageOf
  <2> QED
    BY <2>2, <2>3 DEF Shown
<1>3. CASE LoadScript
  <2>1. tab' = "asked" /\ opened' = reply.page /\ request' = ScriptRequest(reply.page)
    BY <1>3 DEF LoadScript
  <2>2. opened' # None
    <3>1. reply \in Replies /\ reply.kind = "page"
      BY <1>3 DEF LoadScript, TypeOK
    <3> QED
      BY <2>1, <3>1, PageReplies, NoneIsNoPage
  <2> QED
    BY <2>1, <2>2 DEF Shown
<1>4. CASE Run
  BY <1>4 DEF Run, Shown
<1>5. CASE Close
  BY <1>5 DEF Close, Navigation, Shown
<1>6. CASE Edit \/ Build \/ Begin \/ Publish \/ UNCHANGED vars
  BY <1>6, ShownUndisturbed DEF Edit, Build, Begin, Bundle, EmptyClient, Check, RemoveStatic, Fail,
     WriteClient, FillStatic, CopyStart, CopyEnd, Publish, tabVars, vars
<1> QED
  BY <1>1, <1>2, <1>3, <1>4, <1>5, <1>6 DEF Next

\* A page never runs the script of another edition, whatever is published while
\* it is loaded.
THEOREM PageAlwaysRunsItsOwnScript == Spec => []PageRunsItsOwnScript
<1>1. Shown => PageRunsItsOwnScript
  BY DEF Shown, PageRunsItsOwnScript
<1> QED
  BY <1>1, InitTypes, StepTypes, InitBuilt, StepShown, PTL DEF Spec
-----------------------------------------------------------------------------
(* A page and the host it came from *)

\* A step that is not the tab's own, and publishes nothing.
LEMMA ShownOfHostUndisturbed ==
    ASSUME ShownOfHost, UNCHANGED <<tab, request, reply, opened, outdated, published, host>>
    PROVE  ShownOfHost'
BY DEF ShownOfHost

\* A page of the host finds its script there.
LEMMA ScriptIsThere ==
    ASSUME TypeOK, Hosted, Shown, ~ outdated, ShownOfHost, opened # None
    PROVE  FileAt(request.path) = AsScript(published.script) /\ Asset = FileAt(request.path)
<1>1. opened = published.page /\ published # NoFiles
  <2>1. opened = published.page
    BY DEF ShownOfHost
  <2> QED
    BY <2>1 DEF NoFiles
<1>2. opened = PageOf(published.script, Root(host))
  BY <1>1 DEF Hosted, Root, Base
<1>3. request.path = ScriptPath(opened) /\ request.method = "GET"
  BY RequestsDiffer DEF Shown
<1>4. request.path # Index
  BY <1>3, RequestsDiffer
<1> QED
  BY <1>2, <1>3, <1>4 DEF FileAt, Asset

\* A host that has anything has the page.
LEMMA PageIsThere ==
    ASSUME TypeOK, Hosted, published # NoFiles PROVE FileAt(Index).kind = "page"
<1>1. published.page \in AllPages
  BY PageTypes DEF Hosted, TypeOK
<1> QED
  BY <1>1, NoneIsNoPage DEF FileAt, AsPage

\* What the answer to a tab's request is.
LEMMA AnswerIsOfHost ==
    ASSUME TypeOK, Hosted, Shown, ShownOfHost,
           WorkerFetch \/ PagesFetch \/ LocalFetch \/ FallBack
    PROVE  ShownOfHost'
<1>1. /\ tab' \in {"falling back", "answered"}
      /\ UNCHANGED <<request, opened, outdated, published, host>>
  BY DEF WorkerFetch, PagesFetch, LocalFetch, FallBack, buildVars
<1>2. SUFFICES ASSUME ~ outdated PROVE ShownOfHost'
  BY <1>1 DEF ShownOfHost
<1>3. opened # None => opened = published.page
  BY <1>2 DEF ShownOfHost
<1>4. ASSUME tab' = "falling back" PROVE host = "sites"
  BY <1>4 DEF WorkerFetch, PagesFetch, LocalFetch, FallBack
<1>5. CASE tab' = "answered" /\ opened # None
  <2>1. FileAt(request.path) = AsScript(published.script) /\ Asset = FileAt(request.path)
    BY <1>2, <1>5, ScriptIsThere
  <2>2. tab # "falling back"
    <3>1. ~ request.html
      BY <1>5, RequestsDiffer DEF Shown
    <3> QED
      BY <3>1 DEF Shown
  <2>3. FileAt(request.path) # NotFound /\ FileAt(request.path).kind = "script"
    BY <2>1 DEF AsScript, NotFound
  <2>4. reply' = FileAt(request.path)
    BY <2>1, <2>2, <2>3 DEF WorkerFetch, PagesFetch, LocalFetch, FallBack
  <2> QED
    BY <1>1, <1>3, <1>5, <2>3, <2>4 DEF ShownOfHost
<1>6. CASE tab' = "answered" /\ opened = None
  <2>1. reply' \in {NotFound, FileAt(Index), FileAt(request.path)}
    BY <1>6 DEF WorkerFetch, PagesFetch, LocalFetch, FallBack, Asset
  <2>2. reply'.kind = "page" => reply'.page = published.page /\ published.page # None
    <3>1. NotFound.kind # "page"
      BY DEF NotFound
    <3>2. \A path : FileAt(path).kind = "page" =>
              FileAt(path).page = published.page /\ published.page # None
      BY AnswersFit
    <3> QED
      BY <2>1, <3>1, <3>2
  <2>3. ASSUME request = Navigation(request.path), published # NoFiles,
               ~ (host = "pages" /\ request.path = Deep)
        PROVE  reply' # NotFound
    <3>1. FileAt(Index) # NotFound
      BY <2>3, PageIsThere DEF NotFound
    <3>2. request.path \in {Index, Deep} /\ request.html /\ request.method = "GET"
      <4>1. request.path \in {Index, Deep}
        BY <1>6 DEF Shown
      <4>2. \A path : Navigation(path).html /\ Navigation(path).method = "GET"
        BY DEF Navigation
      <4> QED
        BY <2>3, <4>1, <4>2
    <3>3. Asset = FileAt(request.path)
      BY <3>2 DEF Asset
    <3>4. CASE WorkerFetch
      BY <1>6, <3>2, <3>3, <3>4 DEF WorkerFetch
    <3>5. CASE FallBack
      BY <3>1, <3>5 DEF FallBack
    <3>6. CASE PagesFetch
      BY <2>3, <3>1, <3>2, <3>3, <3>6 DEF PagesFetch
    <3>7. CASE LocalFetch
      BY <3>1, <3>7 DEF LocalFetch
    <3> QED
      BY <3>4, <3>5, <3>6, <3>7
  <2> QED
    BY <1>1, <1>6, <2>2, <2>3 DEF ShownOfHost
<1>7. CASE tab' = "falling back"
  BY <1>1, <1>3, <1>4, <1>7 DEF ShownOfHost
<1> QED
  BY <1>1, <1>5, <1>6, <1>7

LEMMA StepShownOfHost ==
    TypeOK /\ Hosted /\ Shown /\ ShownOfHost /\ [Next]_vars => ShownOfHost'
<1> SUFFICES ASSUME TypeOK, Hosted, Shown, ShownOfHost, [Next]_vars PROVE ShownOfHost'
  OBVIOUS
<1>1. CASE Ask
  BY <1>1 DEF Ask, Shown, ShownOfHost
<1>2. CASE LoadScript
  <2>1. /\ tab = "answered" /\ reply.kind = "page" /\ tab' = "asked" /\ opened' = reply.page
        /\ UNCHANGED <<outdated, published>>
    BY <1>2 DEF LoadScript
  <2> QED
    BY <2>1 DEF ShownOfHost
<1>3. CASE Run
  <2>1. /\ tab = "answered" /\ opened # None /\ UNCHANGED <<outdated, published, opened>>
        /\ tab' = IF reply.kind = "script" THEN "running" ELSE "blank"
    BY <1>3 DEF Run
  <2> QED
    BY <2>1 DEF ShownOfHost
<1>4. CASE Close
  BY <1>4 DEF Close, ShownOfHost
<1>5. CASE Publish
  <2>1. UNCHANGED <<tab, opened>> /\ outdated' = (tab # "closed")
    BY <1>5 DEF Publish
  <2> QED
    BY <2>1 DEF Shown, ShownOfHost
<1>6. CASE Edit \/ Build \/ Begin \/ UNCHANGED vars
  BY <1>6, ShownOfHostUndisturbed DEF Edit, Build, Begin, Bundle, EmptyClient, Check, RemoveStatic,
     Fail, WriteClient, FillStatic, CopyStart, CopyEnd, tabVars, buildVars, planVars, vars
<1> QED
  BY <1>1, <1>2, <1>3, <1>4, <1>5, <1>6, AnswerIsOfHost DEF Next

\* On each host and at every path it has pages for, a page runs, unless another
\* version was published after it was asked for.
THEOREM NavigationAlwaysRuns == Spec => []NavigationRuns
<1> DEFINE Inv == TypeOK /\ Built /\ Hosted /\ Shown /\ ShownOfHost
<1>1. Init => Inv
  BY InitTypes, InitBuilt
<1>2. Inv /\ [Next]_vars => Inv'
  BY StepTypes, StepBuilt, StepHosted, StepShown, StepShownOfHost
<1>3. ASSUME Inv PROVE NavigationRuns
  <2>1. CASE outdated \/ published = NoFiles \/ (host = "pages" /\ request.path = Deep)
    BY <2>1 DEF NavigationRuns
  <2>2. CASE ~ outdated /\ published # NoFiles /\ ~ (host = "pages" /\ request.path = Deep)
    <3>1. tab # "blank"
      BY <1>3, <2>2 DEF ShownOfHost
    <3>2. ~ (tab = "answered" /\ request = Navigation(request.path) /\ reply = NotFound)
      <4>1. opened # None => request # Navigation(request.path)
        BY <1>3, RequestsDiffer DEF Shown
      <4> QED
        BY <1>3, <2>2, <4>1 DEF ShownOfHost
    <3> QED
      BY <3>1, <3>2 DEF NavigationRuns
  <2> QED
    BY <2>1, <2>2
<1> QED
  BY <1>1, <1>2, <1>3, PTL DEF Spec
=============================================================================
