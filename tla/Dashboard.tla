----------------------------- MODULE Dashboard -----------------------------
(***************************************************************************)
(* The dashboard: App of web/src/App.jsx, the handlers of                  *)
(* internal/dashboard/server.go that answer it, and the index they read,   *)
(* which is the atomic one of AtomicIndex (IndexStore implements it) and   *)
(* may be refreshed by somebody else at any time.                          *)
(*                                                                         *)
(* The page fetches projects and status when it is opened.  Answers come   *)
(* in any order, while the user looks at any view.  What the router view   *)
(* does on top of it is in RouterView.                                     *)
(***************************************************************************)
EXTENDS Integers, FiniteSets

CONSTANTS
    Names,          \* names of projects
    InitialIndex,   \* what the index holds at first
    DemoProjects,   \* the projects of the page itself
    None            \* null or undefined

Fetches == {"projects", "status"}
Actors == Fetches \cup {"refresher"}
Views == {"router", "repositories", "evaluation", "settings"}

VARIABLES
    index, call, arg,   \* the index and the calls of its clients: AtomicIndex
    page,       \* closed, up, or crashed: React unmounts what throws
    view,       \* the view on the screen
    projects,   \* the state of App: a set, or None for null,
    workspace,  \* and the set that was counted for the status, or None
    load,       \* of the effect of App: none, opening, fetching, setting, counting, done
    got,        \* the responses to its two fetches
    history     \* (auxiliary) what the index has held since the page was opened

Index == INSTANCE AtomicIndex WITH Contents <- SUBSET Names, Blank <- InitialIndex

indexVars == <<index, call, arg>>
appVars == <<page, view, projects, workspace, load, got>>
vars == <<index, call, arg, page, view, projects, workspace, load, got, history>>

ASSUME DashboardAssumption ==
    /\ InitialIndex \subseteq Names /\ \A names \in SUBSET Names : names # None
    /\ DemoProjects # {} /\ IsFiniteSet(DemoProjects) /\ IsFiniteSet(Names)

Pending == [kind |-> "pending", value |-> {}]
Error == [kind |-> "error", value |-> {}]
Lost == [kind |-> "lost", value |-> {}]
Received(value) == [kind |-> "ok", value |-> value]
NoResponses == [f \in Fetches |-> Pending]

Responses == {Pending, Error, Lost} \cup {Received(value) : value \in SUBSET Names}

TypeOK ==
    /\ index \in SUBSET Names
    /\ call \in [Actors -> Index!Phases] /\ arg \in [Actors -> SUBSET Names]
    /\ page \in {"closed", "up", "crashed"}
    /\ view \in Views
    /\ projects \in (SUBSET Names) \cup {None} /\ workspace \in (SUBSET Names) \cup {None}
    /\ load \in {"none", "opening", "fetching", "setting", "counting", "done"}
    /\ got \in [Fetches -> Responses]
    /\ load \in {"setting", "counting"} => \A f \in Fetches : got[f] \notin {Pending, Lost}
    /\ history \in SUBSET SUBSET Names

Init ==
    /\ Index!Init
    /\ page = "closed" /\ view = "router"
    /\ projects = {} /\ workspace = None
    /\ load = "none"
    /\ got = NoResponses
    /\ history = {}

-----------------------------------------------------------------------------
(* The server.  Handlers of different requests run at the same time.       *)

\* handleProjects and handleStatus read the index.
Read(f) ==
    /\ Index!Observe(f)
    /\ UNCHANGED <<appVars, history>>

\* Somebody refreshes the index.
Refresh ==
    /\ \/ Index!CallReplace("refresher") \/ Index!TakeEffect("refresher")
       \/ call["refresher"] = "replacing" /\ Index!Reject("refresher")
       \/ call["refresher"] = "replaced" /\ Index!Answer("refresher")
    /\ history' = IF page = "closed" THEN history ELSE history \cup {index'}
    /\ UNCHANGED appVars

-----------------------------------------------------------------------------
(* What the page shows *)

\* Both views of projects read their length, of null too, and nothing catches
\* that.
Render(newView, newProjects) ==
    page' = IF newView \in {"router", "repositories"} /\ newProjects = None
            THEN "crashed" ELSE "up"

\* The repositories that are listed, those on the map, and the line above them.
Listed == IF projects = {} THEN DemoProjects ELSE projects
ListCount == Cardinality(Listed)

\* workspace?.project_count || projects.length || demoProjects.length
HeaderCount ==
    IF workspace \notin {None, {}} THEN Cardinality(workspace) ELSE Cardinality(Listed)

-----------------------------------------------------------------------------
(* The page *)

\* The page is opened and the effect of App sends the first fetch
OpenPage ==
    /\ load = "none" /\ load' = "opening"
    /\ page' = "up" /\ history' = {index}
    /\ Index!CallList("projects")
    /\ UNCHANGED <<view, projects, workspace, got>>

\* and, before anything else happens on the page, the second.
FetchStatus ==
    /\ load = "opening" /\ load' = "fetching"
    /\ Index!CallList("status")
    /\ UNCHANGED <<page, view, projects, workspace, got, history>>

\* Mutation: the handler drops the error of a listing, as workspaceStatus of the
\* MCP server does.
RespondAnyway(f) ==
    /\ load \in {"fetching", "done"}
    /\ \E response \in {Lost, Received(arg[f]), Received({})} :
        /\ IF response = Received(arg[f]) THEN Index!Answer(f) ELSE Index!Reject(f)
        /\ got' = IF load = "done" THEN got ELSE [got EXCEPT ![f] = response]
    /\ UNCHANGED <<page, view, projects, workspace, load, history>>

\* An answer of one of the two arrives: of the index, HTTP 500, or none at all.
\* Nobody waits for it when the other is lost.
Respond(f) ==
    /\ load \in {"fetching", "done"}
    /\ \E response \in {Error, Lost, Received(arg[f])} :
        /\ IF response.kind = "ok" THEN Index!Answer(f) ELSE Index!Reject(f)
        /\ got' = IF load = "done" THEN got ELSE [got EXCEPT ![f] = response]
    /\ UNCHANGED <<page, view, projects, workspace, load, history>>

\* Mutation: the effect goes on when one of the two has been answered, as
\* Promise.any does.
SettleEarly ==
    /\ load = "fetching"
    /\ \E f \in Fetches : got[f] # Pending
    /\ load' = "setting"
    /\ UNCHANGED <<indexVars, page, view, projects, workspace, got, history>>

\* Promise.all: one lost fetch ends the effect, both responses continue it.
Settle ==
    /\ load = "fetching"
    /\ \/ /\ \E f \in Fetches : got[f] = Lost
          /\ load' = "done" /\ got' = NoResponses
       \/ /\ \A f \in Fetches : got[f] \notin {Pending, Lost}
          /\ load' = "setting" /\ UNCHANGED got
    /\ UNCHANGED <<indexVars, page, view, projects, workspace, history>>

\* Projects appends to a nil slice, and JSON has null for one that stayed nil.
JsonOf(listing) == IF listing = {} THEN None ELSE listing

SetProjects ==
    /\ page = "up" /\ load = "setting"
    /\ projects' = IF got["projects"] = Error THEN projects
                   ELSE JsonOf(got["projects"].value)
    /\ Render(view, projects')
    /\ load' = "counting"
    /\ UNCHANGED <<indexVars, view, workspace, got, history>>

SetWorkspace ==
    /\ load = "counting"
    /\ workspace' = IF page = "crashed" \/ got["status"] = Error THEN workspace
                    ELSE got["status"].value
    /\ load' = "done"
    /\ got' = NoResponses
    /\ UNCHANGED <<indexVars, page, view, projects, history>>

\* The connection breaks within a body: json() rejects, which ends the effect.
LoseBody ==
    /\ \/ load = "setting" /\ got["projects"] # Error
       \/ load = "counting" /\ got["status"] # Error
    /\ load' = "done"
    /\ got' = NoResponses
    /\ UNCHANGED <<indexVars, page, view, projects, workspace, history>>

SelectView(v) ==
    /\ page = "up" /\ v # view
    /\ view' = v
    /\ Render(v, projects)
    /\ UNCHANGED <<indexVars, projects, workspace, load, got, history>>

Next ==
    \/ OpenPage \/ FetchStatus \/ Settle \/ SetProjects \/ SetWorkspace \/ LoseBody
    \/ Refresh
    \/ \E f \in Fetches : Read(f) \/ Respond(f)
    \/ \E v \in Views : SelectView(v)

Spec == Init /\ [][Next]_vars

-----------------------------------------------------------------------------
(* Properties *)

\* The effect of App shows nothing that the index did not hold while the page
\* was open, whichever of its two fetches fail or are overtaken by a refresh;
\* and if the index stayed as it was and both succeeded, the number in the header
\* of RouterView is the number of repositories in the list.  Nothing crashes the
\* page but an index that was empty while it was open.
ShowsTheIndex ==
    /\ projects \notin {None, {}} => projects \in history
    /\ workspace # None => workspace \in history
    /\ projects \notin {None, {}} /\ workspace # None /\ Cardinality(history) = 1 =>
           HeaderCount = ListCount
    /\ page = "crashed" => {} \in history

\* "projects.length ? projects : demoProjects" (App.jsx:76): the page is made
\* to show demo projects for an empty index.
PageSurvives == page # "crashed"
=============================================================================
