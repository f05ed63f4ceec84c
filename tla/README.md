# WhichRepo in TLA+

WhichRepo (Go, with a small React dashboard) answers "which repository does
this task belong to?". It scans a workspace of repositories into a SQLite
index, ranks the indexed projects for a task, and may ask a remote decision
provider (Jev) to re-rank them. This directory models what can go wrong in it,
checks the models with TLC and proves their main properties with TLAPS.

## The system

| part | code | state it keeps | operations | talks to |
| --- | --- | --- | --- | --- |
| project index | `internal/index/store.go` | one SQLite table, `projects_v2` | `Open` (migrate), `ReplaceProjects`, `Projects`, `Search` | SQLite |
| refresh | `cmd/whichrepo/main.go` `refresh`, `refreshWithStore` | none of its own | load configuration, scan, replace | configuration, scanner, index |
| router | `internal/router/router.go` | none between calls | `Route` | index (twice), provider client |
| provider client | `internal/gateway/client.go` | none between calls | `Evaluate` | the provider, over HTTP |
| scanner | `internal/scanner/scanner.go` | none between calls | `Scan`: discover projects, read them, resolve dependencies | the disk, analyzer |
| analyzers | `internal/analyzer`, `analyzer/` | parsers, a registry | manifests and syntax of one file | tree-sitter |
| configuration | `internal/config/config.go` | files on the disk | `Load`, `LoadWorkspace`, `ResolveConfig`, `Validate` | the disk |
| command line | `cmd/whichrepo/main.go` | settings of one process | `init`, `index`, `route`, `setup`, `doctor`, `eval`, `config`, `mcp`, `dashboard` | all of the above |
| MCP server | `internal/mcp/server.go` | none between requests | `initialize`, `tools/list`, four tools | router, refresh, index |
| dashboard server | `internal/dashboard/server.go` | none between requests | four HTTP handlers, and the page's files | router, refresh, index |
| web UI | `web/src/App.jsx`, `main.jsx` | a page per browser, a view per visit of it | fetch projects and status, ask for a route, draw it, copy it | dashboard server, clipboard |
| web build and hosting | `web/vite.config.mjs`, `web/scripts/prepare-sites-build.mjs`, `web/worker/index.js`, `make web`, `pages.yml` | `web/dist`, `internal/dashboard/static`, what is published | build, complete the package, publish, serve | vite, the hosts, browsers |
| agent setup | `internal/agentsetup/setup.go` | other programs' configuration | `Apply` for Codex, Claude Code, Cursor | the disk, their CLIs |
| evaluation | `internal/evaluation/evaluation.go` | none | `Run`: accuracy over a file of cases | router |

A dashboard process serves its requests at the same time, an MCP process one
after another, and a command-line process has one. All of them may run
together, and by default share one database file. What is hard to test lies
there: requests of one or more processes in an order nobody tried, a transaction
that fails or whose process dies half way, an index that changes between two
reads, and a provider that is late, breaks off or answers nonsense. PROJECT.json
lists each such hazard at its line, with the properties that watch it.

What makes each part correct:

| part | it is correct if |
| --- | --- |
| project index | it is always one whole refresh (or empty), whatever fails or dies; a listing is one whole refresh too; the write lock never outlives its transaction; nobody works on a table that is not migrated |
| refresh | one that reports success has taken hold; the index never goes back; every refresh ends |
| router | a result is coherent although its two readings of the index may differ and the provider may choose another primary; a provider that fails leaves the local result as it was; every route ends |
| provider client | every way to end a call has its status (one of them has not, see below); a half-read answer is never classified; a hanging provider ends |
| scanner | it reads no more than its limits while files change under it; one bad file never costs another its place; what is excluded stays out |
| configuration, command line | the value in force is that of the highest layer; the database belongs to the workspace that is scanned; values out of range get no further than the file they are in |
| agent setup | what the user wrote is never lost; what was configured stays configured |
| MCP server | each line is answered once and in its turn; a client sees what it refreshed; the session goes on |
| dashboard server, web UI | the page shows what the index held while it was open, and survives what it is sent; an answer is shown for the task it was asked for; the button stops turning; "copied" is true; the map and the percentages say what the router decided |
| web build and hosting | a build that ends well is whole, whatever died before it; a page runs wherever its host has pages for, and never with the script of another version |

## The modules

| module | models | state | actions |
| --- | --- | --- | --- |
| `AtomicIndex` | what the index promises to its clients | one value, and the calls that are under way | a replacement is called, takes effect at one moment, and is answered; a listing likewise; either may fail; callers vanish |
| `IndexStore` | `store.go`, and `refreshWithStore` on top of it | the table, SQLite's lock, who is in `Open`, and for each request its scan, its transaction and the rows it has read | one per statement: `CreateTable` and `AddColumn` (migrate), `StartRefresh`, `ScanProject`, `BeginReplace` (BEGIN and DELETE), `InsertProject`, `InsertConflict`, `CommitReplace`, `AbortReplace`, `StartList`, `ReadRow`, `FinishList`, `AbortList`, `Answer`; `Edit` and `Crash` are the world's |
| `Gateway` | `Client.Evaluate` | the phase of the call, what ended it, the caller, the status class, the result | `Send`, `Headers`, `ReadBody`, and the four ways to be cut off |
| `RouteEngine` | `Router.Route`, on `Gateway` and an index that others replace | the request, its candidates, the result under construction | `Ask`, `Search`, `Link` (the second reading, and the local signals), `AskProvider`, `FallBack`, `ApplyJev`, `Return`, `Replace` |
| `ProjectScan` | `scanProject` | the disk, the list of files, the position, the bytes read | `List`, `ReadFile`, `SkipFile`, `Finish`, `Change` |
| `Settings` | `commandFlags`, `parseSettingsFlags`, `defaultSettings`, `LoadWorkspace`, `runInit`, `runConfig` | the files, environment and flags, the settings of the process | `Start`, `Refresh`, `Show`, `InitCheck`, `InitWrite`, `InitLoad`, `EditFile` |
| `AgentSetup` | `agentsetup.Apply` | mcp.json, its backups, what Codex and Claude Code have, and the runs of setup | one per external command and per half of `os.WriteFile`: `Codex`, `ClaudeAdd`, `ClaudeRemove`, `ClaudeAddAgain`, `ReadConfig`, `BackupOpen`, `BackupWrite`, `WriteOpen`, `WriteConfig`; `Crash`, `Edit`, `Tick` |
| `McpSession` | `Serve`, `handle`, `call`, on `AtomicIndex` | the lines sent and taken, the answers, the index, the workspace | `ReadLine`, `AnswerAtOnce`, `CallTool`, `Work`, `AnswerTool`, `FailTool`, `EndOfInput`; the client's and other processes' steps |
| `Dashboard` | `App` of `App.jsx` and the handlers that answer it, on `AtomicIndex` | the page, its view, its lists, the two fetches under way, the index | `OpenPage`, `FetchStatus` (the effect sends one, then the other), `Read` and `Respond` (the server), `Settle` (`Promise.all`), `SetProjects`, `SetWorkspace`, `LoseBody`, `SelectView`; `Refresh` is another client's |
| `RouterView` | `RouterView` of `App.jsx`: the form, its requests, the copies | the form, the route shown, requests, writes to the clipboard and timers under way, the number of the mount | `Type`, `Submit`, `RouteArrives`, `RouteFails`, `Copy`, `CopySucceeds`, `CopyFails`, `TimerFires`, `Leave`, `Open` |
| `RouteScreen` | `SignalMap` and `EvidencePanel` of `App.jsx`, on `RouteEngine` | none | operators: which repositories are drawn, which are coloured, the percentages |
| `Sites` | from `web/` to a browser: vite, `prepare-sites-build.mjs`, `make web`, the worker, GitHub Pages, the handler of `/` | sources, the build's step and files, what is published, a tab | `Begin`, `Bundle`, `EmptyClient`, `WriteClient`, `Check`, `CopyStart`, `CopyEnd`, `RemoveStatic`, `FillStatic`, `Fail`, `Publish`; `Ask`, `WorkerFetch`, `FallBack`, `PagesFetch`, `LocalFetch`, `LoadScript`, `Run`, `Close`; `Edit` |

How they are composed: `IndexStore` implements `AtomicIndex` (checked by the run
`index_refreshes`, proved as `Refinement`), and `Dashboard` and `McpSession`
use `AtomicIndex` (`INSTANCE`) in its place. `RouteEngine` extends `Gateway`, and
replaces its index as `AtomicIndex` allows, between any two steps; `RouteScreen`
extends `RouteEngine` with what the page draws of its result, beside a list of
projects of any other value of the index. `RouterView` is what `Dashboard`'s page has
on its screen while `view` is `"router"`: they share no state, so each is checked
by itself. `Sites` ends where `Dashboard` begins, with a page that runs.

Definitions marked "Mutation" are not part of any specification. Each is a
plausible mistake in the action after it; PROJECT.json pairs it with the
property that notices it.

What the models abstract from:
* SQLite is external. The code relies on a single writer whose lock is taken by
  DELETE, on commits that wait for readers, on rollback at an error or a crash,
  on the busy wait that ends, and on the primary key; the model has just that.
* Texts are left out. A score is a small number, a task the set of the keyword
  classes it has, a file its size and whether it is UTF-8, a value of the
  configuration the layer it comes from, the id of a request its position (the code
  makes a float64 of a number, so that ids beyond 2^53 come back changed). `Store.Search` is modelled by what its
  result may be (`IsSearchResult`): the first `top_k` of any scores, ties by name.
* A project is its directory and the edition of the workspace it was scanned in.
* React is external: an update of a component that is gone does nothing, state
  is initial in a new mount, and an error while rendering unmounts the page.
  Timers of equal length fire in the order they were started; writes to the
  clipboard are settled in the order of the clicks.
* vite is external: it empties `dist/client` and nothing else, and gives a script
  a name with the hash of its text.
* The provider is external: it may answer anything of `ReplyType`, or never.

## The runs

Every bound is a constant of the configuration file.

| run | instance | distinct states | shows |
| --- | --- | --- | --- |
| `index_refreshes` | two workspaces in one database, two processes, one request that refreshes each workspace and two that list (one does both), two editions of each: a project is lost, a name clashes | 131,000 | `IndexIsWhole`, `LockFollowsTransaction`, `OpenIsMigrated`, `RefreshTakesHold` and `IndexNeverGoesBack` (where refreshes overlap, but not those of one workspace), refinement of `AtomicIndex` (by which a listing is what the index was at one moment), `RequestsEnd` |
| `route` | three projects, three values of the index (one empty), scores at 54, 55 and 100, top_k out of range, 1, and too large, replies that answer every other question; a map of two repositories, a panel of two, 55 for the score 1.0 | 94,000 | `ResultIsCoherent`, `FailureKeepsLocalResult`, `KindHasItsCause`, `ScreenFollowsRoute`, `RouteReturns` |
| `scan` | three paths, two of which may be looked at, a budget of two bytes | 960,000 | `WithinBudget`, `RightFilesAreRead` |
| `settings` | two workspaces, all commands, five options of different kinds, one edit | 1,700,000 | `HighestLayerWins`, `DatabaseIsInWorkspace`, `InvalidOnlyByOverride` |
| `setup` | three runs, three seconds, any list of clients, one server and one comment of the user's, any failure | 650,000 | `NothingIsLost`, `ServersAreKept`, `ConfiguredStays` |
| `dashboard` | two projects in the index, three demo projects, refreshes to any part of them | 89,000 | `ShowsTheIndex` |
| `routerview` | two tasks and a blank one, two requests, two mounts, two copies or timers at once | 200,000 | `OneRouteAtATime`, `ShowsTheLastAnswer`, `ToastIsTrue`, `RouteIsShown` |
| `sites` | two editions of `web/`, each host, with and without the files that are copied | 966,000 | `PackageIsWhole`, `NavigationRuns`, `PageRunsItsOwnScript` |
| `mcp` | three lines of ten kinds, two versions of the workspace | 470,000 | `AnsweredInTurn`, `SeesItsRefresh`, `SessionGoesOn` |

Why the bounds are enough. The hazards of the index are between two requests:
one in the middle of its transaction or listing, another that commits or dies.
Two processes and three actors give each of them a rival, inside and outside its
process; two directories per edition give a transaction a middle, and a third
one a clash. Three projects give a route a primary, one related and one that is
cut off or gone at the second reading. A scan needs one file within the budget,
one that exceeds it, and one beyond the number of files. Three runs of setup
give a run whose predecessor failed and whose successor succeeds. Two requests
of the view are one of a mount that is gone and one of the mount that is shown, and
two copies likewise. A map and a panel of two repositories leave out the third, as the
code's five and three leave out a sixth and a fourth. Two editions are a page and
what was published since. What does not depend on the bounds is proved (below).

`index_stale`, `route_timeout` and `dashboard_empty` are runs TLC is to find
violated; see "Where code and documents differ".

What a property leaves open is told where PROJECT.json lists the hazard. In short:
`ResultIsCoherent` does not miss links that a broken second reading left out;
`WithinBudget` bounds the bytes that are read, not the headers and evidence that are
written to the index beside them; `RightFilesAreRead` takes a file that the limit cuts
within a character for one that cannot be read; `HighestLayerWins` and
`DatabaseIsInWorkspace` speak of workspaces named in one place, `NothingIsLost` of runs
a second apart with edits between them, `ServersAreKept` of runs that ended well;
`ConfiguredStays` permits a run that fails at Claude Code to leave it without an
entry; and `ShowsTheIndex` permits list and count of two indexes when a refresh came
between the two fetches.

Runs of processes that may simply stop (`CHECK_DEADLOCK FALSE`) are those of a
scan, a command, a setup, a page and a session; the index, the router, the view
and the hosts never stop.

## Fairness

* `IndexStore`: weak fairness of `Continue(a)` for each request that was made: its
  goroutine is scheduled, SQLite's busy wait is bounded, and `refreshWithStore`
  gives the replacement three minutes, after which `AbortReplace` is enabled.
  Nothing is assumed of new requests, edits or crashes.
* `Gateway`: weak fairness of the HTTP client's own clock (`newDecisionClient`
  always sets `http.Client.Timeout`; a flag may set it to zero, see below) and of
  returning the error it causes. Nothing is assumed of provider and network.
* `RouteEngine`: weak fairness of the goroutine of the request.
* `McpSession`: weak fairness of `Serve`, the one loop of its process. This assumes
  that each tool comes to an end (`RequestsEnd` and `RouteReturns` say so of refreshes,
  listings and routes), and that a client which does not read its answers goes away,
  so that `Encode` does not block for ever. Nothing is assumed of what a client sends.
* `RouterView`: weak fairness of `RouteArrives(r) \/ RouteFails(r)`: every request for a route is
  answered or fails, which is what `RouteReturns` says of the server. Nothing is
  assumed of users, clipboard and timers.

The other modules state safety only, and no fairness.

## What is proved

TLAPS proves the following for all values of the constants that the named
assumptions of the modules allow. They say no more than the types: `ProcessOf` is a
function from actors to processes, a workspace goes through finitely many editions, limits are
positive, `Mergeable` is a part of `Own`, no client is listed twice, and `None` and
`NotGiven` are none of the values they stand beside.

`IndexStoreProofs`. `IndexIsWhole` is not inductive by itself: that a commit
leaves a whole refresh depends on what the request that commits has scanned. The
invariant `IInv` adds, for each request (`ScanOfRequest`), that what it has
scanned and what it still has to are together the directories it found, each
row between the edition of its start and the edition on the disk, and that its
transaction holds a part of the scan with names all different; and for each
listing (`ReadOfRequest`), that it has only read rows the table still has,
because a commit waits for readers. From `IInv` follow the type invariant,
`IndexIsWhole`, `ListingIsWhole`, `LockFollowsTransaction` and `OpenIsMigrated`.
`Refinement` shows step by step that the store implements `AtomicIndex`.

`RefreshTakesHold` and `IndexNeverGoesBack` are proved of any number of workspaces that
have no directory in common (`WorkspacesAreApart`) and of requests of which no two
refresh one workspace at the same time (`[]InTurn`): `SerialInv` says that what the table
has of a workspace is no newer than the disk and the scan under way, and no older than
the scans that have just succeeded. `OneRefresherIsInTurn` shows that one request for
each workspace is enough for `InTurn`, as in `index_refreshes`; `index_stale` shows what
comes of it without.

What `RequestsEnd` rests on, next to fairness, is proved too. `NobodyWaitsInACircle`:
a request that can take none of its steps but the abort waits for the one
transaction there is, which can go on itself or waits for listings, and listings
wait for nobody. `NobodyIsTakenBack`: whatever changes of a request under way brings
it to a later stage, or leaves it a directory to scan, a row to insert or a row to read
the less, of a table that stays the same meanwhile. Only that fair steps therefore
end is left to TLC.

`RouteEngineProofs`. `IInv` says what each point of `Route` has of its
candidates (different projects, ordered, no more than top_k) and of its local
result (`CoherentLocal`: the first candidate is primary, links are ranks of
others, and it is cross-project exactly if there are some), what a routed result
keeps of it (`Merged`), and ties phase and
outcome of the provider's call to the point that waits for it. The safety
properties of `RouteEngine` that the run `route` checks follow, and with them that
candidates are distinct, that the provider is asked only with candidates and while
the result is the local one, and that a call of it is under way exactly while a
request waits for it: for any number of projects, any scores, any second reading
of the index, and any reply. `KindHasItsCause` is inductive as it stands. `ScreenFollowsRoute` is proved of the same invariant, in
three parts: which of the names drawn are coloured, that a rank is drawn at the
place of its name, and that the quotients of the percentages fall as scores do.

What search returns is proved of `IsSearchResult` alone: `LimitOnlyCuts` (a larger top_k
never reorders) and `RankingIsDetermined` (index, scores and limit leave one
answer). The usual proof is an induction along the list. Here it is by counting: the
candidate at rank i has exactly i - 1 hits before it (`RankIsCount`), and the order
of hits is total, so that two lists cannot differ at a rank both have.

`ProjectScanProofs`. `IInv` adds to the bound on what is read that every path before the
position was read, or was not fit to be, or changed since (`Looked`), and that a
walk listed nothing under a dependency directory (`Walked`).

`AgentSetupProofs`. The types hold whatever overlaps. The three properties hold for
`Careful` use: runs one after another, each with a second of its own, and edits
between them (the constants of the run; what happens otherwise is below). `NothingIsLost`
is not inductive, since mcp.json is empty while it is written. `InOrder` says that one run
is active, later than all before it, and that no backup is from the future;
`InHand` follows what a run has read from mcp.json to its backup, whose name is
free because of `InOrder`. `Kept` adds where the user's servers are while no run has
failed, and `Configured` follows each client that a run has been through.

`RouterViewProofs`. The form needs that requests are of this mount or an earlier one
and that those of this mount carry what was asked last (`PostsAreOld`). The toast
needs an order: writes to the clipboard are of mounts that do not decrease, the
clipboard is not ahead of them (`WritesInOrder`, `ClipboardIsBehind`), so that a
copy made in an earlier mount cannot land on top of one that is announced.

`SitesProofs` follows a page from the build (`Built`) to its host (`Hosted`) and to a
tab (`Shown`, `ShownOfHost`), for any number of editions.

`ProcessProofs` is about one process. Of its session: `Waiting` ties a tool that works
to the line read last; `NewEnough` says that index and what is read of it are at least as new as the client's
last refresh, as long as no other process has refreshed since. Of its settings:
`SettingsInv` says that environment and flags stay what they were (`Given`), and that a
command that is ready has, until a file is edited, the settings that flags,
environment and files still give together (`Settled`): what they give is computed
layer by layer in lemmas. `HighestLayerWins` and `DatabaseIsInWorkspace` hold if
`--workspace` is not repeated and environment and flags do not both name a workspace or a
file (`NamedOnce`); otherwise the code may break them, as told below.
`InvalidOnlyByOverride` needs no such assumption.

`DashboardProofs`. `Opened` and `Seen`: whatever is on its way to the page, or in its
state, is a value that the index had while the page was open; and only an index
without projects makes it crash. `UsesTheIndex`, here and in `ProcessProofs`, shows
that these clients call the index only as `AtomicIndex` has it, whose other half is
`Refinement`: together they put the store in the place of the atomic index.

Only model-checked: the liveness properties (`RequestsEnd`, `RouteReturns`, `RouteIsShown`,
`SessionGoesOn`), as fairness and ENABLED are out of the prover's reach. Every
other property of a passing run is stated by a theorem.

## Where code and documents differ

Three runs are violated, each by what the code does and a document, or the code's own
fallback, denies:

* `index_stale`: `refreshWithStore` scans before its transaction begins
  (`main.go:462`). Of two refreshes at once the one that scanned first may commit
  last; the other has reported success and the index is older than that.
* `route_timeout`: `http.Client.Timeout` ends a call with an error that `Evaluate`
  takes for "unavailable" (`client.go:113`), or "provider_error" while the body is
  read, where README.md:202 says that timeouts are reported separately
  (`TimeoutsAreReported`). Only the caller's context and the provider's own status
  408 or 504 make a "timeout".
* `dashboard_empty`: an index without projects is sent as `null`
  (`server.go:124`), the page reads its length, and React unmounts the page.

Others the models have, which no run is about:

* `WHICHREPO_WORKSPACE` and `WHICHREPO_CONFIG` win over `--workspace` and `--config`
  when files are loaded (`main.go:487`), against the order of
  docs/configuration.md:7-13. The run `settings` shows that the order holds
  wherever environment and flags do not both name one (`NamedTwice = FALSE`);
* two runs of setup within a second: the second backup replaces the first
  (`SpacedOut = FALSE` in `MCAgentSetup_setup.cfg` violates `NothingIsLost`);
* an edit of mcp.json between its reading and its writing is in neither the file
  nor the backup (`QuietEdits = FALSE` likewise);
* a run of setup that finds the empty file a killed one has left takes it for an
  empty configuration, and reports success; the servers are in an older backup,
  for which reason `ServersAreKept` speaks of runs that ended well;
* mcp.json with the text `null` makes setup panic (`setup.go:182`);
* the provider may name a primary project that is no candidate, or leave the
  new primary among its own related projects (`router.go:245`); a candidate that is
  linked and also called relevant is in them twice (`router.go:274`), and is
  shown twice (`App.jsx:69`). `ResultIsCoherent` says what holds of any reply;
* of a repeated `--workspace` the files are loaded for the first and the
  settings name the last (`main.go:487`, `main.go:560`): hence `NamedOnce` in the proofs
  of `Settings`;
* git's list is taken as it is, so that tracked files of a dependency directory
  are indexed, against docs/languages.md:34; `WalksExcludeDependencies` speaks of
  walks only, and is a part of `RightFilesAreRead` (`scanner.go:239`);
* a text longer than the limit is dropped when the limit falls within a
  character (`scanner.go:194`): `Readable` says what a file needs;
* flags and `WHICHREPO_PROVIDER` are not validated (`main.go:500`), hence the
  exception in `InvalidOnlyByOverride`; a timeout of zero takes away the clock
  that `RouteReturns` rests on;
* `config show` leaves out environment and flags (`main.go:333`);
* `init w` with `WHICHREPO_WORKSPACE` set writes the configuration to w and
  indexes the other (`main.go:119`): `report.workspace` and `report.scanned` differ;
* workspaces with the default database share one table without a column for the
  workspace (`config.go:143`);
* `workspace_status` counts no projects when the index cannot be read
  (`main.go:475`).

Seen while reading what is not modelled yet:

* `eval` counts a Top-1 hit if the primary project is expected
  (`evaluation.go:50`), where docs/benchmarks.md:7 speaks of the first candidate: with a
  provider's choice the two differ, and one case may be a Top-1 hit and a failure;
* discovery takes an entry of the root for a project without asking whether its
  name is ignored (`scanner.go:108`), which both of its walks do: a vendor directory with
  a README.md is one, against README.md:224;
* two overrides of one path are looked through in the random order of a map
  (`scanner.go:386`).

## What is not modelled

Of `store.go`: the directory `Open` makes, the text ranking of `Search`.
Of the scanner: discovery, manifests, overrides, the resolution of
dependencies. Of the configuration: lists of workspaces, privacy lists. Of the
dashboard server: headers, the choice of a port, shutdown. Of the page: layout, icons, fixed
texts, and the views that only print what they are given.
The analyzers are calls of tree-sitter over syntax trees. `doctor`, the printing of
results, styles, installers and the packaging of binaries keep no state that
could go wrong over several steps. `internal/dashboard/static` holds what vite has made of
`web/`: its sources are modelled, the bundle is not read. The projects under
`examples/` are data for the scanner.

## Plan

The core came first because every part reads the index, and because its
hazards are those no test reaches: 1. `IndexStore` with `AtomicIndex`; 2.
`RouteEngine` with `Gateway`; 3. the parts that feed them (`ProjectScan`, `Settings`) or
use them (`McpSession`, `Dashboard`), and `AgentSetup`; 4. the page (`RouterView`, `RouteScreen`)
and its way to a browser (`Sites`), and the proofs of what they and their users promise. To come:

1. *Dependencies*: `resolveDependencies` of the scanner. Which aliases name a
   project, ambiguous ones, self references; the property is that a dependency
   is declared only on a project of the same scan, and on the same one whatever
   the order of discovery.
2. *Discovery*: the walk over a workspace, and which directories it takes for
   projects: each once, and none that the configuration excludes.
3. *Manifests and overrides*: what an override replaces and what it adds.
4. *Json comments*: `stripJSONComments` as a function on sequences of character
   classes, checked against a reference definition over all short inputs.
5. *Evaluation*: the counters of a report against its cases.
6. *Search*: the tokenizer and the weights behind `IsSearchResult`, as
   recursive functions in a module that only TLC reads.
7. Proofs: that `RouteEngine`'s reads and its `Replace` are those of `AtomicIndex`, and the safety
   halves of the other liveness properties.

New modules that are pure functions share a run where they can, so that a run
stays a question of its own.
