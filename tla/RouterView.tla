----------------------------- MODULE RouterView -----------------------------
(***************************************************************************)
(* RouterView of web/src/App.jsx: the form, the route on the screen, and   *)
(* the button that copies it.  Requests, clipboard and timers come back    *)
(* later, when the view may show something else or may be gone: it is      *)
(* mounted when the user opens it (module Dashboard), and its state goes   *)
(* when he leaves it.                                                      *)
(***************************************************************************)
EXTENDS Integers, Sequences, FiniteSets

CONSTANTS
    Tasks,          \* what may be typed,
    FirstTask,      \* what is there at first,
    Blank,          \* and a task that is empty once trimmed
    Posts,          \* requests for a route
    MaxMounts,      \* bound on how often the view is opened,
    MaxCopies,      \* and on the copies and timers under way
    None

ASSUME RouterViewAssumption ==
    /\ FirstTask \in Tasks \ {Blank} /\ None \notin Tasks
    /\ MaxMounts \in Nat \ {0} /\ MaxCopies \in Nat

VARIABLES
    mount,      \* (auxiliary) which mount of the view this is, or will be
    shown,      \* is it mounted?
    task, route, loading, copied,   \* its state, initial while it is not
    post,       \* post[r]: the mount and the task that r was sent for
    writes,     \* writes to the clipboard under way, in the order of the clicks
    clipboard,  \* what the page put there last, and by which mount, or None
    timers,     \* the mounts whose timers are running; all run equally long
    asked,      \* (auxiliary) the last task submitted in this mount,
    seen        \* (auxiliary) and the routes it has had on the screen

formVars == <<task, loading, post, asked>>
copyVars == <<copied, writes, clipboard, timers>>
vars == <<mount, shown, task, route, loading, copied, post, writes, clipboard,
          timers, asked, seen>>

\* demoRoute, at first and, with a warning, instead of an answer.
Demo == [kind |-> "demo", task |-> None]
DemoWarned == [kind |-> "warned", task |-> None]
Answered(t) == [kind |-> "answer", task |-> t]
Routes == {Demo, DemoWarned} \cup {Answered(t) : t \in Tasks}

Mounts == 1..MaxMounts
Context == [mount : Mounts, route : Routes]

ASSUME NoneIsNoContext == None \notin Context

\* A request that is not under way.
Unsent == [mount |-> 0, task |-> FirstTask]

TypeOK ==
    /\ mount \in Mounts /\ shown \in BOOLEAN
    /\ task \in Tasks /\ route \in Routes
    /\ loading \in BOOLEAN /\ copied \in BOOLEAN
    /\ post \in [Posts -> [mount : 0..MaxMounts, task : Tasks]]
    /\ writes \in Seq(Context)
    /\ clipboard \in Context \cup {None}
    /\ timers \in Seq(Mounts)
    /\ Len(writes) + Len(timers) <= MaxCopies
    /\ asked \in Tasks \cup {None}
    /\ seen \subseteq Routes

Init ==
    /\ mount = 1 /\ shown = TRUE
    /\ task = FirstTask /\ route = Demo /\ loading = FALSE /\ copied = FALSE
    /\ post = [r \in Posts |-> Unsent]
    /\ writes = <<>> /\ clipboard = None /\ timers = <<>>
    /\ asked = None /\ seen = {Demo}

-----------------------------------------------------------------------------
(* The form *)

Type(t) ==
    /\ shown /\ t # task
    /\ task' = t
    /\ UNCHANGED <<mount, shown, route, loading, post, asked, seen, copyVars>>

\* Mutation: the button is not disabled while a route is on its way.
SubmitAtWill(r) ==
    /\ shown /\ task # Blank
    /\ post[r] = Unsent
    /\ post' = [post EXCEPT ![r] = [mount |-> mount, task |-> task]]
    /\ loading' = TRUE /\ asked' = task
    /\ UNCHANGED <<mount, shown, task, route, seen, copyVars>>

\* runRoute up to its await.  A form whose button is disabled is not submitted.
Submit(r) ==
    /\ shown /\ ~ loading /\ task # Blank
    /\ post[r] = Unsent
    /\ post' = [post EXCEPT ![r] = [mount |-> mount, task |-> task]]
    /\ loading' = TRUE /\ asked' = task
    /\ UNCHANGED <<mount, shown, task, route, seen, copyVars>>

\* The mount that m names is on the screen; the states of others are gone.
IsShown(m) == shown /\ m = mount

Display(newRoute) == route' = newRoute /\ seen' = seen \cup {newRoute}

\* Mutation: the answer is taken for that of the task in the input.
RouteArrivesForInput(r) ==
    /\ post[r] # Unsent
    /\ IF IsShown(post[r].mount)
       THEN Display(Answered(task)) /\ loading' = FALSE
       ELSE UNCHANGED <<route, seen, loading>>
    /\ post' = [post EXCEPT ![r] = Unsent]
    /\ UNCHANGED <<mount, shown, task, asked, copyVars>>

RouteArrives(r) ==
    /\ post[r] # Unsent
    /\ IF IsShown(post[r].mount)
       THEN Display(Answered(post[r].task)) /\ loading' = FALSE
       ELSE UNCHANGED <<route, seen, loading>>
    /\ post' = [post EXCEPT ![r] = Unsent]
    /\ UNCHANGED <<mount, shown, task, asked, copyVars>>

\* Mutation: only an answer ends the waiting.
RouteFailsSilently(r) ==
    /\ post[r] # Unsent
    /\ IF IsShown(post[r].mount) THEN Display(DemoWarned) ELSE UNCHANGED <<route, seen>>
    /\ post' = [post EXCEPT ![r] = Unsent]
    /\ UNCHANGED <<mount, shown, task, loading, asked, copyVars>>

\* Mutation: the view is left without a route.
RouteFailsToNull(r) ==
    /\ post[r] # Unsent
    /\ IF IsShown(post[r].mount)
       THEN Display(None) /\ loading' = FALSE
       ELSE UNCHANGED <<route, seen, loading>>
    /\ post' = [post EXCEPT ![r] = Unsent]
    /\ UNCHANGED <<mount, shown, task, asked, copyVars>>

\* No answer, an error, or one that is no JSON.
RouteFails(r) ==
    /\ post[r] # Unsent
    /\ IF IsShown(post[r].mount)
       THEN Display(DemoWarned) /\ loading' = FALSE
       ELSE UNCHANGED <<route, seen, loading>>
    /\ post' = [post EXCEPT ![r] = Unsent]
    /\ UNCHANGED <<mount, shown, task, asked, copyVars>>

-----------------------------------------------------------------------------
(* The button that copies *)

\* copyContext up to its await: the route of this rendering is what is written.
Copy ==
    /\ shown /\ Len(writes) + Len(timers) < MaxCopies
    /\ writes' = Append(writes, [mount |-> mount, route |-> route])
    /\ UNCHANGED <<mount, shown, route, seen, formVars, copied, clipboard, timers>>

\* Mutation: the state outlives the view that waits for the clipboard.
CopySucceedsAnywhere ==
    /\ writes # <<>> /\ writes' = Tail(writes)
    /\ clipboard' = Head(writes)
    /\ copied' = shown
    /\ timers' = Append(timers, Head(writes).mount)
    /\ UNCHANGED <<mount, shown, route, seen, formVars>>

\* The toast is shown for 1600 ms - or until the timer of an earlier one.
CopySucceeds ==
    /\ writes # <<>> /\ writes' = Tail(writes)
    /\ clipboard' = Head(writes)
    /\ copied' = (copied \/ IsShown(Head(writes).mount))
    /\ timers' = Append(timers, Head(writes).mount)
    /\ UNCHANGED <<mount, shown, route, seen, formVars>>

\* The browser refuses, for instance since the page is not in focus; nothing
\* catches that.
CopyFails ==
    /\ writes # <<>> /\ writes' = Tail(writes)
    /\ UNCHANGED <<mount, shown, route, seen, formVars, copied, clipboard, timers>>

TimerFires ==
    /\ timers # <<>> /\ timers' = Tail(timers)
    /\ copied' = (copied /\ ~ IsShown(Head(timers)))
    /\ UNCHANGED <<mount, shown, route, seen, formVars, writes, clipboard>>

-----------------------------------------------------------------------------
(* App mounts and unmounts the view. *)

Leave ==
    /\ shown /\ mount < MaxMounts
    /\ shown' = FALSE /\ mount' = mount + 1
    /\ task' = FirstTask /\ route' = Demo /\ loading' = FALSE /\ copied' = FALSE
    /\ asked' = None /\ seen' = {Demo}
    /\ UNCHANGED <<post, writes, clipboard, timers>>

Open ==
    /\ ~ shown /\ shown' = TRUE
    /\ UNCHANGED <<mount, route, seen, formVars, copyVars>>

Next ==
    \/ \E t \in Tasks : Type(t)
    \/ \E r \in Posts : Submit(r) \/ RouteArrives(r) \/ RouteFails(r)
    \/ Copy \/ CopySucceeds \/ CopyFails \/ TimerFires
    \/ Leave \/ Open

Spec == Init /\ [][Next]_vars

\* Every request is answered, with a route (RouteReturns of RouteEngine) or with
\* an error.
FairSpec == Spec /\ \A r \in Posts : WF_vars(RouteArrives(r) \/ RouteFails(r))

-----------------------------------------------------------------------------
(* Properties *)

\* While the button turns (loading, App.jsx:41), one request of this mount is on
\* its way, and no more than one ever is: no answer can come after one that was
\* asked for later.
OneRouteAtATime ==
    LET underWay == {r \in Posts : post[r] # Unsent /\ post[r].mount = mount}
    IN  /\ \A r1, r2 \in underWay : r1 = r2
        /\ loading <=> underWay # {}

\* What runRoute leaves on the screen when the page rests is the answer to what
\* was asked last, or demo data with a warning, whatever was typed, copied and
\* viewed meanwhile.
ShowsTheLastAnswer ==
    ~ loading => IF asked = None THEN route = Demo ELSE route \in {DemoWarned, Answered(asked)}

\* "Agent context copied" is true and does not stay: while copyContext shows it,
\* what the page put into the clipboard last is a route that this mount has had
\* on its screen, and a timer of this mount is running that will take it away.
ToastIsTrue ==
    copied => /\ shown
              /\ clipboard # None /\ clipboard.mount = mount /\ clipboard.route \in seen
              /\ \E i \in 1..Len(timers) : timers[i] = mount

\* The button stops turning: the finally of runRoute.
RouteIsShown == loading ~> ~ loading
=============================================================================
