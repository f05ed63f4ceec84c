-------------------------- MODULE RouterViewProofs --------------------------
(***************************************************************************)
(* For any tasks, any number of requests and copies, and however often the *)
(* view is left and opened: at most one route is under way, the view shows *)
(* the answer to the last question, and the toast tells the truth.         *)
(*                                                                         *)
(* The argument for the toast is the order of the mounts: what is on its   *)
(* way to the clipboard, and what is there, was written by mounts that do  *)
(* not decrease and do not exceed the one that is shown, so that a later   *)
(* copy of an earlier mount cannot come below a toast that is shown.       *)
(***************************************************************************)
EXTENDS RouterView, SequenceTheorems, TLAPS

UnderWay(r) == post[r] # Unsent /\ post[r].mount = mount

\* Requests are of this mount or of one before it, and one of this mount asked
\* what was asked last.
PostsAreOld ==
    \A r \in Posts :
        /\ post[r].mount <= mount
        /\ UnderWay(r) => asked # None /\ post[r].task = asked

\* A view that is gone has nothing but its initial state.
HiddenIsFresh ==
    ~ shown => /\ loading = FALSE /\ copied = FALSE
               /\ asked = None /\ route = Demo /\ seen = {Demo}

\* Writes come in the order of their mounts, and those of this mount carry what
\* it has shown.
WritesInOrder ==
    /\ \A i \in 1..Len(writes) :
        /\ writes[i].mount <= mount
        /\ writes[i].mount = mount => shown /\ writes[i].route \in seen
    /\ \A i, j \in 1..Len(writes) : i <= j => writes[i].mount <= writes[j].mount

\* The clipboard is not ahead of the writes.
ClipboardIsBehind ==
    clipboard # None =>
        /\ clipboard.mount <= mount
        /\ \A i \in 1..Len(writes) : clipboard.mount <= writes[i].mount
        /\ clipboard.mount = mount => clipboard.route \in seen

IInv ==
    /\ TypeOK
    /\ PostsAreOld /\ HiddenIsFresh /\ WritesInOrder /\ ClipboardIsBehind
    /\ route \in seen
    /\ OneRouteAtATime /\ ShowsTheLastAnswer /\ ToastIsTrue

-----------------------------------------------------------------------------
(* Sequences *)

\* Every element of Append(s, e) is one of s or e.
LEMMA AppendElement ==
    ASSUME NEW S, NEW s \in Seq(S), NEW e \in S
    PROVE  /\ Append(s, e) \in Seq(S) /\ Len(Append(s, e)) = Len(s) + 1
           /\ \A i \in 1..Len(s) : Append(s, e)[i] = s[i]
           /\ Append(s, e)[Len(s) + 1] = e
OBVIOUS

\* The tail of a sequence has its elements but the first.
LEMMA TailElement ==
    ASSUME NEW S, NEW s \in Seq(S), s # <<>>
    PROVE  /\ Tail(s) \in Seq(S) /\ Len(Tail(s)) = Len(s) - 1
           /\ Head(s) \in S /\ Head(s) = s[1] /\ Len(s) \in Nat \ {0}
           /\ \A i \in 1..Len(Tail(s)) : i + 1 \in 1..Len(s) /\ Tail(s)[i] = s[i + 1]
OBVIOUS

-----------------------------------------------------------------------------
(* The invariant *)

LEMMA InitInvariant == Init => IInv
<1> SUFFICES ASSUME Init PROVE IInv
  OBVIOUS
<1> USE RouterViewAssumption DEF Init
<1>1. TypeOK
  <2>1. writes \in Seq(Context) /\ timers \in Seq(Mounts) /\ Len(writes) + Len(timers) <= MaxCopies
    OBVIOUS
  <2>2. mount \in Mounts /\ post \in [Posts -> [mount : 0..MaxMounts, task : Tasks]]
    BY DEF Mounts, Unsent
  <2>3. route \in Routes /\ seen \subseteq Routes
    BY DEF Routes
  <2> QED
    BY <2>1, <2>2, <2>3 DEF TypeOK
<1>2. PostsAreOld /\ WritesInOrder
  BY DEF PostsAreOld, WritesInOrder, UnderWay, Unsent
<1>3. OneRouteAtATime
  BY DEF OneRouteAtATime, Unsent
<1>4. HiddenIsFresh /\ ClipboardIsBehind /\ route \in seen /\ ShowsTheLastAnswer /\ ToastIsTrue
  BY DEF HiddenIsFresh, ClipboardIsBehind, ShowsTheLastAnswer, ToastIsTrue
<1> QED
  BY <1>1, <1>2, <1>3, <1>4 DEF IInv

\* The invariant has two parts, which actions disturb one at a time.
FormInv == PostsAreOld /\ HiddenIsFresh /\ route \in seen /\ OneRouteAtATime /\ ShowsTheLastAnswer
CopyInv == WritesInOrder /\ ClipboardIsBehind /\ ToastIsTrue

\* Nothing that only adds to the routes seen disturbs the copies.
LEMMA CopiesUndisturbed ==
    ASSUME CopyInv, UNCHANGED <<mount, shown, copyVars>>, seen \subseteq seen'
    PROVE  CopyInv'
BY DEF CopyInv, WritesInOrder, ClipboardIsBehind, ToastIsTrue, copyVars

\* Nothing that leaves the form alone and keeps the toast to the view disturbs
\* the form.
LEMMA FormUndisturbed ==
    ASSUME FormInv, UNCHANGED <<mount, shown, route, seen, formVars>>, ~ shown => copied' = FALSE
    PROVE  FormInv'
BY DEF FormInv, PostsAreOld, HiddenIsFresh, OneRouteAtATime, ShowsTheLastAnswer, UnderWay, formVars

LEMMA TypeForm ==
    ASSUME NEW t \in Tasks, IInv, Type(t) PROVE IInv'
<1> USE DEF IInv, Type
<1>1. TypeOK'
  BY DEF TypeOK, copyVars
<1>2. FormInv'
  BY DEF FormInv, PostsAreOld, HiddenIsFresh, OneRouteAtATime, ShowsTheLastAnswer, UnderWay, copyVars
<1>3. CopyInv'
  BY CopiesUndisturbed DEF CopyInv
<1> QED
  BY <1>1, <1>2, <1>3 DEF FormInv, CopyInv

LEMMA SubmitForm ==
    ASSUME NEW r \in Posts, IInv, Submit(r) PROVE IInv'
<1> USE RouterViewAssumption DEF IInv, Submit
<1>1. TypeOK'
  BY DEF TypeOK, copyVars, Mounts
<1>2. post'[r] # Unsent /\ post'[r].mount = mount /\ post'[r].task = task
  BY DEF TypeOK, Unsent, Mounts
<1>3. \A q \in Posts \ {r} : post'[q] = post[q]
  BY DEF TypeOK
<1>4. asked' = task /\ task # None
  BY DEF TypeOK
<1>5. PostsAreOld' /\ OneRouteAtATime'
  <2>1. \A q \in Posts : ~ UnderWay(q)
    BY DEF OneRouteAtATime, UnderWay
  <2>2. PostsAreOld'
    BY <1>2, <1>3, <1>4, <2>1 DEF PostsAreOld, UnderWay, TypeOK, Mounts
  <2>3. OneRouteAtATime'
    BY <1>2, <1>3, <2>1 DEF OneRouteAtATime, UnderWay
  <2> QED
    BY <2>2, <2>3
<1>6. FormInv'
  BY <1>5 DEF FormInv, HiddenIsFresh, ShowsTheLastAnswer
<1>7. CopyInv'
  BY CopiesUndisturbed DEF CopyInv
<1> QED
  BY <1>1, <1>6, <1>7 DEF FormInv, CopyInv

\* What RouteArrives and RouteFails have in common: the request ends and, if its
\* view is shown, so does the waiting, with an answer or demo data.
LEMMA EndForm ==
    ASSUME NEW r \in Posts, IInv, post[r] # Unsent,
           post' = [post EXCEPT ![r] = Unsent],
           \/ /\ IsShown(post[r].mount) /\ loading' = FALSE
              /\ route' \in {DemoWarned, Answered(post[r].task)} /\ seen' = seen \cup {route'}
           \/ ~ IsShown(post[r].mount) /\ UNCHANGED <<route, seen, loading>>,
           UNCHANGED <<mount, shown, task, asked, copyVars>>
    PROVE  IInv'
<1> USE RouterViewAssumption DEF IInv
<1>1. post[r].task \in Tasks /\ Unsent \in [mount : 0..MaxMounts, task : Tasks]
  BY DEF TypeOK, Unsent
<1>2. TypeOK'
  BY <1>1 DEF TypeOK, copyVars, Routes
<1>3. post'[r] = Unsent /\ \A q \in Posts \ {r} : post'[q] = post[q]
  BY DEF TypeOK
<1>4. UnderWay(r) <=> IsShown(post[r].mount)
  BY DEF UnderWay, IsShown, HiddenIsFresh, OneRouteAtATime
<1>5. PostsAreOld'
  BY <1>3 DEF PostsAreOld, UnderWay, Unsent, TypeOK, Mounts
<1>6. OneRouteAtATime'
  <2>1. \A q \in Posts : (post'[q] # Unsent /\ post'[q].mount = mount') <=> q # r /\ UnderWay(q)
    BY <1>3 DEF UnderWay
  <2>2. CASE UnderWay(r)
    BY <1>4, <2>1, <2>2 DEF OneRouteAtATime, UnderWay
  <2>3. CASE ~ UnderWay(r)
    BY <1>4, <2>1, <2>3 DEF OneRouteAtATime, UnderWay
  <2> QED
    BY <2>2, <2>3
<1>7. ShowsTheLastAnswer'
  BY <1>4 DEF ShowsTheLastAnswer, PostsAreOld
<1>8. HiddenIsFresh' /\ (route \in seen)'
  BY DEF HiddenIsFresh, IsShown, copyVars
<1>9. CopyInv'
  BY CopiesUndisturbed DEF CopyInv
<1> QED
  BY <1>2, <1>5, <1>6, <1>7, <1>8, <1>9 DEF CopyInv

\* copyContext begins: a write joins those of earlier mounts.
LEMMA CopyStep ==
    ASSUME IInv, Copy PROVE IInv'
<1> USE DEF IInv, Copy
<1> DEFINE w == [mount |-> mount, route |-> route]
<1>1. w \in Context /\ writes \in Seq(Context)
  BY DEF TypeOK, Context
<1>2. /\ writes' \in Seq(Context) /\ Len(writes') = Len(writes) + 1
      /\ \A i \in 1..Len(writes) : writes'[i] = writes[i]
      /\ writes'[Len(writes) + 1] = w
  BY <1>1, AppendElement
<1> HIDE DEF w
<1>3. w.mount = mount /\ w.route = route
  BY DEF w
<1>4. TypeOK'
  BY <1>2, RouterViewAssumption DEF TypeOK, formVars
<1>5. WritesInOrder'
  <2> SUFFICES ASSUME NEW i \in 1..Len(writes'), NEW j \in 1..Len(writes'), i <= j
               PROVE  /\ writes'[i].mount <= mount
                      /\ writes'[i].mount = mount => shown /\ writes'[i].route \in seen
                      /\ writes'[i].mount <= writes'[j].mount
    BY <1>2 DEF WritesInOrder
  <2>1. Len(writes) \in Nat /\ mount \in Int
    BY DEF TypeOK, Mounts
  <2>2. CASE i \in 1..Len(writes)
    <3>1. j \in 1..Len(writes) \/ j = Len(writes) + 1
      BY <1>2, <2>1
    <3> QED
      BY <1>2, <1>3, <2>2, <3>1 DEF WritesInOrder
  <2>3. CASE i = Len(writes) + 1
    BY <1>2, <1>3, <2>1, <2>3
  <2> QED
    BY <1>2, <2>1, <2>2, <2>3
<1>6. ClipboardIsBehind'
  <2> SUFFICES ASSUME clipboard # None, NEW i \in 1..Len(writes')
               PROVE  clipboard.mount <= writes'[i].mount
    BY DEF ClipboardIsBehind
  <2>1. i \in 1..Len(writes) \/ i = Len(writes) + 1
    BY <1>2 DEF TypeOK
  <2> QED
    BY <1>2, <1>3, <2>1 DEF ClipboardIsBehind
<1>7. ToastIsTrue'
  BY DEF ToastIsTrue
<1>8. FormInv'
  BY FormUndisturbed DEF FormInv, HiddenIsFresh
<1> QED
  BY <1>4, <1>5, <1>6, <1>7, <1>8 DEF FormInv

\* The first of the writes is taken away.
LEMMA TakeWrite ==
    ASSUME IInv, writes # <<>>, writes' = Tail(writes), UNCHANGED <<mount, shown, seen>>
    PROVE  /\ writes' \in Seq(Context) /\ Len(writes') = Len(writes) - 1 /\ Len(writes) \in Nat \ {0}
           /\ Head(writes) \in Context /\ Head(writes) = writes[1]
           /\ WritesInOrder'
           /\ \A i \in 1..Len(writes') : Head(writes).mount <= writes'[i].mount
           /\ clipboard # None => \A i \in 1..Len(writes') : clipboard.mount <= writes'[i].mount
<1>1. writes \in Seq(Context)
  BY DEF IInv, TypeOK
<1>2. /\ writes' \in Seq(Context) /\ Len(writes') = Len(writes) - 1
      /\ Head(writes) \in Context /\ Head(writes) = writes[1] /\ Len(writes) \in Nat \ {0}
      /\ \A i \in 1..Len(writes') : i + 1 \in 1..Len(writes) /\ writes'[i] = writes[i + 1]
  BY <1>1, TailElement
<1>3. WritesInOrder'
  <2> SUFFICES ASSUME NEW i \in 1..Len(writes'), NEW j \in 1..Len(writes'), i <= j
               PROVE  /\ writes'[i].mount <= mount
                      /\ writes'[i].mount = mount => shown /\ writes'[i].route \in seen
                      /\ writes'[i].mount <= writes'[j].mount
    BY <1>2 DEF WritesInOrder
  <2>1. i + 1 <= j + 1
    BY <1>2
  <2> QED
    BY <1>2, <2>1 DEF WritesInOrder, IInv
<1>4. \A i \in 1..Len(writes') : 1 \in 1..Len(writes) /\ 1 <= i + 1
  BY <1>2
<1>5. \A i \in 1..Len(writes') : Head(writes).mount <= writes'[i].mount
  BY <1>2, <1>4 DEF WritesInOrder, IInv
<1>6. clipboard # None => \A i \in 1..Len(writes') : clipboard.mount <= writes'[i].mount
  BY <1>2 DEF ClipboardIsBehind, IInv
<1> QED
  BY <1>2, <1>3, <1>5, <1>6

LEMMA CopySucceedsStep ==
    ASSUME IInv, CopySucceeds PROVE IInv'
<1> USE DEF IInv, CopySucceeds
<1> DEFINE h == Head(writes)
<1>1. /\ writes' \in Seq(Context) /\ Len(writes') = Len(writes) - 1 /\ Len(writes) \in Nat \ {0}
      /\ h \in Context /\ h = writes[1]
      /\ WritesInOrder'
      /\ \A i \in 1..Len(writes') : h.mount <= writes'[i].mount
  BY TakeWrite
<1>2. /\ h.mount \in Mounts /\ h.mount <= mount
      /\ h.mount = mount => shown /\ h.route \in seen
      /\ clipboard # None => clipboard.mount <= h.mount
  BY <1>1 DEF Context, WritesInOrder, ClipboardIsBehind
<1>3. /\ timers' \in Seq(Mounts) /\ Len(timers') = Len(timers) + 1
      /\ \A i \in 1..Len(timers) : timers'[i] = timers[i]
      /\ timers'[Len(timers) + 1] = h.mount
  BY <1>2, AppendElement DEF TypeOK
<1>4. clipboard' = h /\ copied' = (copied \/ IsShown(h.mount))
  OBVIOUS
<1> HIDE DEF h
<1>5. TypeOK'
  BY <1>1, <1>3, <1>4, RouterViewAssumption DEF TypeOK, formVars
<1>6. ClipboardIsBehind'
  BY <1>1, <1>2, <1>4 DEF ClipboardIsBehind
<1>7. ToastIsTrue'
  <2> SUFFICES ASSUME copied' PROVE ToastIsTrue'
    BY DEF ToastIsTrue
  <2>1. CASE IsShown(h.mount)
    <3>1. Len(timers) + 1 \in 1..Len(timers')
      BY <1>3 DEF TypeOK
    <3>2. clipboard' # None
      BY <1>1, <1>4, NoneIsNoContext
    <3> QED
      BY <1>2, <1>3, <1>4, <2>1, <3>1, <3>2 DEF ToastIsTrue, IsShown
  <2>2. CASE ~ IsShown(h.mount)
    <3>1. copied /\ shown /\ clipboard # None /\ clipboard.mount = mount
      BY <1>4, <2>2 DEF ToastIsTrue, TypeOK
    <3>2. h.mount = mount
      BY <1>2, <3>1 DEF TypeOK, Mounts
    <3> QED
      BY <2>2, <3>1, <3>2 DEF IsShown
  <2> QED
    BY <2>1, <2>2
<1>8. FormInv'
  <2>1. ~ shown => copied' = FALSE
    BY <1>4 DEF HiddenIsFresh, IsShown
  <2> QED
    BY <2>1, FormUndisturbed DEF FormInv
<1> QED
  BY <1>1, <1>5, <1>6, <1>7, <1>8 DEF FormInv

LEMMA CopyFailsStep ==
    ASSUME IInv, CopyFails PROVE IInv'
<1> USE DEF IInv, CopyFails
<1>1. /\ writes' \in Seq(Context) /\ Len(writes') = Len(writes) - 1 /\ Len(writes) \in Nat \ {0}
      /\ WritesInOrder'
      /\ clipboard # None => \A i \in 1..Len(writes') : clipboard.mount <= writes'[i].mount
  BY TakeWrite
<1>2. TypeOK'
  BY <1>1, RouterViewAssumption DEF TypeOK, formVars
<1>3. ClipboardIsBehind'
  BY <1>1 DEF ClipboardIsBehind
<1>4. ToastIsTrue'
  BY DEF ToastIsTrue
<1>5. FormInv'
  BY FormUndisturbed DEF FormInv, HiddenIsFresh
<1> QED
  BY <1>1, <1>2, <1>3, <1>4, <1>5 DEF FormInv

LEMMA TimerStep ==
    ASSUME IInv, TimerFires PROVE IInv'
<1> USE DEF IInv, TimerFires
<1>1. /\ timers' \in Seq(Mounts) /\ Len(timers') = Len(timers) - 1 /\ Len(timers) \in Nat \ {0}
      /\ Head(timers) = timers[1]
      /\ \A i \in 1..Len(timers') : timers'[i] = timers[i + 1]
  BY TailElement DEF TypeOK
<1>2. TypeOK'
  BY <1>1, RouterViewAssumption DEF TypeOK, formVars
<1>3. WritesInOrder' /\ ClipboardIsBehind'
  BY DEF WritesInOrder, ClipboardIsBehind
<1>4. ToastIsTrue'
  <2> SUFFICES ASSUME copied' PROVE ToastIsTrue'
    BY DEF ToastIsTrue
  <2>1. copied /\ ~ IsShown(Head(timers))
    BY DEF TypeOK
  <2>2. PICK i \in 1..Len(timers) : timers[i] = mount
    BY <2>1 DEF ToastIsTrue
  <2>3. i # 1
    BY <1>1, <2>1, <2>2 DEF IsShown, ToastIsTrue
  <2>4. i - 1 \in 1..Len(timers') /\ timers'[i - 1] = mount
    BY <1>1, <2>2, <2>3
  <2> QED
    BY <2>1, <2>4 DEF ToastIsTrue
<1>5. FormInv'
  BY FormUndisturbed DEF FormInv, HiddenIsFresh
<1> QED
  BY <1>2, <1>3, <1>4, <1>5 DEF FormInv

LEMMA LeaveStep ==
    ASSUME IInv, Leave PROVE IInv'
<1> USE DEF IInv, Leave
<1>1. mount \in Int /\ mount' = mount + 1
  BY DEF TypeOK, Mounts
<1>2. TypeOK'
  <2>1. mount' \in Mounts
    BY RouterViewAssumption DEF TypeOK, Mounts
  <2>2. Demo \in Routes
    BY DEF Routes
  <2> QED
    BY <2>1, <2>2, RouterViewAssumption DEF TypeOK
<1>3. \A r \in Posts : post[r].mount \in Int /\ post[r].mount < mount'
  BY <1>1 DEF TypeOK, PostsAreOld
<1>4. PostsAreOld' /\ OneRouteAtATime'
  BY <1>1, <1>3 DEF PostsAreOld, OneRouteAtATime, UnderWay
<1>5. HiddenIsFresh' /\ (route \in seen)' /\ ShowsTheLastAnswer' /\ ToastIsTrue'
  BY DEF HiddenIsFresh, ShowsTheLastAnswer, ToastIsTrue
<1>6. WritesInOrder'
  <2>1. \A i \in 1..Len(writes) : writes[i].mount \in Int
    <3>1. \A i \in 1..Len(writes) : writes[i] \in Context
      BY DEF TypeOK
    <3> QED
      BY <3>1 DEF Context, Mounts
  <2> QED
    BY <1>1, <2>1 DEF WritesInOrder
<1>7. ClipboardIsBehind'
  <2>1. clipboard # None => clipboard.mount \in Int
    BY DEF TypeOK, Context, Mounts
  <2> QED
    BY <1>1, <2>1 DEF ClipboardIsBehind
<1> QED
  BY <1>2, <1>4, <1>5, <1>6, <1>7

LEMMA OpenStep ==
    ASSUME IInv, Open PROVE IInv'
<1> USE DEF IInv, Open, copyVars, formVars
<1>1. TypeOK'
  BY DEF TypeOK
<1>2. FormInv'
  BY DEF FormInv, PostsAreOld, HiddenIsFresh, OneRouteAtATime, ShowsTheLastAnswer, UnderWay
<1>3. CopyInv'
  BY DEF CopyInv, WritesInOrder, ClipboardIsBehind, ToastIsTrue
<1> QED
  BY <1>1, <1>2, <1>3 DEF FormInv, CopyInv

LEMMA StepInvariant == IInv /\ [Next]_vars => IInv'
<1> SUFFICES ASSUME IInv, [Next]_vars PROVE IInv'
  OBVIOUS
<1>1. ASSUME NEW t \in Tasks, Type(t) PROVE IInv'
  BY <1>1, TypeForm
<1>2. ASSUME NEW r \in Posts, Submit(r) PROVE IInv'
  BY <1>2, SubmitForm
<1>3. ASSUME NEW r \in Posts, RouteArrives(r) PROVE IInv'
  <2>1. CASE IsShown(post[r].mount)
    BY <1>3, <2>1, EndForm DEF RouteArrives, Display
  <2>2. CASE ~ IsShown(post[r].mount)
    BY <1>3, <2>2, EndForm DEF RouteArrives
  <2> QED
    BY <2>1, <2>2
<1>4. ASSUME NEW r \in Posts, RouteFails(r) PROVE IInv'
  <2>1. CASE IsShown(post[r].mount)
    BY <1>4, <2>1, EndForm DEF RouteFails, Display
  <2>2. CASE ~ IsShown(post[r].mount)
    BY <1>4, <2>2, EndForm DEF RouteFails
  <2> QED
    BY <2>1, <2>2
<1>5. CASE Copy \/ CopySucceeds \/ CopyFails \/ TimerFires
  BY <1>5, CopyStep, CopySucceedsStep, CopyFailsStep, TimerStep
<1>6. CASE Leave \/ Open
  BY <1>6, LeaveStep, OpenStep
<1>7. CASE UNCHANGED vars
  <2> USE <1>7 DEF IInv, vars
  <2>1. TypeOK'
    BY DEF TypeOK
  <2>2. FormInv'
    BY FormUndisturbed DEF FormInv, HiddenIsFresh, formVars
  <2>3. CopyInv'
    BY CopiesUndisturbed DEF CopyInv, copyVars
  <2> QED
    BY <2>1, <2>2, <2>3 DEF FormInv, CopyInv
<1> QED
  BY <1>1, <1>2, <1>3, <1>4, <1>5, <1>6, <1>7 DEF Next

LEMMA AlwaysInvariant == Spec => []IInv
BY InitInvariant, StepInvariant, PTL DEF Spec

-----------------------------------------------------------------------------
(* Theorems *)

\* The view's variables keep their types, the queues of copies and timers too.
THEOREM TypeCorrect == Spec => []TypeOK
<1>1. IInv => TypeOK
  BY DEF IInv
<1> QED
  BY <1>1, AlwaysInvariant, PTL

\* While the button turns, one request of the view that is shown is on its way,
\* and no more than one ever is.
THEOREM AlwaysOneRoute == Spec => []OneRouteAtATime
<1>1. IInv => OneRouteAtATime
  BY DEF IInv
<1> QED
  BY <1>1, AlwaysInvariant, PTL

\* What runRoute leaves on the screen is the answer to the last question.
THEOREM AlwaysTheLastAnswer == Spec => []ShowsTheLastAnswer
<1>1. IInv => ShowsTheLastAnswer
  BY DEF IInv
<1> QED
  BY <1>1, AlwaysInvariant, PTL

\* "Agent context copied" is true while it is shown, and has a timer.
THEOREM ToastAlwaysTrue == Spec => []ToastIsTrue
<1>1. IInv => ToastIsTrue
  BY DEF IInv
<1> QED
  BY <1>1, AlwaysInvariant, PTL
=============================================================================
