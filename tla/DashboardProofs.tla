-------------------------- MODULE DashboardProofs --------------------------
(***************************************************************************)
(* For any index, any refreshes of it and any order of answers: the page   *)
(* shows only what the index has held while the page was open.             *)
(***************************************************************************)
EXTENDS Dashboard, FiniteSetTheorems, TLAPS

\* Nobody calls the server for a page that is closed, and its fetches only list.
Opened ==
    /\ load = "none" <=> page = "closed"
    /\ \A f \in Fetches : call[f] \in {"none", "listing", "listed"}
    /\ load = "none" => history = {} /\ \A f \in Fetches : call[f] = "none"

TypeInv == TypeOK /\ Opened

\* What is on its way to the page, and what is there, the index has held.
Seen ==
    /\ page # "closed" => index \in history
    /\ \A f \in Fetches : call[f] = "listed" => arg[f] \in history
    /\ \A f \in Fetches : got[f].kind = "ok" => got[f].value \in history
    /\ projects \in {None, {}} \cup history
    /\ projects = None \/ page = "crashed" => {} \in history
    /\ workspace \in {None} \cup history

-----------------------------------------------------------------------------
(* Types *)

\* The kinds of responses.
LEMMA ResponseKinds ==
    /\ Pending \in Responses /\ Error \in Responses /\ Lost \in Responses
    /\ \A value \in SUBSET Names : Received(value) \in Responses
    /\ \A r \in Responses : r.value \in SUBSET Names
    /\ \A r \in Responses : r \notin {Pending, Error, Lost} => r.kind = "ok"
    /\ Pending.kind # "ok" /\ Error.kind # "ok" /\ Lost.kind # "ok"
    /\ \A value : Received(value).kind = "ok" /\ Received(value).value = value
                  /\ Received(value) \notin {Pending, Lost}
<1>1. \A value : Received(value).kind = "ok" /\ Received(value).value = value
                  /\ Received(value) \notin {Pending, Lost}
  BY DEF Received, Pending, Lost
<1>2. /\ Pending.kind # "ok" /\ Error.kind # "ok" /\ Lost.kind # "ok"
      /\ Pending.value = {} /\ Error.value = {} /\ Lost.value = {}
  BY DEF Pending, Error, Lost
<1>3. ASSUME NEW r \in Responses
      PROVE  r.value \in SUBSET Names /\ (r \notin {Pending, Error, Lost} => r.kind = "ok")
  BY <1>1, <1>2 DEF Responses
<1> QED
  BY <1>1, <1>2, <1>3 DEF Responses

LEMMA InitTypes == Init => TypeInv /\ Seen
<1> SUFFICES ASSUME Init PROVE TypeInv /\ Seen
  OBVIOUS
<1>1. \A f \in Fetches : got[f] = Pending
  BY DEF Init, NoResponses
<1>2. got \in [Fetches -> Responses]
  BY ResponseKinds DEF Init, NoResponses
<1>3. InitialIndex \in SUBSET Names /\ None # {}
  <2>1. {} \in SUBSET Names
    OBVIOUS
  <2> QED
    BY <2>1, DashboardAssumption
<1> QED
  BY <1>1, <1>2, <1>3, ResponseKinds DEF Init, Index!Init, Index!Phases, Actors, TypeInv, TypeOK,
     Opened, Seen, Views

IndexTypes == /\ index \in SUBSET Names
              /\ call \in [Actors -> Index!Phases] /\ arg \in [Actors -> SUBSET Names]

LEMMA IndexKeepsTypes ==
    ASSUME IndexTypes, NEW a \in Actors,
           \/ Index!CallReplace(a) \/ Index!TakeEffect(a) \/ Index!CallList(a)
           \/ Index!Observe(a) \/ Index!Reject(a) \/ Index!Answer(a)
    PROVE  IndexTypes' /\ \A b \in Actors \ {a} : call'[b] = call[b] /\ arg'[b] = arg[b]
<1>1. InitialIndex \in SUBSET Names
  BY DashboardAssumption
<1> QED
  BY <1>1 DEF IndexTypes, Index!CallReplace, Index!TakeEffect, Index!CallList,
     Index!Observe, Index!Reject, Index!Answer, Index!Phases

\* The steps of the page itself.
Local == Settle \/ SetProjects \/ SetWorkspace \/ LoseBody \/ (\E v \in Views : SelectView(v))

LEMMA LocalTypes ==
    ASSUME TypeInv, Local
    PROVE  /\ TypeInv' /\ UNCHANGED <<index, call, arg, history>>
           /\ \/ got' = got \/ got' = NoResponses
           /\ page # "closed" /\ page' # "closed"
           /\ page' = "crashed" => page = "crashed" \/ projects' = None
           /\ projects' # projects =>
                load = "setting" /\ got["projects"] # Error
                /\ projects' = JsonOf(got["projects"].value)
           /\ workspace' # workspace =>
                load = "counting" /\ got["status"] # Error /\ workspace' = got["status"].value
<1>1. UNCHANGED <<index, call, arg, history>> /\ (got' = got \/ got' = NoResponses)
  BY DEF Local, Settle, SetProjects, SetWorkspace, LoseBody, SelectView, indexVars
<1>2. got \in [Fetches -> Responses] /\ NoResponses \in [Fetches -> Responses]
  BY ResponseKinds DEF TypeInv, TypeOK, NoResponses
<1>3. \A f \in Fetches : got[f].value \in SUBSET Names
  BY <1>2, ResponseKinds
<1>4. load' # "none" /\ page # "closed" /\ page' \in {"up", "crashed"}
  <2>1. /\ page \in {"closed", "up", "crashed"}
        /\ load = "none" <=> page = "closed"
    BY DEF TypeInv, TypeOK, Opened
  <2>2. CASE Settle
    BY <2>1, <2>2 DEF Settle
  <2>3. CASE SetProjects
    BY <2>3 DEF SetProjects, Render
  <2>4. CASE SetWorkspace
    BY <2>1, <2>4 DEF SetWorkspace
  <2>5. CASE LoseBody
    BY <2>1, <2>5 DEF LoseBody
  <2>6. CASE \E v \in Views : SelectView(v)
    BY <2>1, <2>6 DEF SelectView, Render
  <2> QED
    BY <2>2, <2>3, <2>4, <2>5, <2>6 DEF Local
<1>0. page' = "crashed" => page = "crashed" \/ projects' = None
  BY DEF Local, Settle, SetProjects, SetWorkspace, LoseBody, SelectView, Render
<1>5. projects' # projects =>
          load = "setting" /\ got["projects"] # Error /\ projects' = JsonOf(got["projects"].value)
  BY DEF Local, Settle, SetProjects, SetWorkspace, LoseBody, SelectView
<1>6. workspace' # workspace =>
          load = "counting" /\ got["status"] # Error /\ workspace' = got["status"].value
  BY DEF Local, Settle, SetProjects, SetWorkspace, LoseBody, SelectView
<1>7. /\ projects' \in (SUBSET Names) \cup {None} /\ workspace' \in (SUBSET Names) \cup {None}
      /\ view' \in Views
      /\ load' \in {"none", "opening", "fetching", "setting", "counting", "done"}
  <2>1. projects' \in (SUBSET Names) \cup {None} /\ workspace' \in (SUBSET Names) \cup {None}
    BY <1>3, <1>5, <1>6 DEF JsonOf, Fetches, TypeInv, TypeOK
  <2>2. view' \in Views /\ load' \in {"none", "opening", "fetching", "setting", "counting", "done"}
    BY DEF Local, Settle, SetProjects, SetWorkspace, LoseBody, SelectView, TypeInv, TypeOK
  <2> QED
    BY <2>1, <2>2
<1>8. load' \in {"setting", "counting"} =>
          got' = got /\ \A f \in Fetches : got[f] \notin {Pending, Lost}
  BY DEF Local, Settle, SetProjects, SetWorkspace, LoseBody, SelectView, TypeInv, TypeOK
<1>9. TypeOK'
  BY <1>1, <1>2, <1>4, <1>7, <1>8 DEF TypeInv, TypeOK
<1>10. Opened'
  BY <1>1, <1>4 DEF TypeInv, Opened
<1> QED
  BY <1>1, <1>4, <1>5, <1>6, <1>9, <1>10, <1>0 DEF TypeInv

\* A step keeps the types, and what is seen.
LEMMA StepTypes == TypeInv /\ Seen /\ [Next]_vars => TypeInv' /\ Seen'
<1> SUFFICES ASSUME TypeInv, Seen, [Next]_vars PROVE TypeInv' /\ Seen'
  OBVIOUS
<1>1. /\ IndexTypes /\ got \in [Fetches -> Responses] /\ page \in {"closed", "up", "crashed"}
      /\ Fetches \subseteq Actors /\ "refresher" \in Actors /\ "refresher" \notin Fetches
      /\ history \in SUBSET SUBSET Names
  BY DEF TypeInv, TypeOK, IndexTypes, Actors, Fetches
<1>2. \A f \in Fetches : f \in Actors /\ call[f] \in {"none", "listing", "listed"}
  BY <1>1 DEF TypeInv, Opened
<1>3. ASSUME Local PROVE TypeInv' /\ Seen'
  <2>1. \A f \in Fetches : NoResponses[f] = Pending
    BY DEF NoResponses
  <2>2. \A f \in Fetches : got'[f].kind = "ok" => got'[f].value \in history
    BY <1>3, <2>1, LocalTypes, ResponseKinds DEF Seen
  <2>3. \A f \in Fetches : got[f] \in Responses
    BY <1>1
  <2>4. projects' \in {None, {}} \cup history /\ (projects' = None => {} \in history)
    <3>1. CASE projects' = projects
      BY <3>1 DEF Seen
    <3>2. CASE projects' # projects
      <4>1. /\ load = "setting" /\ got["projects"] # Error
            /\ projects' = JsonOf(got["projects"].value)
        BY <1>3, <3>2, LocalTypes
      <4>2. got["projects"].kind = "ok"
        BY <2>3, <4>1, ResponseKinds DEF Fetches, TypeInv, TypeOK
      <4>3. got["projects"].value \in history /\ got["projects"].value # None
        BY <2>3, <4>2, ResponseKinds, DashboardAssumption DEF Seen, Fetches
      <4> QED
        BY <4>1, <4>3 DEF JsonOf
    <3> QED
      BY <3>1, <3>2
  <2>5. workspace' \in {None} \cup history
    <3>1. CASE workspace' = workspace
      BY <3>1 DEF Seen
    <3>2. CASE workspace' # workspace
      <4>1. /\ load = "counting" /\ got["status"] # Error /\ workspace' = got["status"].value
        BY <1>3, <3>2, LocalTypes
      <4>2. got["status"].kind = "ok"
        BY <2>3, <4>1, ResponseKinds DEF Fetches, TypeInv, TypeOK
      <4> QED
        BY <4>1, <4>2 DEF Seen, Fetches
    <3> QED
      BY <3>1, <3>2
  <2> QED
    BY <1>3, <2>2, <2>4, <2>5, LocalTypes DEF Seen
<1>4. CASE OpenPage
  <2>1. IndexTypes' /\ call' = [call EXCEPT !["projects"] = "listing"]
        /\ UNCHANGED <<index, arg, view, projects, workspace, got>>
        /\ load' = "opening" /\ page' = "up" /\ history' = {index} /\ load = "none"
    BY <1>1, <1>4, IndexKeepsTypes DEF OpenPage, Index!CallList, Fetches
  <2>2. \A f \in Fetches : call'[f] \in {"none", "listing"}
    <3>1. call \in [Actors -> Index!Phases] /\ \A f \in Fetches : call[f] = "none"
      BY <1>1, <2>1 DEF IndexTypes, TypeInv, Opened
    <3> QED
      BY <1>1, <2>1, <3>1
  <2>3. \A f \in Fetches : got[f].kind # "ok"
    BY <2>1 DEF TypeInv, Opened, Seen
  <2>4. projects = {} /\ projects # None /\ workspace = None
    BY <2>1 DEF TypeInv, Opened, Seen
  <2>5. TypeOK'
    BY <1>1, <2>1 DEF TypeInv, TypeOK, IndexTypes
  <2> QED
    BY <2>1, <2>2, <2>3, <2>4, <2>5 DEF TypeInv, Opened, Seen
<1>5. CASE FetchStatus
  <2>1. IndexTypes' /\ call' = [call EXCEPT !["status"] = "listing"]
        /\ UNCHANGED <<index, arg, page, view, projects, workspace, got, history>>
        /\ load' = "fetching" /\ load = "opening"
    BY <1>1, <1>5, IndexKeepsTypes DEF FetchStatus, Index!CallList, Fetches
  <2>2. \A f \in Fetches : call'[f] = "listing" \/ call'[f] = call[f]
    BY <1>1, <2>1 DEF IndexTypes
  <2> QED
    BY <1>2, <2>1, <2>2 DEF TypeInv, TypeOK, Opened, Seen, IndexTypes
<1>6. ASSUME NEW f \in Fetches, Read(f) PROVE TypeInv' /\ Seen'
  <2>1. IndexTypes' /\ call[f] = "listing" /\ call'[f] = "listed" /\ arg'[f] = index
        /\ UNCHANGED <<index, page, view, projects, workspace, load, got, history>>
        /\ \A b \in Actors \ {f} : call'[b] = call[b] /\ arg'[b] = arg[b]
    BY <1>1, <1>6, IndexKeepsTypes DEF Read, Index!Observe, IndexTypes, appVars
  <2>2. page # "closed"
    BY <2>1 DEF TypeInv, Opened
  <2> QED
    BY <1>1, <1>2, <2>1, <2>2 DEF TypeInv, TypeOK, Opened, Seen, IndexTypes
<1>7. ASSUME NEW f \in Fetches, Respond(f) PROVE TypeInv' /\ Seen'
  <2>1. PICK response \in {Error, Lost, Received(arg[f])} :
            /\ IF response.kind = "ok" THEN Index!Answer(f) ELSE Index!Reject(f)
            /\ got' = IF load = "done" THEN got ELSE [got EXCEPT ![f] = response]
    BY <1>7 DEF Respond
  <2>2. /\ IndexTypes' /\ call'[f] = "none" /\ index' = index
        /\ \A b \in Actors \ {f} : call'[b] = call[b] /\ arg'[b] = arg[b]
    BY <1>1, <2>1, IndexKeepsTypes DEF Index!Answer, Index!Reject, IndexTypes
  <2>3. arg[f] \in SUBSET Names /\ response \in Responses
    BY <1>1, <2>1, ResponseKinds DEF IndexTypes
  <2>4. response.kind = "ok" => response.value \in history
    <3>1. ASSUME response.kind = "ok" PROVE response.value \in history
      <4>1. call[f] = "listed" /\ response = Received(arg[f])
        BY <1>2, <2>1, <3>1, ResponseKinds DEF Index!Answer
      <4> QED
        BY <4>1, ResponseKinds DEF Seen
    <3> QED
      BY <3>1
  <2>5. /\ got' \in [Fetches -> Responses] /\ load \in {"fetching", "done"}
        /\ \A g \in Fetches : got'[g] = got[g] \/ got'[g] = response
        /\ UNCHANGED <<page, view, projects, workspace, load, history>>
    BY <1>1, <1>7, <2>1, <2>3 DEF Respond
  <2> QED
    BY <1>2, <2>2, <2>4, <2>5 DEF TypeInv, TypeOK, Opened, Seen, IndexTypes
<1>8. CASE Refresh
  <2>1. IndexTypes' /\ \A f \in Fetches : call'[f] = call[f] /\ arg'[f] = arg[f]
    BY <1>1, <1>8, IndexKeepsTypes DEF Refresh
  <2>2. /\ UNCHANGED <<page, view, projects, workspace, load, got>>
        /\ history' = IF page = "closed" THEN history ELSE history \cup {index'}
    BY <1>8 DEF Refresh, appVars
  <2> QED
    BY <1>1, <1>2, <2>1, <2>2 DEF TypeInv, TypeOK, Opened, Seen, IndexTypes
<1>9. CASE UNCHANGED vars
  BY <1>9 DEF vars, indexVars, appVars, TypeInv, TypeOK, Opened, Seen
<1> QED
  BY <1>3, <1>4, <1>5, <1>6, <1>7, <1>8, <1>9 DEF Next, Local

\* The page, its responses and the index keep their types.
THEOREM TypeCorrect == Spec => []TypeOK
<1>1. TypeInv => TypeOK
  BY DEF TypeInv
<1> QED
  BY <1>1, InitTypes, StepTypes, PTL DEF Spec

-----------------------------------------------------------------------------
(* What is shown *)

\* The page shows nothing that the index did not hold while it was open; and if
\* the index stayed as it was, header and list count the same projects.  It crashes
\* of nothing but an empty index.
THEOREM AlwaysShowsTheIndex == Spec => []ShowsTheIndex
<1>1. ASSUME TypeInv, Seen PROVE ShowsTheIndex
  <2>1. /\ projects \notin {None, {}} => projects \in history
        /\ workspace # None => workspace \in history
        /\ page = "crashed" => {} \in history
    BY <1>1 DEF Seen
  <2>2. ASSUME projects \notin {None, {}}, workspace # None, Cardinality(history) = 1
        PROVE  HeaderCount = ListCount
    <3>1. IsFiniteSet(history)
      <4>1. IsFiniteSet(SUBSET Names)
        BY DashboardAssumption, FS_SUBSET
      <4> QED
        BY <1>1, <4>1, FS_Subset DEF TypeInv, TypeOK
    <3>2. PICK only : history = {only}
      BY <2>2, <3>1, FS_Singleton
    <3>3. projects = only /\ workspace = only
      BY <2>1, <2>2, <3>2
    <3> QED
      BY <2>2, <3>3 DEF HeaderCount, ListCount, Listed
  <2> QED
    BY <2>1, <2>2 DEF ShowsTheIndex
<1> QED
  BY <1>1, InitTypes, StepTypes, PTL DEF Spec

\* Page and handlers call the index only as AtomicIndex has it, and it does nothing
\* here that AtomicIndex, which the store implements, does not do (server.go,
\* handleProjects and handleStatus).
THEOREM UsesTheIndex == Spec => Index!Spec
<1>1. Init => Index!Init
  BY DEF Init
<1>2. [Next]_vars => [Index!Next]_Index!vars
  <2> SUFFICES ASSUME Next \/ UNCHANGED vars PROVE Index!Next \/ UNCHANGED Index!vars
    OBVIOUS
  <2> USE DEF Index!vars
  <2>1. ASSUME NEW a \in Actors,
               \/ Index!CallReplace(a) \/ Index!TakeEffect(a) \/ Index!CallList(a)
               \/ Index!Observe(a) \/ Index!Reject(a) \/ Index!Answer(a)
        PROVE  Index!Next
    BY <2>1 DEF Index!Next
  <2>2. Fetches \subseteq Actors /\ {"refresher", "projects", "status"} \subseteq Actors
    BY DEF Actors, Fetches
  <2>3. CASE Local
    BY <2>3 DEF Local, Settle, SetProjects, SetWorkspace, LoseBody, SelectView, indexVars
  <2>4. CASE OpenPage \/ FetchStatus
    BY <2>1, <2>2, <2>4 DEF OpenPage, FetchStatus
  <2>5. CASE Refresh
    BY <2>1, <2>2, <2>5 DEF Refresh
  <2>6. ASSUME NEW f \in Fetches, Read(f) \/ Respond(f) PROVE Index!Next
    BY <2>1, <2>2, <2>6 DEF Read, Respond
  <2>7. CASE UNCHANGED vars
    BY <2>7 DEF vars
  <2> QED
    BY <2>3, <2>4, <2>5, <2>6, <2>7 DEF Next, Local
<1> QED
  BY <1>1, <1>2, PTL DEF Spec, Index!Spec
=============================================================================
