--------------------------- MODULE ProcessProofs ---------------------------
(***************************************************************************)
(* What one process of whichrepo promises: of a session of its MCP server, *)
(* and of the settings it runs with.  The two modules share nothing.       *)
(*                                                                         *)
(* For sessions of any length, edits of the workspace and refreshes of     *)
(* other processes: every line gets its answer in its turn, and a client   *)
(* that has refreshed the index is never answered from an older one.       *)
(*                                                                         *)
(* For any workspaces, files, environment and flags that name workspace    *)
(* and file once: the highest layer wins, and the database is in the       *)
(* workspace; and for any at all, values out of range stay where they are. *)
(***************************************************************************)
EXTENDS McpSession, Settings, SequenceTheorems, TLAPS

\* A tool works for a request, which is the line read last and has an answer.
Waiting ==
    /\ request # None => taken >= 1 /\ sent[request] \notin Silent
    /\ call["mcp"] # "none" => request # None /\ Method \in {"refresh"} \cup Listing

TypeInv == TypeOK /\ Waiting

IndexTypes == /\ index \in Versions
              /\ call \in [Actors -> Index!Phases] /\ arg \in [Actors -> Versions]

-----------------------------------------------------------------------------
(* McpSession: types *)

LEMMA Bounds ==
    ASSUME TypeOK
    PROVE  /\ 0 \in Versions /\ disk \in Versions /\ floor \in Versions
           /\ \A v \in Versions : v \in Nat /\ v # None
           /\ taken \in Nat /\ Len(sent) \in Nat /\ taken <= Len(sent) /\ Len(sent) <= MaxLines
           /\ taken # None /\ sent \in Seq(Methods) /\ answers \in Seq(AnswerType)
           /\ IndexTypes
<1>1. Len(sent) \in Nat
  BY DEF TypeOK
<1>2. 0 \in Versions /\ \A v \in Versions : v \in Nat /\ v # None
  BY McpAssumption DEF Versions
<1>3. taken \in Nat /\ taken <= Len(sent)
  BY <1>1 DEF TypeOK
<1>4. taken # None
  BY <1>3, McpAssumption
<1> QED
  BY <1>1, <1>2, <1>3, <1>4 DEF TypeOK, IndexTypes

LEMMA InitTypes == Init => TypeInv
<1> SUFFICES ASSUME Init PROVE TypeInv
  OBVIOUS
<1>1. 0 \in Versions /\ MaxLines \in Nat
  BY McpAssumption DEF Versions
<1>2. sent \in Seq(Methods) /\ Len(sent) <= MaxLines /\ taken \in 0..Len(sent)
      /\ answers \in Seq(AnswerType)
  BY <1>1 DEF Init
<1> QED
  BY <1>1, <1>2 DEF Init, Index!Init, Index!Phases, Actors, TypeInv, TypeOK, Waiting

\* The index and its callers keep their types, and one call at a time begins,
\* takes effect or ends.
LEMMA IndexKeepsTypes ==
    ASSUME IndexTypes, NEW a \in Actors, NEW value \in Versions,
           \/ Index!CallReplace(a) /\ arg'[a] = value
           \/ Index!TakeEffect(a) \/ Index!CallList(a) \/ Index!Observe(a) \/ Index!Reject(a)
           \/ Index!Answer(a)
    PROVE  IndexTypes' /\ \A b \in Actors \ {a} : call'[b] = call[b] /\ arg'[b] = arg[b]
<1>1. 0 \in Versions
  BY McpAssumption DEF Versions
<1> QED
  BY <1>1 DEF IndexTypes, Index!CallReplace, Index!TakeEffect, Index!CallList, Index!Observe,
     Index!Reject, Index!Answer, Index!Phases

\* What Encode does.
LEMMA EncodeTypes ==
    ASSUME TypeInv, request # None, NEW ok \in BOOLEAN, NEW version \in Versions \cup {None},
           Encode(ok, version), UNCHANGED <<sent, taken, floor>>
    PROVE  /\ answers' \in Seq(AnswerType) /\ request' = None
           /\ session' \in {"open", "closed", "ended"}
           /\ session' # "ended" =>
                answers' = Append(answers, [id |-> request, ok |-> ok, version |-> version,
                                            floor |-> floor])
<1>1. request \in 1..MaxLines
  <2>1. taken \in Nat /\ Len(sent) \in Nat /\ taken <= Len(sent) /\ Len(sent) <= MaxLines
    BY Bounds DEF TypeInv
  <2>2. request = taken /\ taken >= 1
    BY DEF TypeInv, TypeOK, Waiting
  <2> QED
    BY <2>1, <2>2, McpAssumption
<1> DEFINE answer == [id |-> request, ok |-> ok, version |-> version, floor |-> floor]
<1>2. answer \in AnswerType
  BY <1>1, Bounds DEF TypeInv, AnswerType
<1>3. Append(answers, answer) \in Seq(AnswerType) /\ answers \in Seq(AnswerType)
  BY <1>2, Bounds DEF TypeInv
<1> QED
  BY <1>3 DEF Encode, TypeInv, TypeOK

LEMMA StepTypes == TypeInv /\ [Next]_vars => TypeInv'
<1> SUFFICES ASSUME TypeInv, [Next]_vars PROVE TypeInv'
  OBVIOUS
<1>1. /\ 0 \in Versions /\ disk \in Versions /\ floor \in Versions
      /\ \A v \in Versions : v \in Nat /\ v # None
      /\ taken \in Nat /\ Len(sent) \in Nat /\ taken <= Len(sent) /\ Len(sent) <= MaxLines
      /\ taken # None /\ sent \in Seq(Methods) /\ answers \in Seq(AnswerType)
      /\ IndexTypes
  BY Bounds DEF TypeInv
<1>2. ASSUME NEW method \in Methods, Send(method) PROVE TypeInv'
  <2>1. /\ sent' \in Seq(Methods) /\ Len(sent') = Len(sent) + 1 /\ Len(sent') <= MaxLines
        /\ \A i \in 1..Len(sent) : sent'[i] = sent[i]
    BY <1>1, <1>2, McpAssumption DEF Send
  <2>2. taken \in 0..Len(sent')
    BY <1>1, <2>1
  <2>3. request # None => sent'[request] = sent[request]
    <3>1. request # None => request \in 1..Len(sent)
      BY <1>1 DEF TypeInv, TypeOK, Waiting
    <3> QED
      BY <2>1, <3>1
  <2> QED
    BY <1>2, <2>1, <2>2, <2>3 DEF Send, indexVars, TypeInv, TypeOK, Waiting, Method
<1>3. CASE CloseInput \/ EndOfInput
  BY <1>3 DEF CloseInput, EndOfInput, indexVars, TypeInv, TypeOK, Waiting, Method
<1>4. CASE EditWorkspace
  <2>1. disk' \in Versions
    BY <1>1, <1>4, McpAssumption DEF EditWorkspace, Versions
  <2> QED
    BY <1>4, <2>1 DEF EditWorkspace, indexVars, TypeInv, TypeOK, Waiting, Method
<1>5. CASE OtherRefresh
  <2>1. IndexTypes' /\ call'["mcp"] = call["mcp"]
    BY <1>1, <1>5, IndexKeepsTypes DEF OtherRefresh, Actors
  <2>2. floor' \in Versions
    BY <1>1, <1>5 DEF OtherRefresh
  <2> QED
    BY <1>5, <2>1, <2>2 DEF OtherRefresh, IndexTypes, TypeInv, TypeOK, Waiting, Method
<1>6. CASE ReadLine
  <2>1. taken' = taken + 1 /\ taken' \in 0..Len(sent) /\ taken' >= 1
    BY <1>1, <1>6 DEF ReadLine
  <2>2. /\ request' \in {None, taken'}
        /\ request' # None => sent[request'] \notin Silent
    BY <1>6 DEF ReadLine
  <2>3. session' \in {"open", "closed", "ended"}
    BY <1>6 DEF ReadLine, TypeInv, TypeOK
  <2>4. call["mcp"] = "none"
    BY <1>6 DEF ReadLine, TypeInv, Waiting
  <2> QED
    BY <1>6, <2>1, <2>2, <2>3, <2>4 DEF ReadLine, indexVars, TypeInv, TypeOK, Waiting
<1>7. CASE AnswerAtOnce
  <2>1. /\ answers' \in Seq(AnswerType) /\ request' = None
        /\ session' \in {"open", "closed", "ended"}
    BY <1>7, EncodeTypes DEF AnswerAtOnce
  <2>2. call["mcp"] = "none"
    BY <1>7 DEF AnswerAtOnce, Immediate, Listing, TypeInv, Waiting
  <2> QED
    BY <1>7, <2>1, <2>2 DEF AnswerAtOnce, indexVars, TypeInv, TypeOK, Waiting
<1>8. CASE CallTool
  <2>1. IndexTypes'
    BY <1>1, <1>8, IndexKeepsTypes DEF CallTool, Actors
  <2> QED
    BY <1>8, <2>1 DEF CallTool, IndexTypes, TypeInv, TypeOK, Waiting, Method
<1>9. CASE Work
  <2>1. IndexTypes'
    BY <1>1, <1>9, IndexKeepsTypes DEF Work, Actors
  <2>2. floor' \in Versions /\ call["mcp"] # "none"
    BY <1>1, <1>9 DEF Work, IndexTypes, Actors, Index!TakeEffect, Index!Observe
  <2> QED
    BY <1>9, <2>1, <2>2 DEF Work, IndexTypes, TypeInv, TypeOK, Waiting, Method
<1>10. CASE AnswerTool \/ FailTool
  <2>1. IndexTypes'
    BY <1>1, <1>10, IndexKeepsTypes DEF AnswerTool, FailTool, Actors
  <2>2. /\ call["mcp"] # "none" /\ call'["mcp"] = "none" /\ arg["mcp"] \in Versions
    BY <1>1, <1>10 DEF AnswerTool, FailTool, IndexTypes, Actors, Index!Answer, Index!Reject
  <2>3. request # None
    BY <2>2 DEF TypeInv, Waiting
  <2>4. /\ answers' \in Seq(AnswerType) /\ request' = None
        /\ session' \in {"open", "closed", "ended"}
    BY <1>10, <2>2, <2>3, EncodeTypes DEF AnswerTool, FailTool
  <2> QED
    BY <1>10, <2>1, <2>2, <2>4 DEF AnswerTool, FailTool, IndexTypes, TypeInv, TypeOK, Waiting
<1>11. CASE UNCHANGED vars
  BY <1>11 DEF vars, indexVars, TypeInv, TypeOK, Waiting, Method
<1> QED
  BY <1>2, <1>3, <1>4, <1>5, <1>6, <1>7, <1>8, <1>9, <1>10, <1>11 DEF Next, Serve

\* The session, the index and the answers keep their types.
THEOREM TypeCorrect == Spec => []TypeOK
<1>1. TypeInv => TypeOK
  BY DEF TypeInv
<1> QED
  BY <1>1, InitTypes, StepTypes, PTL DEF Spec
-----------------------------------------------------------------------------
(* McpSession: a refresh is seen *)

\* The index, and what a tool has read of it or put into it, is as new as our
\* last refresh.
NewEnough ==
    /\ index >= floor
    /\ call["mcp"] \in {"listed", "replaced"} => arg["mcp"] >= floor

LEMMA StepSees == TypeInv /\ NewEnough /\ SeesItsRefresh /\ [Next]_vars => (NewEnough /\ SeesItsRefresh)'
<1> SUFFICES ASSUME TypeInv, NewEnough, SeesItsRefresh, [Next]_vars
             PROVE  NewEnough' /\ SeesItsRefresh'
  OBVIOUS
<1>1. /\ \A v \in Versions : v \in Nat /\ v # None
      /\ floor \in Versions /\ index \in Versions /\ answers \in Seq(AnswerType)
      /\ call \in [Actors -> Index!Phases] /\ arg \in [Actors -> Versions]
      /\ "mcp" \in Actors /\ "other" \in Actors
  BY Bounds DEF TypeInv, IndexTypes, Actors
<1>2. ASSUME UNCHANGED <<indexVars, floor>> PROVE NewEnough'
  BY <1>2 DEF NewEnough, indexVars
<1>3. ASSUME UNCHANGED answers PROVE SeesItsRefresh'
  BY <1>3 DEF SeesItsRefresh
<1>4. ASSUME request # None, NEW ok \in BOOLEAN, NEW version \in Versions \cup {None},
             Encode(ok, version), version # None => version >= floor
      PROVE  SeesItsRefresh'
  <2>1. CASE UNCHANGED answers
    BY <1>3, <2>1
  <2> DEFINE answer == [id |-> request, ok |-> ok, version |-> version, floor |-> floor]
  <2>2. CASE answers' = Append(answers, answer)
    <3>1. /\ DOMAIN answers' = 1..(Len(answers) + 1) /\ DOMAIN answers = 1..Len(answers)
          /\ Len(answers) \in Nat /\ answers'[Len(answers) + 1] = answer
          /\ \A n \in 1..Len(answers) : answers'[n] = answers[n]
      BY <1>1, <2>2
    <3>2. \A n \in DOMAIN answers' : n \in DOMAIN answers \/ n = Len(answers) + 1
      BY <3>1
    <3>3. answer.version = version /\ answer.floor = floor
      OBVIOUS
    <3> HIDE DEF answer
    <3> QED
      BY <1>4, <3>1, <3>2, <3>3 DEF SeesItsRefresh
  <2> QED
    BY <1>4, <2>1, <2>2 DEF Encode
<1>5. CASE (\E method \in Methods : Send(method)) \/ CloseInput \/ EndOfInput \/ EditWorkspace
           \/ ReadLine \/ UNCHANGED vars
  BY <1>2, <1>3, <1>5 DEF Send, CloseInput, EndOfInput, EditWorkspace, ReadLine, vars, indexVars
<1>6. CASE OtherRefresh
  <2>1. UNCHANGED answers /\ call'["mcp"] = call["mcp"] /\ arg'["mcp"] = arg["mcp"]
    BY <1>1, <1>6 DEF OtherRefresh, Index!CallReplace, Index!TakeEffect, Index!Reject, Index!Answer
  <2>2. \/ index' = index /\ floor' = floor
        \/ index' \in Versions /\ floor' = 0
    BY <1>1, <1>6 DEF OtherRefresh, Index!CallReplace, Index!TakeEffect, Index!Reject, Index!Answer
  <2> QED
    BY <1>1, <1>3, <2>1, <2>2 DEF NewEnough
<1>7. CASE AnswerAtOnce
  BY <1>2, <1>4, <1>7 DEF AnswerAtOnce, indexVars
<1>8. CASE CallTool
  <2>1. UNCHANGED <<answers, floor, index>> /\ call'["mcp"] \in {"replacing", "listing"}
    BY <1>1, <1>8 DEF CallTool, Index!CallReplace, Index!CallList
  <2> QED
    BY <1>3, <2>1 DEF NewEnough
<1>9. CASE Work
  <2>1. CASE Index!TakeEffect("mcp") /\ floor' = arg["mcp"]
    <3>1. index' = floor' /\ arg' = arg
      BY <2>1 DEF Index!TakeEffect
    <3> QED
      BY <1>1, <1>3, <1>9, <2>1, <3>1 DEF Work, NewEnough
  <2>2. CASE Index!Observe("mcp") /\ UNCHANGED floor
    <3>1. index' = index /\ arg'["mcp"] = index
      BY <1>1, <2>2 DEF Index!Observe
    <3> QED
      BY <1>1, <1>3, <1>9, <2>2, <3>1 DEF Work, NewEnough
  <2> QED
    BY <1>9, <2>1, <2>2 DEF Work
<1>10. CASE AnswerTool \/ FailTool
  <2>1. /\ call["mcp"] # "none" /\ call'["mcp"] = "none" /\ UNCHANGED <<index, floor>>
        /\ AnswerTool => call["mcp"] \in {"listed", "replaced"}
    BY <1>1, <1>10 DEF AnswerTool, FailTool, Index!Answer, Index!Reject
  <2>2. request # None
    BY <2>1 DEF TypeInv, Waiting
  <2>3. ASSUME AnswerTool PROVE SeesItsRefresh'
    BY <1>1, <1>4, <2>1, <2>2, <2>3 DEF AnswerTool, NewEnough
  <2>4. ASSUME FailTool PROVE SeesItsRefresh'
    BY <1>4, <2>2, <2>4 DEF FailTool
  <2>5. NewEnough'
    BY <2>1 DEF NewEnough
  <2> QED
    BY <1>10, <2>3, <2>4, <2>5
<1> QED
  BY <1>5, <1>6, <1>7, <1>8, <1>9, <1>10 DEF Next, Serve

\* A client that has refreshed the index is not answered from an older one, until
\* somebody else refreshes it.
THEOREM AlwaysSeesItsRefresh == Spec => []SeesItsRefresh
<1>1. Init => NewEnough /\ SeesItsRefresh
  BY DEF Init, Index!Init, NewEnough, SeesItsRefresh, Actors
<1> QED
  BY <1>1, InitTypes, StepTypes, StepSees, PTL DEF Spec

-----------------------------------------------------------------------------
(* McpSession: each line in its turn *)

\* A step that reads and answers nothing, and changes nothing that was read.
LEMMA TurnUndisturbed ==
    ASSUME AnsweredInTurn, UNCHANGED <<taken, answers, request>>, session' # "ended" => session # "ended",
           \A i \in 1..taken : sent'[i] = sent[i]
    PROVE  AnsweredInTurn'
<1>1. {i \in 1..taken : sent'[i] \notin Silent /\ i # request}
      = {i \in 1..taken : sent[i] \notin Silent /\ i # request}
  OBVIOUS
<1> QED
  BY <1>1 DEF AnsweredInTurn

LEMMA StepInTurn == TypeInv /\ AnsweredInTurn /\ [Next]_vars => AnsweredInTurn'
<1> SUFFICES ASSUME TypeInv, AnsweredInTurn, [Next]_vars PROVE AnsweredInTurn'
  OBVIOUS
<1>1. /\ taken \in Nat /\ Len(sent) \in Nat /\ taken <= Len(sent) /\ Len(sent) <= MaxLines
      /\ taken # None /\ sent \in Seq(Methods) /\ answers \in Seq(AnswerType)
  BY Bounds DEF TypeInv
<1>2. ASSUME NEW method \in Methods, Send(method) PROVE AnsweredInTurn'
  BY <1>1, <1>2, TurnUndisturbed DEF Send
<1>3. CASE CloseInput \/ EndOfInput \/ EditWorkspace \/ OtherRefresh \/ CallTool \/ Work
           \/ UNCHANGED vars
  BY <1>3, TurnUndisturbed DEF CloseInput, EndOfInput, EditWorkspace, OtherRefresh, CallTool, Work,
     vars
<1>4. CASE ReadLine
  <2>1. /\ session # "ended" /\ request = None /\ taken' = taken + 1 /\ UNCHANGED <<sent, answers>>
        /\ request' = IF sent[taken + 1] \in Silent THEN None ELSE taken + 1
    BY <1>4 DEF ReadLine
  <2>2. {i \in 1..taken' : sent[i] \notin Silent /\ i # request'}
        = {i \in 1..taken : sent[i] \notin Silent /\ i # request}
    <3>1. \A i \in 1..taken : i # request /\ i # request'
      BY <1>1, <2>1, McpAssumption
    <3>2. \A i \in 1..taken' : i \in 1..taken \/ i = taken + 1
      BY <1>1, <2>1
    <3>3. \A i \in 1..taken : i \in 1..taken'
      BY <1>1, <2>1
    <3>4. sent[taken + 1] \in Silent \/ request' = taken + 1
      BY <2>1
    <3> QED
      BY <3>1, <3>2, <3>3, <3>4
  <2> QED
    BY <2>1, <2>2 DEF AnsweredInTurn
<1>5. ASSUME request # None, NEW ok \in BOOLEAN, NEW version \in Versions \cup {None},
             Encode(ok, version), UNCHANGED <<sent, taken, floor>>, session # "ended"
      PROVE  AnsweredInTurn'
  <2> SUFFICES ASSUME session' # "ended" PROVE AnsweredInTurn'
    BY DEF AnsweredInTurn
  <2> DEFINE answer == [id |-> request, ok |-> ok, version |-> version, floor |-> floor]
  <2>1. answers' = Append(answers, answer) /\ request' = None
    BY <1>5, EncodeTypes
  <2>2. /\ DOMAIN answers' = 1..(Len(answers) + 1) /\ DOMAIN answers = 1..Len(answers)
        /\ Len(answers) \in Nat /\ answers'[Len(answers) + 1].id = request
        /\ \A n \in 1..Len(answers) : answers'[n] = answers[n]
    BY <1>1, <2>1
  <2>3. request = taken /\ taken >= 1 /\ sent[request] \notin Silent
    BY <1>5 DEF TypeInv, TypeOK, Waiting
  <2>4. {answers[n].id : n \in DOMAIN answers} =
            {i \in 1..taken : sent[i] \notin Silent /\ i # request}
    BY <1>5 DEF AnsweredInTurn
  <2>5. \A n \in DOMAIN answers : answers[n].id \in Int /\ answers[n].id < request
    <3>1. \A n \in DOMAIN answers : answers[n].id \in 1..taken /\ answers[n].id # request
      BY <2>4
    <3> QED
      BY <1>1, <2>3, <3>1
  <2>6. \A n, m \in DOMAIN answers' : n < m => answers'[n].id < answers'[m].id
    <3> SUFFICES ASSUME NEW n \in DOMAIN answers', NEW m \in DOMAIN answers', n < m
                 PROVE  answers'[n].id < answers'[m].id
      OBVIOUS
    <3>1. n \in DOMAIN answers
      BY <2>2
    <3>2. CASE m \in DOMAIN answers
      BY <1>5, <2>2, <3>1, <3>2 DEF AnsweredInTurn
    <3>3. CASE m = Len(answers) + 1
      BY <2>2, <2>5, <3>1, <3>3
    <3> QED
      BY <2>2, <3>2, <3>3
  <2>7. {answers'[n].id : n \in DOMAIN answers'} = {answers[n].id : n \in DOMAIN answers} \cup {request}
    <3>1. \A n \in DOMAIN answers' : n \in DOMAIN answers \/ n = Len(answers) + 1
      BY <2>2
    <3>2. Len(answers) + 1 \in DOMAIN answers' /\ \A n \in DOMAIN answers : n \in DOMAIN answers'
      BY <2>2
    <3> QED
      BY <2>2, <3>1, <3>2
  <2>8. {i \in 1..taken : sent[i] \notin Silent /\ i # request} \cup {request}
        = {i \in 1..taken : sent[i] \notin Silent /\ i # None}
    <3>1. request \in 1..taken /\ \A i \in 1..taken : i # None
      BY <1>1, <2>3, McpAssumption
    <3> QED
      BY <2>3, <3>1
  <2> QED
    BY <1>5, <2>1, <2>4, <2>6, <2>7, <2>8 DEF AnsweredInTurn
<1>6. CASE AnswerAtOnce
  BY <1>5, <1>6 DEF AnswerAtOnce
<1>7. CASE AnswerTool \/ FailTool
  <2>1. call["mcp"] # "none" /\ arg["mcp"] \in Versions
    BY <1>7 DEF AnswerTool, FailTool, Index!Answer, Index!Reject, TypeInv, TypeOK, Actors
  <2>2. request # None
    BY <2>1 DEF TypeInv, Waiting
  <2>3. CASE session = "ended"
    BY <1>7, <2>3 DEF AnswerTool, FailTool, Encode, AnsweredInTurn
  <2>4. CASE session # "ended"
    BY <1>5, <1>7, <2>1, <2>2, <2>4 DEF AnswerTool, FailTool
  <2> QED
    BY <2>3, <2>4
<1> QED
  BY <1>2, <1>3, <1>4, <1>6, <1>7 DEF Next, Serve

\* Every line that has an answer coming gets it, once and in its turn.
THEOREM AlwaysAnsweredInTurn == Spec => []AnsweredInTurn
<1>1. Init => AnsweredInTurn
  BY DEF Init, AnsweredInTurn
<1> QED
  BY <1>1, InitTypes, StepTypes, StepInTurn, PTL DEF Spec

\* Tools and other processes call the index only as AtomicIndex has it, and it does
\* nothing here that AtomicIndex, which the store implements, does not do
\* (server.go, call).
THEOREM UsesTheIndex == Spec => Index!Spec
<1>1. Init => Index!Init
  BY DEF Init
<1>2. [Next]_vars => [Index!Next]_Index!vars
  <2> SUFFICES ASSUME Next \/ UNCHANGED vars PROVE Index!Next \/ UNCHANGED Index!vars
    OBVIOUS
  <2> USE DEF Index!vars
  <2>1. ASSUME NEW a \in Actors,
               \/ Index!CallReplace(a) \/ Index!TakeEffect(a) \/ Index!CallList(a)
               \/ Index!Observe(a) \/ Index!Reject(a) \/ Index!Answer(a)
        PROVE  Index!Next
    BY <2>1 DEF Index!Next
  <2>2. "mcp" \in Actors /\ "other" \in Actors
    BY DEF Actors
  <2>3. CASE \/ ReadLine \/ EndOfInput \/ AnswerAtOnce \/ CloseInput \/ EditWorkspace
             \/ \E method \in Methods : Send(method)
    BY <2>3 DEF ReadLine, EndOfInput, AnswerAtOnce, CloseInput, EditWorkspace, Send, indexVars
  <2>4. CASE CallTool \/ Work \/ AnswerTool \/ FailTool
    BY <2>1, <2>2, <2>4 DEF CallTool, Work, AnswerTool, FailTool
  <2>5. CASE OtherRefresh
    BY <2>1, <2>2, <2>5 DEF OtherRefresh
  <2>6. CASE UNCHANGED vars
    BY <2>6 DEF vars
  <2> QED
    BY <2>3, <2>4, <2>5, <2>6 DEF Next, Serve
<1> QED
  BY <1>1, <1>2, PTL DEF Spec, Index!Spec

-----------------------------------------------------------------------------
(* Settings: the inductive invariant *)

\* What environment and flags say never changes.
Given ==
    /\ env \in [workspace : Dirs \cup {NotGiven}, config : {NotGiven, Team}, value : EnvValues]
    /\ args \in [workspace : WorkspaceArgs, config : {NotGiven, Team},
                 value : {NotGiven, FromFlag, Invalid}]
    /\ NamedTwice \/ /\ env.workspace = NotGiven \/ args.workspace = <<>>
                     /\ env.config = NotGiven \/ args.config = NotGiven

\* init has settings of its own; until a file is edited, the other commands'
\* are what the files still say.
Settled ==
    /\ pc \in {"checked", "written"} => command = "init"
    /\ pc \in {"start", "checked", "written", "failed"} => report = NotGiven
    /\ pc = "ready" /\ command # "init" /\ edits = 0 =>
         settings = FlagSettings /\ settings.value # Failed

SettingsInv == SettingsTypeOK /\ Given /\ Settled

\* Settings before it is known whether they are good.
Draft == [workspace : Dirs, base : Dirs, explicitConfig : {NotGiven, Team},
          value : Values \cup {Failed}]

-----------------------------------------------------------------------------
(* Settings: the operators *)

\* A value tells the place it comes from.
LEMMA ValuesDiffer ==
    /\ \A v \in Values : v # Failed /\ v # NotGiven
    /\ \A f \in Files : f \notin {Default, Invalid, Empty, FromEnv, FromFlag} /\ f \in Values
    /\ {Default, Invalid, Empty, FromEnv, FromFlag} \subseteq Values
    /\ Default # Invalid /\ Default # Empty /\ Invalid # Empty
    /\ FromEnv # Invalid /\ FromEnv # Empty /\ FromFlag # Invalid /\ FromFlag # Empty
    /\ \A d \in Dirs : Shared(d) \in Files /\ Local(d) \in Files
    /\ Team \in Files
  BY SettingsAssumption
     DEF Values, Files, Default, Invalid, Empty, Failed, FromEnv, FromFlag, Shared, Local, Team

\* What the files of a workspace, or the one in their place, make of the default.
Layered(d, explicit) ==
    IF explicit # NotGiven THEN Overlay(Default, explicit)
    ELSE Overlay(Overlay(Default, Shared(d)), Local(d))

LEMMA OverlaidIsLayered ==
    ASSUME NEW d, NEW explicit
    PROVE  Overlaid(ConfigPaths(d, explicit)) = Layered(d, explicit)
  BY DEF Overlaid, ConfigPaths, Layered

LEMMA OverlayType ==
    ASSUME NEW value \in Values, NEW f \in Files
    PROVE  Overlay(value, f) \in Values
  BY ValuesDiffer DEF Overlay

\* LoadWorkspace fails, or has a value which is in range.
LEMMA Loaded ==
    ASSUME NEW d \in Dirs, NEW explicit \in {NotGiven, Team}
    PROVE  /\ LoadWorkspace(d, explicit) \in Values \cup {Failed}
           /\ LoadWorkspace(d, explicit) # Failed =>
                LoadWorkspace(d, explicit) = Normalize(Layered(d, explicit))
           /\ option \in Validated => LoadWorkspace(d, explicit) \notin {Invalid, Empty}
<1> DEFINE value == Normalize(Layered(d, explicit))
<1>1. value \in Values
  <2>1. Layered(d, explicit) \in Values
    BY OverlayType, ValuesDiffer DEF Layered
  <2> QED
    BY <2>1, ValuesDiffer DEF Normalize
<1>2. /\ LoadWorkspace(d, explicit) \in {Failed, value}
      /\ LoadWorkspace(d, explicit) # Failed => IsValid(value)
  BY OverlaidIsLayered, Zenon DEF LoadWorkspace
<1>3. Failed \notin {Invalid, Empty}
  BY ValuesDiffer
<1> QED
  BY <1>1, <1>2, <1>3 DEF IsValid

LEMMA WorkspaceFlag ==
    ASSUME Given, NEW d \in Dirs
    PROVE  FirstOr(args.workspace, d) \in Dirs /\ LastOr(args.workspace, d) \in Dirs
<1>1. args.workspace \in Seq(Dirs)
  BY SettingsAssumption DEF Given
<1> QED
  BY <1>1 DEF FirstOr, LastOr

LEMMA DefaultSettingsType ==
    ASSUME Given, NEW d \in Dirs, NEW explicit \in {NotGiven, Team}
    PROVE  /\ DefaultSettings(d, explicit) \in Draft
           /\ DefaultSettings(d, explicit).workspace = EnvOr(env.workspace, d)
           /\ DefaultSettings(d, explicit).base = EnvOr(env.workspace, d)
           /\ DefaultSettings(d, explicit).explicitConfig = explicit
           /\ DefaultSettings(d, explicit).value =
                WithEnv(LoadWorkspace(EnvOr(env.workspace, d), explicit))
<1>1. EnvOr(env.workspace, d) \in Dirs
  BY DEF Given, EnvOr
<1>2. WithEnv(LoadWorkspace(EnvOr(env.workspace, d), explicit)) \in Values \cup {Failed}
  <2>1. LoadWorkspace(EnvOr(env.workspace, d), explicit) \in Values \cup {Failed}
    BY <1>1, Loaded
  <2> QED
    BY <2>1, ValuesDiffer DEF WithEnv, EnvOr, EnvValues, Given
<1> QED
  BY <1>1, <1>2 DEF DefaultSettings, Draft

\* What the flags leave of it.
LEMMA FlagSettingsType ==
    ASSUME Given
    PROVE  LET d == FirstOr(args.workspace, Cwd)
               explicit == EnvOr(env.config, args.config)
               cfg == DefaultSettings(d, explicit)
           IN  /\ FlagSettings \in Draft
               /\ d \in Dirs /\ explicit \in {NotGiven, Team}
               /\ FlagSettings.value = Failed <=> cfg.value = Failed
               /\ cfg.value # Failed =>
                    /\ FlagSettings.workspace = LastOr(args.workspace, cfg.workspace)
                    /\ FlagSettings.base = cfg.base
                    /\ FlagSettings.explicitConfig = cfg.explicitConfig
                    /\ FlagSettings.value =
                         IF args.value # NotGiven THEN args.value ELSE cfg.value
<1> DEFINE d == FirstOr(args.workspace, Cwd)
           explicit == EnvOr(env.config, args.config)
           cfg == DefaultSettings(d, explicit)
           value == IF args.value # NotGiven THEN args.value ELSE cfg.value
           c1 == [cfg EXCEPT !.workspace = LastOr(args.workspace, cfg.workspace)]
           c2 == [c1 EXCEPT !.value = value]
<1>1. d \in Dirs /\ explicit \in {NotGiven, Team}
  BY SettingsAssumption, WorkspaceFlag DEF EnvOr, Given
<1>2. cfg \in Draft
  BY <1>1, DefaultSettingsType
<1>3. LastOr(args.workspace, cfg.workspace) \in Dirs
  BY <1>2, WorkspaceFlag DEF Draft
<1>4. value \in Values \cup {Failed} /\ (cfg.value # Failed => value # Failed)
  BY <1>2, ValuesDiffer DEF Given, Draft
<1>5. FlagSettings = IF cfg.value = Failed THEN cfg ELSE c2
  BY Zenon DEF FlagSettings
<1> HIDE DEF d, explicit, cfg, value
<1>6. /\ c1 \in Draft /\ c1.workspace = LastOr(args.workspace, cfg.workspace)
      /\ c1.base = cfg.base /\ c1.explicitConfig = cfg.explicitConfig
  BY <1>2, <1>3 DEF Draft
<1> HIDE DEF c1
<1>7. /\ c2 \in Draft /\ c2.workspace = c1.workspace /\ c2.value = value
      /\ c2.base = c1.base /\ c2.explicitConfig = c1.explicitConfig
  BY <1>4, <1>6 DEF Draft
<1> HIDE DEF c2
<1> QED
  <2>1. /\ FlagSettings \in Draft
        /\ FlagSettings.value = Failed <=> cfg.value = Failed
    BY <1>2, <1>4, <1>5, <1>7
  <2>2. cfg.value # Failed =>
          /\ FlagSettings.workspace = LastOr(args.workspace, cfg.workspace)
          /\ FlagSettings.base = cfg.base
          /\ FlagSettings.explicitConfig = cfg.explicitConfig
          /\ FlagSettings.value = value
    BY <1>5, <1>6, <1>7
  <2> QED
    BY <1>1, <2>1, <2>2 DEF d, explicit, cfg, value

-----------------------------------------------------------------------------
(* Settings: the steps *)

LEMMA InitSettled == SettingsInit => SettingsInv
<1> SUFFICES ASSUME SettingsInit PROVE SettingsInv
  OBVIOUS
<1>1. SettingsTypeOK
  BY SettingsAssumption DEF SettingsInit, SettingsTypeOK
<1>2. Given /\ Settled
  BY DEF SettingsInit, Given, Settled
<1> QED
  BY <1>1, <1>2 DEF SettingsInv

\* Good settings are adopted as they are, others end the process.
LEMMA Adopted ==
    ASSUME NEW cfg \in Draft, Adopt(cfg)
    PROVE  \/ pc' = "failed" /\ settings' = NotGiven
           \/ /\ pc' = "ready" /\ settings' = cfg /\ cfg.value # Failed
              /\ settings' \in SettingsType /\ settings' # NotGiven
<1>1. cfg.value # Failed => cfg \in SettingsType
  BY DEF Draft, SettingsType
<1> QED
  BY <1>1, SettingsAssumption DEF Adopt

\* What no step changes.
LEMMA GivenStays ==
    ASSUME Given, [SettingsNext]_settingsVars
    PROVE  Given' /\ UNCHANGED <<option, command, env, args>>
<1>1. UNCHANGED <<option, command, env, args>>
  BY DEF SettingsNext, settingsVars, Start, Refresh, Show, InitCheck, InitWrite, InitLoad, EditFile
<1> QED
  BY <1>1 DEF Given, EnvValues

\* What the flags make of the files is told by what does not change.
LEMMA FlagSettingsStay ==
    ASSUME UNCHANGED <<option, files, env, args>>
    PROVE  FlagSettings' = FlagSettings
<1> DEFINE d == FirstOr(args.workspace, Cwd)
           explicit == EnvOr(env.config, args.config)
           from == EnvOr(env.workspace, d)
<1>1. d' = d /\ explicit' = explicit /\ from' = from
  BY DEF FirstOr, EnvOr
<1>2. LoadWorkspace(from, explicit)' = LoadWorkspace(from, explicit)
  <2>1. Overlaid(ConfigPaths(from, explicit))' = Overlaid(ConfigPaths(from, explicit))
    BY <1>1 DEF Overlaid, Overlay, ConfigPaths
  <2>2. ConfigPaths(from, explicit)' = ConfigPaths(from, explicit)
    BY <1>1 DEF ConfigPaths
  <2> HIDE DEF from, explicit
  <2> QED
    BY <2>1, <2>2 DEF LoadWorkspace, Normalize, IsValid
<1>3. DefaultSettings(d, explicit)' = DefaultSettings(d, explicit)
  BY <1>1, <1>2 DEF DefaultSettings, WithEnv, EnvOr
<1> HIDE DEF d, explicit
<1> QED
  BY <1>3 DEF FlagSettings, LastOr, d, explicit

LEMMA StartStep == SettingsInv /\ Start => SettingsInv'
<1> SUFFICES ASSUME SettingsInv, Start PROVE SettingsInv'
  OBVIOUS
<1>1. /\ pc = "start" /\ command # "init" /\ Adopt(FlagSettings)
      /\ UNCHANGED <<option, command, files, env, args, report, edits>>
  BY DEF Start
<1>2. FlagSettings \in Draft /\ FlagSettings' = FlagSettings
  BY <1>1, FlagSettingsType, FlagSettingsStay DEF SettingsInv
<1>3. \/ pc' = "failed" /\ settings' = NotGiven
      \/ /\ pc' = "ready" /\ settings' = FlagSettings /\ FlagSettings.value # Failed
         /\ settings' \in SettingsType /\ settings' # NotGiven
  BY <1>1, <1>2, Adopted
<1>4. SettingsTypeOK'
  BY <1>1, <1>3 DEF SettingsInv, SettingsTypeOK
<1>5. Given'
  BY <1>1 DEF SettingsInv, Given, EnvValues
<1>6. Settled'
  <2>1. report' = NotGiven
    BY <1>1 DEF SettingsInv, Settled
  <2> QED
    BY <1>1, <1>2, <1>3, <2>1 DEF Settled
<1> QED
  BY <1>4, <1>5, <1>6 DEF SettingsInv

LEMMA ReportStep == SettingsInv /\ (Refresh \/ Show) => SettingsInv'
<1> SUFFICES ASSUME SettingsInv, Refresh \/ Show PROVE SettingsInv'
  OBVIOUS
<1>1. /\ pc = "ready" /\ pc' \in {"ready", "done"}
      /\ UNCHANGED <<option, command, files, env, args, settings, edits>>
  BY DEF Refresh, Show
<1>2. settings \in SettingsType
  BY <1>1 DEF SettingsInv, SettingsTypeOK
<1>3. LoadWorkspace(settings.workspace, settings.explicitConfig) \in Values \cup {Failed}
  BY <1>2, Loaded DEF SettingsType
<1>4. report' \in ReportType
  <2>1. FirstOr(args.workspace, Cwd) \in Dirs
    BY WorkspaceFlag, SettingsAssumption DEF SettingsInv
  <2> QED
    BY <1>2, <1>3, <2>1 DEF Refresh, Show, ReportType, SettingsType
<1>5. SettingsTypeOK'
  BY <1>1, <1>4 DEF SettingsInv, SettingsTypeOK
<1>6. Given'
  BY <1>1 DEF SettingsInv, Given, EnvValues
<1>7. Settled'
  <2>1. FlagSettings' = FlagSettings
    BY <1>1, FlagSettingsStay
  <2> QED
    BY <1>1, <2>1 DEF SettingsInv, Settled
<1> QED
  BY <1>5, <1>6, <1>7 DEF SettingsInv

LEMMA InitSteps == SettingsInv /\ (InitCheck \/ InitWrite \/ InitLoad) => SettingsInv'
<1> SUFFICES ASSUME SettingsInv, InitCheck \/ InitWrite \/ InitLoad PROVE SettingsInv'
  OBVIOUS
<1>1. UNCHANGED <<option, command, env, args, report, edits>> /\ command = "init"
  BY DEF InitCheck, InitWrite, InitLoad, SettingsInv, Settled
<1>2. Given'
  BY <1>1 DEF SettingsInv, Given, EnvValues
<1>3. CASE InitCheck
  <2>1. pc = "start" /\ pc' \in {"checked", "failed"} /\ UNCHANGED <<files, settings>>
    BY <1>3 DEF InitCheck
  <2> QED
    BY <1>1, <1>2, <2>1 DEF SettingsInv, SettingsTypeOK, Settled
<1>4. CASE InitWrite
  <2>1. pc = "checked" /\ pc' = "written" /\ UNCHANGED settings
    BY <1>4 DEF InitWrite
  <2>2. files' \in [Files -> Texts]
    BY <1>4 DEF InitWrite, SettingsInv, SettingsTypeOK, Texts
  <2> QED
    BY <1>1, <1>2, <2>1, <2>2 DEF SettingsInv, SettingsTypeOK, Settled
<1>5. CASE InitLoad
  <2> DEFINE cfg == DefaultSettings(FirstOr(args.workspace, Cwd), NotGiven)
  <2>1. pc = "written" /\ Adopt(cfg) /\ UNCHANGED files
    BY <1>5 DEF InitLoad
  <2>2. cfg \in Draft
    BY WorkspaceFlag, SettingsAssumption, DefaultSettingsType DEF SettingsInv
  <2>3. \/ pc' = "failed" /\ settings' = NotGiven
        \/ pc' = "ready" /\ settings' \in SettingsType /\ settings' # NotGiven
    BY <2>1, <2>2, Adopted
  <2>4. report = NotGiven
    BY <2>1 DEF SettingsInv, Settled
  <2> QED
    BY <1>1, <1>2, <2>1, <2>3, <2>4 DEF SettingsInv, SettingsTypeOK, Settled
<1> QED
  BY <1>3, <1>4, <1>5

LEMMA EditStep == SettingsInv /\ (\E f \in Files : EditFile(f)) => SettingsInv'
<1> SUFFICES ASSUME SettingsInv, NEW f \in Files, EditFile(f) PROVE SettingsInv'
  OBVIOUS
<1>1. /\ edits < MaxEdits /\ edits' = edits + 1
      /\ UNCHANGED <<option, command, env, args, pc, settings, report>>
  BY DEF EditFile
<1>2. files' \in [Files -> Texts]
  BY SettingsAssumption DEF EditFile, SettingsInv, SettingsTypeOK
<1>3. edits' \in 0..MaxEdits /\ edits' # 0
  BY <1>1, SettingsAssumption DEF SettingsInv, SettingsTypeOK
<1> QED
  BY <1>1, <1>2, <1>3 DEF SettingsInv, SettingsTypeOK, Given, EnvValues, Settled

LEMMA SettingsStutter == SettingsInv /\ UNCHANGED settingsVars => SettingsInv'
<1> SUFFICES ASSUME SettingsInv, UNCHANGED settingsVars PROVE SettingsInv'
  OBVIOUS
<1>1. FlagSettings' = FlagSettings
  BY FlagSettingsStay DEF settingsVars
<1> QED
  BY <1>1 DEF settingsVars, SettingsInv, SettingsTypeOK, Given, EnvValues, Settled

\* The inductive invariant holds in every reachable state.
THEOREM SettingsInvariance == SettingsSpec => []SettingsInv
<1>1. SettingsInv /\ [SettingsNext]_settingsVars => SettingsInv'
  BY StartStep, ReportStep, InitSteps, EditStep, SettingsStutter DEF SettingsNext
<1> QED
  BY <1>1, InitSettled, PTL DEF SettingsSpec

-----------------------------------------------------------------------------
(* Settings: the theorems *)

\* Files, settings and reports keep their types (main.go, settings).
THEOREM SettingsTypeCorrect == SettingsSpec => []SettingsTypeOK
<1>1. SettingsInv => SettingsTypeOK
  BY DEF SettingsInv
<1> QED
  BY <1>1, SettingsInvariance, PTL

\* The value of settings that were adopted: the flag's, the environment's, or one
\* that LoadWorkspace let through.
LEMMA ValueInForce ==
    ASSUME Given, NEW d \in Dirs, NEW explicit \in {NotGiven, Team},
           WithEnv(LoadWorkspace(d, explicit)) \in {Invalid, Empty}, option \in Validated
    PROVE  env.value = Invalid
<1>1. LoadWorkspace(d, explicit) \notin {Invalid, Empty}
  BY Loaded
<1>2. Failed \notin {Invalid, Empty} /\ FromEnv \notin {Invalid, Empty}
  BY ValuesDiffer
<1> QED
  BY <1>1, <1>2 DEF WithEnv, EnvOr, Given, EnvValues

\* A value out of range gets no further than the file it is in, unless environment
\* or flags give it (config.go, Validate), whatever is edited meanwhile.
THEOREM AlwaysInvalidOnlyByOverride == SettingsSpec => []InvalidOnlyByOverride
<1>1. SettingsInit => InvalidOnlyByOverride
  BY DEF SettingsInit, InvalidOnlyByOverride
<1>2. SettingsInv /\ InvalidOnlyByOverride /\ [SettingsNext]_settingsVars
      => InvalidOnlyByOverride'
  <2> SUFFICES ASSUME SettingsInv, InvalidOnlyByOverride, [SettingsNext]_settingsVars,
                      option \in Validated
               PROVE  InvalidOnlyByOverride'
    BY GivenStays DEF SettingsInv, InvalidOnlyByOverride
  <2>1. Given /\ UNCHANGED <<option, command, env, args>>
    BY GivenStays DEF SettingsInv
  <2>2. CASE Start
    <3> DEFINE d == FirstOr(args.workspace, Cwd)
               explicit == EnvOr(env.config, args.config)
               cfg == DefaultSettings(d, explicit)
    <3>1. /\ FlagSettings \in Draft /\ d \in Dirs /\ explicit \in {NotGiven, Team}
          /\ FlagSettings.value = Failed <=> cfg.value = Failed
          /\ cfg.value # Failed =>
               FlagSettings.value = IF args.value # NotGiven THEN args.value ELSE cfg.value
      BY <2>1, FlagSettingsType
    <3>2. pc' = "failed" \/ (settings' = FlagSettings /\ FlagSettings.value # Failed)
      <4>1. Adopt(FlagSettings)
        BY <2>2 DEF Start
      <4> QED
        BY <3>1, <4>1, Adopted
    <3>3. cfg.value = WithEnv(LoadWorkspace(EnvOr(env.workspace, d), explicit))
      BY <2>1, <3>1, DefaultSettingsType
    <3>4. EnvOr(env.workspace, d) \in Dirs
      BY <2>1, <3>1 DEF EnvOr, Given
    <3>5. cfg.value \in {Invalid, Empty} => env.value = Invalid
      BY <2>1, <3>1, <3>3, <3>4, ValueInForce
    <3>6. args.value \in {Invalid, Empty} => args.value = Invalid
      BY <2>1, ValuesDiffer DEF Given
    <3>7. report' = NotGiven
      BY <2>2 DEF Start, SettingsInv, Settled
    <3> HIDE DEF d, explicit, cfg
    <3> QED
      BY <2>1, <3>1, <3>2, <3>5, <3>6, <3>7 DEF InvalidOnlyByOverride
  <2>3. CASE InitLoad
    <3> DEFINE d == FirstOr(args.workspace, Cwd)
               cfg == DefaultSettings(d, NotGiven)
    <3>1. d \in Dirs
      BY <2>1, WorkspaceFlag, SettingsAssumption
    <3>2. cfg \in Draft /\ cfg.value = WithEnv(LoadWorkspace(EnvOr(env.workspace, d), NotGiven))
      BY <2>1, <3>1, DefaultSettingsType
    <3>3. pc' = "failed" \/ settings' = cfg
      BY <2>3, <3>2, Adopted DEF InitLoad
    <3>4. EnvOr(env.workspace, d) \in Dirs
      BY <2>1, <3>1 DEF EnvOr, Given
    <3>5. cfg.value \in {Invalid, Empty} => env.value = Invalid
      BY <2>1, <3>2, <3>4, ValueInForce
    <3>6. report' = NotGiven
      BY <2>3 DEF InitLoad, SettingsInv, Settled
    <3> HIDE DEF cfg
    <3> QED
      BY <2>1, <3>3, <3>5, <3>6 DEF InvalidOnlyByOverride
  <2>4. CASE Refresh \/ Show
    <3>1. pc = "ready" /\ UNCHANGED settings /\ settings \in SettingsType
      BY <2>4 DEF Refresh, Show, SettingsInv, SettingsTypeOK
    <3>2. report'.value = LoadWorkspace(settings.workspace, settings.explicitConfig)
      BY <2>4 DEF Refresh, Show
    <3>3. report'.value \notin {Invalid, Empty}
      BY <3>1, <3>2, Loaded DEF SettingsType
    <3> QED
      BY <2>1, <3>1, <3>3 DEF InvalidOnlyByOverride
  <2>5. CASE InitCheck \/ InitWrite
    BY <2>1, <2>5 DEF InitCheck, InitWrite, InvalidOnlyByOverride
  <2>6. CASE (\E f \in Files : EditFile(f)) \/ UNCHANGED settingsVars
    BY <2>1, <2>6 DEF EditFile, settingsVars, InvalidOnlyByOverride
  <2> QED
    BY <2>2, <2>3, <2>4, <2>5, <2>6 DEF SettingsNext
<1> QED
  BY <1>1, <1>2, SettingsInvariance, PTL DEF SettingsSpec

\* The workspace is named once: --workspace is not repeated, and the environment
\* does not name another (where it does, see the divergences in the README).
NamedOnce == NamedTwice = FALSE /\ \A s \in WorkspaceArgs : Len(s) <= 1

LEMMA OneWorkspace ==
    ASSUME NamedOnce, Given
    PROVE  \A d \in Dirs :
             LET loaded == EnvOr(env.workspace, FirstOr(args.workspace, d))
             IN  /\ LastOr(args.workspace, loaded) = loaded
                 /\ loaded = LastOr(args.workspace, EnvOr(env.workspace, d))
<1>1. args.workspace \in Seq(Dirs) /\ Len(args.workspace) <= 1
  BY SettingsAssumption DEF NamedOnce, Given
<1>2. CASE args.workspace = <<>>
  BY <1>2 DEF FirstOr, LastOr
<1>3. CASE args.workspace # <<>>
  <2>1. env.workspace = NotGiven
    BY <1>3 DEF NamedOnce, Given
  <2>2. Len(args.workspace) \in Nat \ {0}
    BY <1>1, <1>3, EmptySeq
  <2>3. \A n \in Nat \ {0} : n <= 1 => n = 1
    OBVIOUS
  <2>4. Len(args.workspace) = 1
    BY <1>1, <2>2, <2>3, Zenon
  <2> QED
    BY <1>1, <1>3, <2>1, <2>4 DEF FirstOr, LastOr, EnvOr
<1> QED
  BY <1>2, <1>3

\* A relative database lies in the workspace that is scanned into it, for all that
\* the workspace is looked for twice (main.go, defaultSettings and commandFlags).
THEOREM DatabaseAlwaysInWorkspace ==
    ASSUME NamedOnce
    PROVE  SettingsSpec => []DatabaseIsInWorkspace
<1>1. SettingsInit => DatabaseIsInWorkspace
  BY DEF SettingsInit, DatabaseIsInWorkspace
<1>2. SettingsInv /\ DatabaseIsInWorkspace /\ [SettingsNext]_settingsVars
      => DatabaseIsInWorkspace'
  <2> SUFFICES ASSUME SettingsInv, DatabaseIsInWorkspace, [SettingsNext]_settingsVars
               PROVE  DatabaseIsInWorkspace'
    OBVIOUS
  <2>1. Given /\ Cwd \in Dirs
    BY SettingsAssumption DEF SettingsInv
  <2>2. CASE Start
    <3>1. FlagSettings \in Draft
      BY <2>1, FlagSettingsType
    <3>2. pc' = "failed" \/ (settings' = FlagSettings /\ FlagSettings.value # Failed)
      <4>1. Adopt(FlagSettings)
        BY <2>2 DEF Start
      <4> QED
        BY <3>1, <4>1, Adopted
    <3>3. FlagSettings.value # Failed => FlagSettings.base = FlagSettings.workspace
      BY <2>1, FlagSettingsType, DefaultSettingsType, OneWorkspace
    <3>4. report' = NotGiven
      BY <2>2 DEF Start, SettingsInv, Settled
    <3> QED
      BY <3>2, <3>3, <3>4 DEF DatabaseIsInWorkspace
  <2>3. CASE InitLoad
    <3> DEFINE cfg == DefaultSettings(FirstOr(args.workspace, Cwd), NotGiven)
    <3>1. cfg \in Draft /\ cfg.base = cfg.workspace
      BY <2>1, WorkspaceFlag, DefaultSettingsType
    <3>2. pc' = "failed" \/ settings' = cfg
      BY <2>3, <3>1, Adopted DEF InitLoad
    <3>3. report' = NotGiven
      BY <2>3 DEF InitLoad, SettingsInv, Settled
    <3> HIDE DEF cfg
    <3> QED
      BY <3>1, <3>2, <3>3 DEF DatabaseIsInWorkspace
  <2>4. CASE Refresh \/ Show
    <3>1. pc = "ready" /\ UNCHANGED settings /\ report'.scanned = settings.workspace
      BY <2>4 DEF Refresh, Show
    <3> QED
      BY <3>1 DEF DatabaseIsInWorkspace
  <2>5. CASE InitCheck \/ InitWrite
    BY <2>5 DEF InitCheck, InitWrite, DatabaseIsInWorkspace
  <2>6. CASE (\E f \in Files : EditFile(f)) \/ UNCHANGED settingsVars
    BY <2>6 DEF EditFile, settingsVars, DatabaseIsInWorkspace
  <2> QED
    BY <2>2, <2>3, <2>4, <2>5, <2>6 DEF SettingsNext
<1> QED
  BY <1>1, <1>2, SettingsInvariance, PTL DEF SettingsSpec

\* What a file gives its layer.
Says(f) == CASE files[f] = "own" -> f
             [] files[f] = "empty" -> Empty
             [] files[f] = "invalid" -> Invalid
             [] files[f] = "rendered" -> Default
             [] OTHER -> NotGiven

LEMMA SaysOrLeaves ==
    ASSUME NEW f \in Files, NEW value
    PROVE  /\ Says(f) # NotGiven => Overlay(value, f) = Says(f)
           /\ Says(f) = NotGiven => Overlay(value, f) = value
  BY ValuesDiffer DEF Says, Overlay

\* The layers of the files, apart from those above them.
FileLayers ==
    IF ConfigByRank # NotGiven
    THEN {<<3, Says(ConfigByRank)>>}
    ELSE {<<2, Says(Shared(WorkspaceByRank))>>, <<3, Says(Local(WorkspaceByRank))>>}

LEMMA LayersAre ==
    Layers = {<<1, Default>>} \cup FileLayers \cup {<<4, env.value>>, <<5, args.value>>}
  BY DEF Layers, FileLayers, Says

LEMMA FileRanks == \A layer \in FileLayers : layer[1] \in {2, 3}
<1>1. CASE ConfigByRank # NotGiven
  BY <1>1 DEF FileLayers
<1>2. CASE ConfigByRank = NotGiven
  BY <1>2 DEF FileLayers
<1> QED
  BY <1>1, <1>2

\* A layer above all the others that are given is the highest.
LEMMA TopLayer ==
    ASSUME NEW top \in Layers, top[2] # NotGiven,
           \A other \in Layers : other[2] # NotGiven => other = top \/ other[1] < top[1]
    PROVE  Highest = top
<1> DEFINE given == {layer \in Layers : layer[2] # NotGiven}
<1>1. \A layer \in Layers : layer[1] \in Int
  BY LayersAre DEF FileLayers
<1>2. \A layer \in given : layer = top \/ (layer[1] < top[1] /\ layer[1] \in Int)
  BY <1>1
<1>3. top \in given /\ top[1] \in Int
  BY <1>1
<1>4. \A other \in given : other[1] <= top[1]
  BY <1>2, <1>3
<1>5. Highest = CHOOSE layer \in given : \A other \in given : other[1] <= layer[1]
  BY DEF Highest
<1> HIDE DEF given
<1>6. Highest \in given /\ top[1] <= Highest[1]
  BY <1>3, <1>4, <1>5
<1>7. \A n, m \in Int : n < m => ~ (m <= n)
  OBVIOUS
<1> QED
  BY <1>2, <1>3, <1>6, <1>7

\* The highest layer, from the top.
LEMMA HighestIs ==
    ASSUME Given, SettingsTypeOK, ConfigByRank \in {NotGiven, Team}, WorkspaceByRank \in Dirs
    PROVE  Normalize(Highest[2]) =
             IF args.value # NotGiven THEN args.value
             ELSE EnvOr(env.value, Normalize(Layered(WorkspaceByRank, ConfigByRank)))
<1>1. CASE args.value # NotGiven
  <2> DEFINE top == <<5, args.value>>
  <2>1. Highest = top
    <3>1. top \in Layers /\ top[1] = 5 /\ top[2] # NotGiven
      BY <1>1, LayersAre
    <3>2. \A other \in Layers : other[2] # NotGiven => other = top \/ other[1] < 5
      BY <1>1, LayersAre, FileRanks
    <3> HIDE DEF top
    <3> QED
      BY <3>1, <3>2, TopLayer
  <2>2. args.value # Empty
    BY <1>1, ValuesDiffer DEF Given
  <2> QED
    BY <1>1, <2>1, <2>2 DEF Normalize
<1>2. CASE args.value = NotGiven /\ env.value # NotGiven
  <2> DEFINE top == <<4, env.value>>
  <2>1. Highest = top
    <3>1. top \in Layers /\ top[1] = 4 /\ top[2] # NotGiven
      BY <1>2, LayersAre
    <3>2. \A other \in Layers : other[2] # NotGiven => other = top \/ other[1] < 4
      BY <1>2, LayersAre, FileRanks
    <3> HIDE DEF top
    <3> QED
      BY <3>1, <3>2, TopLayer
  <2>2. env.value # Empty
    BY <1>2, ValuesDiffer DEF Given, EnvValues
  <2> QED
    BY <1>2, <2>1, <2>2 DEF Normalize, EnvOr
<1>3. CASE args.value = NotGiven /\ env.value = NotGiven
  <2> DEFINE value == Layered(WorkspaceByRank, ConfigByRank)
  <2>1. Highest[2] = value
    <3>1. Default # NotGiven
      BY ValuesDiffer
    <3>2. CASE ConfigByRank # NotGiven
      <4> DEFINE file == Says(ConfigByRank)
      <4>1. ConfigByRank \in Files /\ value = Overlay(Default, ConfigByRank)
        BY <3>2, ValuesDiffer DEF Layered
      <4>. FileLayers = {<<3, file>>}
        BY <3>2 DEF FileLayers
      <4>2. CASE file # NotGiven
        <5>1. Highest = <<3, file>>
          BY <1>3, <4>2, LayersAre, TopLayer
        <5> QED
          BY <4>1, <4>2, <5>1, SaysOrLeaves
      <4>3. CASE file = NotGiven
        <5>1. Highest = <<1, Default>>
          BY <1>3, <3>1, <4>3, LayersAre, TopLayer
        <5> QED
          BY <4>1, <4>3, <5>1, SaysOrLeaves
      <4> QED
        BY <4>2, <4>3
    <3>3. CASE ConfigByRank = NotGiven
      <4> DEFINE shared == Says(Shared(WorkspaceByRank))
                 private == Says(Local(WorkspaceByRank))
      <4>1. /\ Shared(WorkspaceByRank) \in Files /\ Local(WorkspaceByRank) \in Files
            /\ value = Overlay(Overlay(Default, Shared(WorkspaceByRank)), Local(WorkspaceByRank))
        BY <3>3, ValuesDiffer DEF Layered
      <4>2. CASE private # NotGiven
        <5>1. Highest = <<3, private>>
          BY <1>3, <3>3, <4>2, LayersAre, TopLayer DEF FileLayers
        <5> QED
          BY <4>1, <4>2, <5>1, SaysOrLeaves
      <4>3. CASE private = NotGiven /\ shared # NotGiven
        <5>1. Highest = <<2, shared>>
          BY <1>3, <3>3, <4>3, LayersAre, TopLayer DEF FileLayers
        <5> QED
          BY <4>1, <4>3, <5>1, SaysOrLeaves
      <4>4. CASE private = NotGiven /\ shared = NotGiven
        <5>1. Highest = <<1, Default>>
          BY <1>3, <3>1, <3>3, <4>4, LayersAre, TopLayer DEF FileLayers
        <5> QED
          BY <4>1, <4>4, <5>1, SaysOrLeaves
      <4> QED
        BY <4>2, <4>3, <4>4
    <3> QED
      BY <3>2, <3>3
  <2> QED
    BY <1>3, <2>1 DEF EnvOr
<1> QED
  BY <1>1, <1>2, <1>3

\* The value in force, the workspace and the file are those of the highest layer
\* that gives them, in the order of docs/configuration.md (main.go, commandFlags).
THEOREM HighestLayerAlwaysWins ==
    ASSUME NamedOnce
    PROVE  SettingsSpec => []HighestLayerWins
<1>1. SettingsInv => HighestLayerWins
  <2> SUFFICES ASSUME SettingsInv, pc = "ready", command # "init", edits = 0
               PROVE  /\ settings.value = Normalize(Highest[2])
                      /\ settings.workspace = WorkspaceByRank
                      /\ settings.explicitConfig = ConfigByRank
    BY DEF HighestLayerWins
  <2> DEFINE d == FirstOr(args.workspace, Cwd)
             explicit == EnvOr(env.config, args.config)
             loaded == EnvOr(env.workspace, d)
             cfg == DefaultSettings(d, explicit)
             value == LoadWorkspace(loaded, explicit)
  <2>1. Given /\ SettingsTypeOK /\ Cwd \in Dirs
    BY SettingsAssumption DEF SettingsInv
  <2>2. settings = FlagSettings /\ FlagSettings.value # Failed
    BY DEF SettingsInv, Settled
  <2>3. d \in Dirs /\ explicit \in {NotGiven, Team} /\ loaded \in Dirs
    BY <2>1, FlagSettingsType DEF EnvOr, Given
  <2>4. loaded = WorkspaceByRank /\ LastOr(args.workspace, loaded) = loaded
    BY <2>1, OneWorkspace DEF WorkspaceByRank
  <2>5. explicit = ConfigByRank
    BY <2>1 DEF ConfigByRank, EnvOr, NamedOnce, Given
  <2>6. /\ cfg.workspace = loaded /\ cfg.explicitConfig = explicit
        /\ cfg.value = WithEnv(value)
    BY <2>1, <2>3, DefaultSettingsType
  <2>7. /\ cfg.value # Failed
        /\ settings.workspace = LastOr(args.workspace, cfg.workspace)
        /\ settings.explicitConfig = cfg.explicitConfig
        /\ settings.value = IF args.value # NotGiven THEN args.value ELSE cfg.value
    BY <2>1, <2>2, FlagSettingsType
  <2>8. value # Failed /\ cfg.value = EnvOr(env.value, value)
    BY <2>6, <2>7 DEF WithEnv
  <2>9. value = Normalize(Layered(loaded, explicit))
    BY <2>3, <2>8, Loaded
  <2> HIDE DEF d, explicit, loaded, cfg, value
  <2>10. settings.value = Normalize(Highest[2])
    BY <2>1, <2>3, <2>4, <2>5, <2>7, <2>8, <2>9, HighestIs
  <2> QED
    BY <2>4, <2>5, <2>6, <2>7, <2>10
<1> QED
  BY <1>1, SettingsInvariance, PTL
=============================================================================
