----------------------------- MODULE McpSession -----------------------------
(***************************************************************************)
(* A session of whichrepo mcp: Serve of internal/mcp/server.go reads one   *)
(* line after another, the tools of runMCP (cmd/whichrepo/main.go) answer, *)
(* and the index is the atomic one of AtomicIndex, which other processes   *)
(* refresh too.  The client sends lines ahead of the answers, of any kind, *)
(* and may close either end.                                               *)
(***************************************************************************)
EXTENDS Integers, Sequences

CONSTANTS
    MaxLines,       \* bound on the lines a client sends
    MaxVersion,     \* bound on the edits of the workspace
    Methods,        \* the kinds of lines
    None            \* nothing

Actors == {"mcp", "other"}
Versions == 0..MaxVersion

\* Of the index only its age counts: the version of the workspace it is of.
VARIABLES
    index, call, arg,   \* AtomicIndex
    disk,       \* the version of the workspace
    sent,       \* (auxiliary) every line the client has sent
    taken,      \* how many of them Serve has read
    request,    \* the position of the line that is handled, or None
    answers,    \* what the client was answered
    session,    \* open, closed (no more input), or ended
    floor       \* (auxiliary) the version of our last refresh, 0 after another's

Index == INSTANCE AtomicIndex WITH Contents <- Versions, Blank <- 0

indexVars == <<index, call, arg>>
vars == <<index, call, arg, disk, sent, taken, request, answers, session, floor>>

\* tool: a call of a tool that is not there; unknown: any other method, with or
\* without an id; notification: notifications/initialized.
AllMethods == {"initialize", "notification", "refresh", "list", "route", "status",
               "tool", "unknown", "malformed", "oversize"}
Silent == {"notification", "malformed", "oversize"}
Immediate == {"initialize", "tool", "unknown"}
Listing == {"list", "route", "status"}

AnswerType == [id : 1..MaxLines, ok : BOOLEAN, version : Versions \cup {None},
               floor : Versions]

ASSUME McpAssumption ==
    /\ MaxLines \in Nat /\ MaxVersion \in Nat
    /\ Methods \subseteq AllMethods
    /\ None \notin Int

TypeOK ==
    /\ index \in Versions /\ disk \in Versions
    /\ call \in [Actors -> Index!Phases] /\ arg \in [Actors -> Versions]
    /\ sent \in Seq(Methods) /\ Len(sent) <= MaxLines
    /\ taken \in 0..Len(sent)
    /\ request \in {None, taken}
    /\ answers \in Seq(AnswerType)
    /\ session \in {"open", "closed", "ended"}
    /\ floor \in Versions

Init ==
    /\ Index!Init
    /\ disk = 0
    /\ sent = <<>> /\ taken = 0 /\ request = None /\ answers = <<>>
    /\ session = "open" /\ floor = 0

-----------------------------------------------------------------------------
(* The client, the workspace, and other processes                          *)

Send(method) ==
    /\ session = "open" /\ Len(sent) < MaxLines
    /\ sent' = Append(sent, method)
    /\ UNCHANGED <<indexVars, disk, taken, request, answers, session, floor>>

CloseInput ==
    /\ session = "open" /\ session' = "closed"
    /\ UNCHANGED <<indexVars, disk, sent, taken, request, answers, floor>>

EditWorkspace ==
    /\ disk < MaxVersion /\ disk' = disk + 1
    /\ UNCHANGED <<indexVars, sent, taken, request, answers, session, floor>>

\* Another process refreshes the index; it may have scanned the workspace early.
OtherRefresh ==
    /\ \/ Index!CallReplace("other") /\ arg'["other"] = disk /\ UNCHANGED floor
       \/ Index!TakeEffect("other") /\ floor' = 0
       \/ call["other"] = "replacing" /\ Index!Reject("other") /\ UNCHANGED floor
       \/ call["other"] = "replaced" /\ Index!Answer("other") /\ UNCHANGED floor
    /\ UNCHANGED <<disk, sent, taken, request, answers, session>>

-----------------------------------------------------------------------------
(* The server                                                              *)

Method == sent[request]

\* Encode: the answer is written, or the client is gone and Serve returns.  Its id
\* is the request's (a number that a float64 holds, which rawID makes of it).
Encode(ok, version) ==
    /\ request' = None
    /\ \/ /\ answers' = Append(answers, [id |-> request, ok |-> ok, version |-> version,
                                         floor |-> floor])
          /\ UNCHANGED session
       \/ session' = "ended" /\ UNCHANGED answers

\* Mutation: reading ahead drops a line that is silent and the next.
ReadTwoLines ==
    /\ session # "ended" /\ request = None /\ taken < Len(sent)
    /\ IF sent[taken + 1] \in Silent /\ taken + 1 < Len(sent)
       THEN taken' = taken + 2 /\ UNCHANGED request
       ELSE taken' = taken + 1 /\ request' = IF sent[taken + 1] \in Silent THEN None ELSE taken'
    /\ session' = IF sent[taken + 1] = "oversize" THEN "ended" ELSE session
    /\ UNCHANGED <<indexVars, disk, sent, answers, floor>>

\* Mutation: lines are counted from zero.
ReadLineFromZero ==
    /\ session # "ended" /\ request = None /\ taken < Len(sent)
    /\ taken' = taken + 1
    /\ request' = IF sent[taken + 1] \in Silent THEN None ELSE taken
    /\ session' = IF sent[taken + 1] = "oversize" THEN "ended" ELSE session
    /\ UNCHANGED <<indexVars, disk, sent, answers, floor>>

\* scanner.Scan: a line that is no JSON is skipped without an answer, and one
\* beyond the buffer's 4 MB ends the session.
ReadLine ==
    /\ session # "ended" /\ request = None /\ taken < Len(sent)
    /\ taken' = taken + 1
    /\ request' = IF sent[taken + 1] \in Silent THEN None ELSE taken + 1
    /\ session' = IF sent[taken + 1] = "oversize" THEN "ended" ELSE session
    /\ UNCHANGED <<indexVars, disk, sent, answers, floor>>

\* The input is at its end, and Serve returns.
EndOfInput ==
    /\ session = "closed" /\ request = None /\ taken = Len(sent)
    /\ session' = "ended"
    /\ UNCHANGED <<indexVars, disk, sent, taken, request, answers, floor>>

\* handle, for what needs no tool.
AnswerAtOnce ==
    /\ session # "ended" /\ request # None /\ Method \in Immediate
    /\ Encode(Method = "initialize", None)
    /\ UNCHANGED <<indexVars, disk, sent, taken, floor>>

\* call: a tool begins its work on the index; a refresh has scanned first.
CallTool ==
    /\ session # "ended" /\ request # None /\ call["mcp"] = "none"
    /\ \/ Method = "refresh" /\ Index!CallReplace("mcp") /\ arg'["mcp"] = disk
       \/ Method \in Listing /\ Index!CallList("mcp")
    /\ UNCHANGED <<disk, sent, taken, request, answers, session, floor>>

Work ==
    /\ \/ Index!TakeEffect("mcp") /\ floor' = arg["mcp"]
       \/ Index!Observe("mcp") /\ UNCHANGED floor
    /\ UNCHANGED <<disk, sent, taken, request, answers, session>>

\* Mutation: the answer has what the tool found when it was last asked.
AnswerToolFromCache ==
    /\ Index!Answer("mcp")
    /\ Encode(TRUE, IF Method = "list" /\ answers # <<>> THEN 0 ELSE arg["mcp"])
    /\ UNCHANGED <<disk, sent, taken, floor>>

AnswerTool ==
    /\ Index!Answer("mcp")
    /\ Encode(TRUE, arg["mcp"])
    /\ UNCHANGED <<disk, sent, taken, floor>>

\* Mutation: a tool that fails is tried again.
RetryTool ==
    /\ Index!Reject("mcp")
    /\ UNCHANGED <<disk, sent, taken, request, answers, session, floor>>

\* An error of a tool is a result with isError; workspaceStatus drops it and
\* counts no projects.
FailTool ==
    /\ Index!Reject("mcp")
    /\ Encode(Method = "status", None)
    /\ UNCHANGED <<disk, sent, taken, floor>>

Serve == ReadLine \/ EndOfInput \/ AnswerAtOnce \/ CallTool \/ Work \/ AnswerTool \/ FailTool

Next ==
    \/ Serve
    \/ \E method \in Methods : Send(method)
    \/ CloseInput \/ EditWorkspace \/ OtherRefresh

Spec == Init /\ [][Next]_vars

\* Serve is the only goroutine of its process, each tool comes to an end (those on
\* the index do, as RequestsEnd and RouteReturns say), and a client that does not
\* read its answers closes its end: Encode does not block for ever.
FairSpec == Spec /\ WF_vars(Serve)

-----------------------------------------------------------------------------
(* Properties *)

\* Every line that was read and has an answer coming has got it, once and in
\* its turn, before the next was read: none is skipped for a line that is
\* silent, and no other's answer comes in between.
AnsweredInTurn ==
    session # "ended" =>
        /\ {answers[n].id : n \in DOMAIN answers} =
                {i \in 1..taken : sent[i] \notin Silent /\ i # request}
        /\ \A n, m \in DOMAIN answers : n < m => answers[n].id < answers[m].id

\* A client whose refresh took effect finds in every later answer an index at
\* least as new, unless somebody else's refresh came in between.
SeesItsRefresh ==
    \A n \in DOMAIN answers :
        answers[n].version # None => answers[n].version >= answers[n].floor

\* What was sent is read and answered, or the session has ended: no tool that
\* fails, and no line that is silent, stops the ones behind it.
SessionGoesOn ==
    \A i \in 1..MaxLines :
        Len(sent) >= i ~> (taken >= i /\ request # i) \/ session = "ended"
=============================================================================
