---------------------------- MODULE RouteEngine ----------------------------
(***************************************************************************)
(* Router.Route of internal/router/router.go: one task routed over an      *)
(* index that other requests replace meanwhile (the atomic index that      *)
(* IndexStore implements), with the optional call of the decision provider *)
(* (module Gateway) and the merge of its answers into the local result.    *)
(*                                                                         *)
(* Projects are numbered in the alphabetical order of their names.  A task *)
(* is the set of the keyword classes it mentions; a score stands for the   *)
(* ranking value that Store.Search computes from the text.                 *)
(***************************************************************************)
EXTENDS Integers, Sequences, Gateway

CONSTANTS
    MaxProjects,    \* bound on the projects of an index
    Contents,       \* values of the index: project -> projects it depends on
    Scores,         \* ranking values; 0 is a project that does not match
    Tasks,          \* non-blank tasks: sets of keyword classes
    TopKs,          \* the top_k arguments
    Dimensions,     \* what the provider may call missing
    Replies,        \* answers of the provider
    Keys            \* is the provider's API key set, where a request is made?

Projects == 1..MaxProjects

\* The classes of keywords, in the order of applyLocalSignals' switch.
KeywordClasses == <<"reliability", "database", "configuration", "api", "bug_fix">>

\* A choice of the provider that names no project of the index, no choice at
\* all, and the empty primary of a result without candidates.
Invented == 0
NoChoice == -1
Nobody == -2

\* One reply: each answer may be absent. relevant holds the ranks i whose
\* candidate_i_relevant is at least 0.6.
ReplyType == [choice : Projects \cup {Invented, NoChoice},
              probable : SUBSET Projects,
              relevant : SUBSET Projects,
              cross : {"absent", "yes", "no"},
              clarify : {"absent", "yes", "no"},
              change : {"absent", "timeout"},
              missing : SUBSET Dimensions]

ASSUME RouteAssumption ==
    /\ MaxProjects \in Nat
    /\ Contents \subseteq UNION {[names -> SUBSET Projects] : names \in SUBSET Projects}
    /\ Contents # {}
    /\ Scores \subseteq Nat
    /\ TopKs \subseteq Int
    /\ Tasks \subseteq SUBSET {KeywordClasses[i] : i \in 1..5}
    /\ Replies \subseteq ReplyType
    /\ Keys \subseteq BOOLEAN

VARIABLES
    index,      \* the value of the index now
    pc,         \* where Route is
    task,       \* the requirement: a set of keyword classes, or Blank
    topK,       \* the limit, as normalised
    ranked,     \* the candidates, best first, with their scores
    result,     \* the RouteResult under construction
    local       \* (auxiliary) the result before the provider was asked

routeVars == <<pc, task, topK, ranked, result, local>>
vars == <<index, routeVars, gatewayVars>>

\* A requirement of white space only.
Blank == {"blank"}

Candidate == [project : Projects, score : Scores]
Ranks == 1..MaxProjects

\* linked and relevant are the ranks of the candidates that applyLocalSignals
\* and applyJev append to RelatedProjects, in this order.
NoResult ==
    [mode |-> "none", decider |-> "none", status |-> "none", primary |-> Nobody,
     linked |-> {}, relevant |-> {}, cross |-> "unset", clarify |-> "unset",
     change |-> "unset", semantic |-> {}, missing |-> {}, warnings |-> 0]

Flags == {"unset", "yes", "no"}

Results ==
    [mode : {"none", "local_retrieval_only", "semantic_routed"},
     decider : {"none", "local", "jev"},
     status : {"none", "not_called", "disabled_missing_api_key"} \cup Outcomes,
     primary : Projects \cup {Invented, Nobody},
     linked : SUBSET Ranks,
     relevant : SUBSET Ranks,
     cross : Flags,
     clarify : Flags,
     change : {"unset", "other", "timeout"} \cup {KeywordClasses[i] : i \in 1..5},
     semantic : SUBSET Projects,
     missing : SUBSET Dimensions,
     warnings : 0..1]

TypeOK ==
    /\ index \in Contents
    /\ pc \in {"idle", "searching", "linking", "asking", "answered", "refused"}
    /\ task \in Tasks \cup {Blank}
    /\ topK \in 1..20
    /\ ranked \in Seq(Candidate) /\ Len(ranked) <= MaxProjects
    /\ result \in Results
    /\ local \in Results
    /\ GatewayTypeOK

Init ==
    /\ index \in Contents
    /\ pc = "idle"
    /\ task = Blank
    /\ topK = 8
    /\ ranked = <<>>
    /\ result = NoResult
    /\ local = NoResult
    /\ GatewayInit

-----------------------------------------------------------------------------
(* Store.Search: who is a candidate, and in which order *)

\* By score, best first, and by name between equals.
Before(c1, c2) ==
    \/ c1.score > c2.score
    \/ c1.score = c2.score /\ c1.project < c2.project

\* Mutation: the list is not sorted.
IsUnsortedSearchResult(c, names, score, limit) ==
    LET n == Len(c)
        hits == {[project |-> p, score |-> score[p]] : p \in {q \in names : score[q] > 0}}
    IN  /\ n <= limit
        /\ {c[i] : i \in 1..n} \subseteq hits
        /\ \A i, j \in 1..n : i # j => c[i] # c[j]

\* c is what Search returns of the projects in names, scored by score: in
\* order, at most limit of them, and none that is left out is before the last.
IsSearchResult(c, names, score, limit) ==
    LET n == Len(c)
        hits == {[project |-> p, score |-> score[p]] : p \in {q \in names : score[q] > 0}}
        chosen == {c[i] : i \in 1..n}
    IN  /\ n <= limit
        /\ chosen \subseteq hits
        /\ \A i, j \in 1..n : i < j => Before(c[i], c[j])
        /\ \A left \in hits \ chosen : n = limit /\ Before(c[n], left)

-----------------------------------------------------------------------------
(* localResult, applyLocalSignals and applyJev *)

LocalResult(c) ==
    [NoResult EXCEPT !.mode = "local_retrieval_only",
                     !.decider = "local",
                     !.status = "not_called",
                     !.primary = IF c = <<>> THEN Nobody ELSE c[1].project]

\* The projects linked to primary by a dependency, either way, in a snapshot of
\* the index. A primary that the snapshot lacks has no links.
Links(primary, snapshot) ==
    IF primary \in DOMAIN snapshot
    THEN snapshot[primary] \cup {p \in DOMAIN snapshot : primary \in snapshot[p]}
    ELSE {}

\* LocalScore/best >= percent/100
Reaches(c, i, percent) == 100 * c[i].score >= percent * c[1].score

YesNo(condition) == IF condition THEN "yes" ELSE "no"

\* The first class of keywords, in the switch's order, that the task mentions.
ChangeType(words) ==
    LET mentioned == {i \in 1..5 : KeywordClasses[i] \in words}
    IN  IF mentioned = {} THEN "other"
        ELSE KeywordClasses[CHOOSE i \in mentioned : \A j \in mentioned : i <= j]

\* Mutation: the first candidate is not left out.
LinkedRanksWithFirst(c, primary, snapshot) ==
    {i \in 1..Len(c) : \/ c[i].project \in Links(primary, snapshot)
                       \/ Reaches(c, i, 55)}

LinkedRanks(c, primary, snapshot) ==
    {i \in 2..Len(c) : \/ c[i].project \in Links(primary, snapshot)
                       \/ Reaches(c, i, 55)}

LocalSignals(r, c, snapshot, words) ==
    IF c = <<>>
    THEN [r EXCEPT !.clarify = "yes"]
    ELSE LET linked == LinkedRanks(c, r.primary, snapshot)
         IN  [r EXCEPT !.linked = linked,
                       !.clarify = YesNo(Len(c) > 1 /\ Reaches(c, 2, 82)),
                       !.cross = YesNo(linked # {}),
                       !.change = ChangeType(words)]

\* An answer that is absent leaves the local value.
Unless(absent, answer, value) == IF answer = absent THEN value ELSE answer

\* Mutation: the primary is not left out.
RelevantRanksWithPrimary(c, primary, reply) == {i \in 1..Len(c) : i \in reply.relevant}

\* The candidates that the provider relates to the primary.
RelevantRanks(c, primary, reply) ==
    {i \in 1..Len(c) : i \in reply.relevant /\ c[i].project # primary}

Jev(r, c, reply) ==
    LET primary == Unless(NoChoice, reply.choice, r.primary)
    IN  [r EXCEPT !.mode = "semantic_routed",
                  !.decider = "jev",
                  !.status = "ok",
                  !.primary = primary,
                  !.semantic = IF reply.choice = NoChoice THEN {}
                               ELSE {c[i].project : i \in 1..Len(c)} \cap reply.probable,
                  !.clarify = Unless("absent", reply.clarify, r.clarify),
                  !.cross = Unless("absent", reply.cross, r.cross),
                  !.change = Unless("absent", reply.change, r.change),
                  !.relevant = RelevantRanks(c, primary, reply),
                  !.missing = reply.missing]

-----------------------------------------------------------------------------
(* Route *)

\* Mutation: top_k is passed on as it comes.
AskUnclamped ==
    /\ pc = "idle"
    /\ \E t \in Tasks \cup {Blank}, k \in TopKs :
        /\ task' = t
        /\ topK' = k
        /\ pc' = IF t = Blank THEN "refused" ELSE "searching"
    /\ UNCHANGED <<index, ranked, result, local, gatewayVars>>

\* A blank requirement is refused; a top_k out of 1..20 becomes 8.
Ask ==
    /\ pc = "idle"
    /\ \E t \in Tasks \cup {Blank}, k \in TopKs :
        /\ task' = t
        /\ topK' = IF k <= 0 \/ k > 20 THEN 8 ELSE k
        /\ pc' = IF t = Blank THEN "refused" ELSE "searching"
    /\ UNCHANGED <<index, ranked, result, local, gatewayVars>>

\* Search reads the index for the first time.
Search ==
    /\ pc = "searching"
    /\ \E score \in [DOMAIN index -> Scores], n \in 0..MaxProjects :
        \E c \in [1..n -> Candidate] :
            /\ IsSearchResult(c, DOMAIN index, score, topK)
            /\ ranked' = c
            /\ result' = LocalResult(c)
    /\ pc' = "linking"
    /\ UNCHANGED <<index, task, topK, local, gatewayVars>>

SearchFails ==
    /\ pc = "searching"
    /\ pc' = "refused"
    /\ UNCHANGED <<index, task, topK, ranked, result, local, gatewayVars>>

\* What a read of the index that may break off has of it: rows come in the
\* order of their names.
ReadUpTo(n) == [p \in {q \in DOMAIN index : q <= n} |-> index[p]]

\* The index is read a second time; the rows before an error count as the whole
\* index. Then Route answers, or sends the question to the provider.
Link ==
    /\ pc = "linking"
    /\ \E n \in 0..MaxProjects, available \in Keys :
        LET signals == LocalSignals(result, ranked, ReadUpTo(n), task)
            answered == ranked = <<>> \/ ~ available
        IN  /\ local' = signals
            /\ result' = IF ranked = <<>> THEN [signals EXCEPT !.warnings = 1]
                         ELSE IF answered
                         THEN [signals EXCEPT !.warnings = 1, !.status = "disabled_missing_api_key"]
                         ELSE signals
            /\ IF answered THEN pc' = "answered" /\ UNCHANGED gatewayVars
               ELSE pc' = "asking" /\ Send
    /\ UNCHANGED <<index, task, topK, ranked>>

AskProvider ==
    /\ pc = "asking"
    /\ Evaluate
    /\ UNCHANGED <<index, routeVars>>

\* Mutation: the mode is set before the provider has answered.
FallBackSemantic ==
    /\ pc = "asking" /\ phase = "done" /\ outcome # "ok"
    /\ result' = [result EXCEPT !.mode = "semantic_routed", !.status = outcome, !.warnings = 1]
    /\ pc' = "answered"
    /\ Take
    /\ UNCHANGED <<index, task, topK, ranked, local>>

\* Evaluate returned an error: the local result, its status and a warning.
FallBack ==
    /\ pc = "asking" /\ phase = "done" /\ outcome # "ok"
    /\ result' = [result EXCEPT !.status = outcome, !.warnings = 1]
    /\ pc' = "answered"
    /\ Take
    /\ UNCHANGED <<index, task, topK, ranked, local>>

ApplyJev ==
    /\ pc = "asking" /\ phase = "done" /\ outcome = "ok"
    /\ \E reply \in Replies : result' = Jev(result, ranked, reply)
    /\ pc' = "answered"
    /\ Take
    /\ UNCHANGED <<index, task, topK, ranked, local>>

Return ==
    /\ pc \in {"answered", "refused"}
    /\ pc' = "idle"
    /\ task' = Blank
    /\ topK' = 8
    /\ ranked' = <<>>
    /\ result' = NoResult
    /\ local' = NoResult
    /\ UNCHANGED <<index, gatewayVars>>

\* Another request replaces the index.
Replace ==
    /\ index' \in Contents
    /\ UNCHANGED <<routeVars, gatewayVars>>

Step == Search \/ SearchFails \/ Link \/ FallBack \/ ApplyJev

Next == Ask \/ Step \/ AskProvider \/ Return \/ Replace

Spec == Init /\ [][Next]_vars

\* The goroutine of the request is scheduled, and Evaluate is as fair as its
\* own clock; the provider and the network owe nothing.
FairSpec == Spec /\ WF_vars(Step) /\ EvaluateFairness

-----------------------------------------------------------------------------
(* Properties *)

RelatedRanks == result.linked \cup result.relevant
RelatedProjects == {ranked[i].project : i \in RelatedRanks}
Candidates == {ranked[i].project : i \in 1..Len(ranked)}

\* A result relates only candidates, although candidates and links may come from
\* two different states of the index.  Without the provider it names another
\* candidate as its primary, and calls the task cross-project exactly when it
\* relates some.  The provider's answer keeps the local relations and scores no
\* project but candidates; a primary is its own relative only if the provider
\* has chosen another one than Route.  (Links that a second reading did not come
\* to are missing: such a result is coherent, and poorer.)
ResultIsCoherent ==
    pc = "answered" /\ ranked # <<>> =>
        /\ RelatedProjects \subseteq Candidates
        /\ result.mode = "local_retrieval_only" =>
            /\ result.primary \in Candidates \ RelatedProjects
            /\ result.relevant = {}
            /\ (result.cross = "yes") <=> (RelatedProjects # {})
        /\ result.mode = "semantic_routed" =>
            /\ result.linked = local.linked
            /\ result.semantic \subseteq Candidates
            /\ result.primary \notin {ranked[i].project : i \in result.relevant}
            /\ result.primary \in RelatedProjects => result.primary # local.primary

\* Whatever way the provider fails, the answer is the local result; only the
\* status and the warning tell the difference.
FailureKeepsLocalResult ==
    pc = "answered" /\ result.status # "ok" =>
        /\ result = [local EXCEPT !.status = result.status, !.warnings = result.warnings]
        /\ result.mode = "local_retrieval_only" /\ result.decider = "local"
        /\ result.warnings = 1

\* While the provider is asked there are candidates to ask it about, and the
\* result is the local one; and a call of it is under way exactly then: none
\* outlives the request that made it, and none is left over for the next.
ProviderIsAskedWithCandidates ==
    /\ pc = "asking" => ranked # <<>> /\ local = result
    /\ phase # "idle" <=> pc = "asking"

\* No candidate twice, and none beyond the limit.
CandidatesAreDistinct ==
    /\ \A i, j \in 1..Len(ranked) : ranked[i].project = ranked[j].project => i = j
    /\ Len(ranked) <= topK

\* A task is always answered or refused, although the provider may hang and
\* the index is replaced again and again.
RouteReturns == pc = "searching" ~> pc \in {"answered", "refused"}
=============================================================================
