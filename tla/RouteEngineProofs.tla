-------------------------- MODULE RouteEngineProofs --------------------------
(***************************************************************************)
(* What Route promises, and what the page makes of its results, proved for *)
(* every index, ranking, task, limit and behaviour of the provider.        *)
(***************************************************************************)
EXTENDS RouteScreen, FiniteSetTheorems, TLAPS

\* The part of the state that only a request under way holds.
Progress ==
    /\ pc \in {"idle", "searching", "refused"} => ranked = <<>> /\ result = NoResult
    /\ pc = "linking" => result = LocalResult(ranked)
    /\ pc = "asking" => result = local /\ ranked # <<>>
    /\ phase # "idle" <=> pc = "asking"
    /\ phase = "reading" => status \in Statuses

\* Candidates are different projects, and the best score comes first.
Distinct(c) == \A i, j \in 1..Len(c) : i # j => c[i].project # c[j].project
BestFirst(c) == \A i, j \in 1..Len(c) : i < j => c[i].score >= c[j].score

Ordered == Distinct(ranked) /\ BestFirst(ranked) /\ Len(ranked) <= topK

\* What the local signals make of candidates.
CoherentLocal(r, c) ==
    /\ r.mode = "local_retrieval_only" /\ r.decider = "local"
    /\ r.relevant = {}
    /\ c # <<>> => /\ r.primary = c[1].project
                   /\ r.linked \subseteq 2..Len(c)
                   /\ (r.cross = "yes") <=> (r.linked # {})

\* What the provider's answer makes of a result l for candidates c.
Merged(r, l, c) ==
    /\ r.mode = "semantic_routed" /\ r.status = "ok"
    /\ r.linked = l.linked
    /\ r.relevant \subseteq 1..Len(c)
    /\ \A i \in r.relevant : c[i].project # r.primary
    /\ r.semantic \subseteq {c[i].project : i \in 1..Len(c)}

LocalInv ==
    /\ pc \in {"asking", "answered"} => CoherentLocal(local, ranked)
    /\ pc = "answered" =>
         \/ Merged(result, local, ranked) /\ ranked # <<>>
         \/ /\ result = [local EXCEPT !.status = result.status, !.warnings = 1]
            /\ result.status # "ok"

IInv == TypeOK /\ Progress /\ Ordered /\ LocalInv

-----------------------------------------------------------------------------
(* Lemmas about the operators *)

\* Before is a strict order on scored candidates.
LEMMA BeforeIsStrict ==
    ASSUME NEW c \in Candidate
    PROVE  ~ Before(c, c)
<1>1. c.project \in Int /\ c.score \in Int
  <2>1. Scores \subseteq Nat
    BY RouteAssumption
  <2>2. c.project \in 1..MaxProjects /\ c.score \in Scores
    BY DEF Candidate, Projects
  <2>3. c.project \in Int
    BY <2>2
  <2>4. c.score \in Int
    <3>1. \A x \in Scores : x \in Int
      BY <2>1
    <3> QED
      BY <2>2, <3>1
  <2> QED
    BY <2>3, <2>4
<1> QED
  BY <1>1 DEF Before

\* Search lists no project twice.
LEMMA SearchIsDistinct ==
    ASSUME NEW c \in Seq(Candidate), NEW names, NEW score, NEW limit,
           IsSearchResult(c, names, score, limit)
    PROVE  Distinct(c)
<1>1. ASSUME NEW i \in 1..Len(c), NEW j \in 1..Len(c), i < j,
             c[i].project = c[j].project
      PROVE  FALSE
  <2>1. Before(c[i], c[j])
    BY <1>1 DEF IsSearchResult
  <2>2. \A k \in 1..Len(c) : c[k] = [project |-> c[k].project, score |-> score[c[k].project]]
    BY DEF IsSearchResult
  <2>3. c[i] = c[j]
    BY <1>1, <2>2
  <2>4. c[i] \in Candidate
    BY <1>1
  <2> QED
    BY <2>1, <2>3, <2>4, BeforeIsStrict
<1> QED
  BY <1>1 DEF Distinct

\* Scores are natural numbers.
LEMMA ScoresAreNumbers ==
    ASSUME NEW c \in Seq(Candidate)
    PROVE  \A i \in 1..Len(c) : c[i].score \in Nat
<1>1. \A x \in Scores : x \in Nat
  BY RouteAssumption
<1>2. \A i \in 1..Len(c) : c[i] \in Candidate
  OBVIOUS
<1>3. \A x \in Candidate : x.score \in Scores
  BY DEF Candidate
<1> QED
  BY <1>1, <1>2, <1>3

\* Search lists no candidate after one of a lower score.
LEMMA SearchIsBestFirst ==
    ASSUME NEW c \in Seq(Candidate), NEW names, NEW score, NEW limit,
           IsSearchResult(c, names, score, limit)
    PROVE  BestFirst(c)
<1>1. \A i \in 1..Len(c) : c[i].score \in Nat
  BY ScoresAreNumbers
<1>2. \A i, j \in 1..Len(c) : i < j => Before(c[i], c[j])
  BY DEF IsSearchResult
<1> QED
  BY <1>1, <1>2 DEF BestFirst, Before

\* The empty result is a result.
LEMMA EmptyResult == NoResult \in Results
  BY SMTT(60) DEF NoResult, Results, Flags, Nobody

\* localResult makes a result of any candidates.
LEMMA LocalResultType ==
    ASSUME NEW c \in Seq(Candidate)
    PROVE  /\ LocalResult(c) \in Results
           /\ LocalResult(c).mode = "local_retrieval_only"
           /\ LocalResult(c).decider = "local"
           /\ LocalResult(c).relevant = {}
           /\ LocalResult(c).status = "not_called"
           /\ c # <<>> => LocalResult(c).primary = c[1].project
<1> DEFINE primary == IF c = <<>> THEN Nobody ELSE c[1].project
<1>1. primary \in Projects \cup {Invented, Nobody}
  <2>1. c # <<>> => c[1] \in Candidate
    OBVIOUS
  <2> QED
    BY <2>1 DEF Candidate
<1>2. /\ LocalResult(c).mode = "local_retrieval_only"
      /\ LocalResult(c).decider = "local"
      /\ LocalResult(c).relevant = {}
      /\ LocalResult(c).status = "not_called"
      /\ LocalResult(c).primary = primary
  BY DEF LocalResult, NoResult
<1> DEFINE r1 == [NoResult EXCEPT !.mode = "local_retrieval_only"]
           r2 == [r1 EXCEPT !.decider = "local"]
           r3 == [r2 EXCEPT !.status = "not_called"]
           r4 == [r3 EXCEPT !.primary = primary]
<1>3. LocalResult(c) = r4
  BY Zenon DEF LocalResult
<1>4. LocalResult(c) \in Results
  <2> HIDE DEF primary, r1, r2, r3, r4
  <2>1. r1 \in Results
    BY EmptyResult DEF r1, Results
  <2>2. r2 \in Results
    BY <2>1 DEF r2, Results
  <2>3. r3 \in Results
    BY <2>2 DEF r3, Results
  <2>4. r4 \in Results
    BY <1>1, <2>3 DEF r4, Results
  <2> QED
    BY <1>3, <2>4
<1> QED
  BY <1>2, <1>4 DEF primary

\* A task has a change type: a class of keywords it mentions, or "other".
LEMMA ChangeTypeType ==
    ASSUME NEW words
    PROVE  ChangeType(words) \in {"other"} \cup {KeywordClasses[i] : i \in 1..5}
<1> DEFINE mentioned == {i \in 1..5 : KeywordClasses[i] \in words}
<1>1. CASE mentioned = {}
  BY <1>1 DEF ChangeType
<1>2. CASE mentioned # {}
  <2>1. \E i \in mentioned : \A j \in mentioned : i <= j
    <3>1. \A i \in mentioned : i \in {1, 2, 3, 4, 5}
      OBVIOUS
    <3> HIDE DEF mentioned
    <3>2. CASE 1 \in mentioned
      BY <3>1, <3>2
    <3>3. CASE 1 \notin mentioned /\ 2 \in mentioned
      BY <3>1, <3>3
    <3>4. CASE 1 \notin mentioned /\ 2 \notin mentioned /\ 3 \in mentioned
      BY <3>1, <3>4
    <3>5. CASE /\ 1 \notin mentioned /\ 2 \notin mentioned /\ 3 \notin mentioned
               /\ 4 \in mentioned
      BY <3>1, <3>5
    <3>6. CASE /\ 1 \notin mentioned /\ 2 \notin mentioned /\ 3 \notin mentioned
               /\ 4 \notin mentioned
      BY <1>2, <3>1, <3>6
    <3> QED
      BY <3>2, <3>3, <3>4, <3>5, <3>6
  <2> QED
    BY <1>2, <2>1 DEF ChangeType
<1> QED
  BY <1>1, <1>2

\* applyLocalSignals makes a result of a result.
LEMMA LocalSignalsType ==
    ASSUME NEW c \in Seq(Candidate), Len(c) <= MaxProjects, NEW snapshot, NEW words,
           NEW r \in Results, r = LocalResult(c)
    PROVE  /\ LocalSignals(r, c, snapshot, words) \in Results
           /\ CoherentLocal(LocalSignals(r, c, snapshot, words), c)
           /\ LocalSignals(r, c, snapshot, words).status = "not_called"
<1>1. CASE c = <<>>
  <2>1. LocalSignals(r, c, snapshot, words) = [r EXCEPT !.clarify = "yes"]
    BY <1>1 DEF LocalSignals
  <2>2. [r EXCEPT !.clarify = "yes"] \in Results
    BY SMTT(60) DEF Results, Flags
  <2>3. /\ r.mode = "local_retrieval_only" /\ r.decider = "local"
        /\ r.relevant = {} /\ r.status = "not_called"
    BY LocalResultType
  <2>4. CoherentLocal([r EXCEPT !.clarify = "yes"], c)
        /\ [r EXCEPT !.clarify = "yes"].status = "not_called"
    BY <1>1, <2>3 DEF CoherentLocal, Results
  <2> QED
    BY <2>1, <2>2, <2>4
<1>2. CASE c # <<>>
  <2> DEFINE linked == LinkedRanks(c, r.primary, snapshot)
  <2>1. linked \in SUBSET (2..Len(c)) /\ linked \in SUBSET Ranks
    BY RouteAssumption DEF LinkedRanks, Ranks
  <2>2. ChangeType(words) \in {"other"} \cup {KeywordClasses[i] : i \in 1..5}
    BY ChangeTypeType
  <2> DEFINE r1 == [r EXCEPT !.linked = linked]
             r2 == [r1 EXCEPT !.clarify = YesNo(Len(c) > 1 /\ Reaches(c, 2, 82))]
             r3 == [r2 EXCEPT !.cross = YesNo(linked # {})]
             r4 == [r3 EXCEPT !.change = ChangeType(words)]
  <2>3. LocalSignals(r, c, snapshot, words) = r4
    BY <1>2, Zenon DEF LocalSignals
  <2>4. YesNo(Len(c) > 1 /\ Reaches(c, 2, 82)) \in Flags /\ YesNo(linked # {}) \in Flags
    BY DEF YesNo, Flags
  <2>5. (YesNo(linked # {}) = "yes") <=> (linked # {})
    BY DEF YesNo
  <2>6. /\ r.mode = "local_retrieval_only" /\ r.decider = "local"
        /\ r.relevant = {} /\ r.status = "not_called" /\ r.primary = c[1].project
    BY <1>2, LocalResultType
  <2> DEFINE Kept(q) == /\ q \in Results
                       /\ q.mode = r.mode /\ q.decider = r.decider /\ q.status = r.status
                       /\ q.relevant = r.relevant /\ q.primary = r.primary
                       /\ q.linked = linked
  <2> HIDE DEF linked, r1, r2, r3, r4
  <2>7. Kept(r1)
    BY <2>1 DEF r1, Results
  <2>8. Kept(r2)
    BY <2>4, <2>7 DEF r2, Results
  <2>9. Kept(r3) /\ r3.cross = YesNo(linked # {})
    BY <2>4, <2>8 DEF r3, Results
  <2>10. Kept(r4) /\ r4.cross = YesNo(linked # {})
    BY <2>2, <2>9 DEF r4, Results
  <2> QED
    BY <1>2, <2>1, <2>3, <2>5, <2>6, <2>10 DEF CoherentLocal
<1> QED
  BY <1>1, <1>2

\* applyJev makes a result of a result, whatever the provider replies.
LEMMA JevType ==
    ASSUME NEW c \in Seq(Candidate), Len(c) <= MaxProjects,
           NEW r \in Results, NEW reply \in ReplyType
    PROVE  /\ Jev(r, c, reply) \in Results
           /\ Merged(Jev(r, c, reply), r, c)
<1> DEFINE primary == Unless(NoChoice, reply.choice, r.primary)
           relevant == RelevantRanks(c, primary, reply)
           semantic == IF reply.choice = NoChoice THEN {}
                       ELSE {c[i].project : i \in 1..Len(c)} \cap reply.probable
<1>1. primary \in Projects \cup {Invented, Nobody}
  BY DEF Unless, ReplyType, Results, NoChoice, Invented, Nobody
<1>2. /\ relevant \in SUBSET Ranks /\ relevant \subseteq 1..Len(c)
      /\ \A i \in relevant : c[i].project # primary
      /\ semantic \in SUBSET Projects /\ semantic \subseteq {c[i].project : i \in 1..Len(c)}
  BY RouteAssumption DEF Ranks, ReplyType, RelevantRanks
<1>3. /\ Unless("absent", reply.clarify, r.clarify) \in Flags
      /\ Unless("absent", reply.cross, r.cross) \in Flags
      /\ Unless("absent", reply.change, r.change)
            \in {"unset", "other", "timeout"} \cup {KeywordClasses[i] : i \in 1..5}
  BY DEF Unless, ReplyType, Results, Flags
<1>4. reply.missing \in SUBSET Dimensions
  BY DEF ReplyType
<1> DEFINE clarify == Unless("absent", reply.clarify, r.clarify)
           cross == Unless("absent", reply.cross, r.cross)
           change == Unless("absent", reply.change, r.change)
           r1 == [r EXCEPT !.mode = "semantic_routed"]
           r2 == [r1 EXCEPT !.decider = "jev"]
           r3 == [r2 EXCEPT !.status = "ok"]
           r4 == [r3 EXCEPT !.primary = primary]
           r5 == [r4 EXCEPT !.semantic = semantic]
           r6 == [r5 EXCEPT !.clarify = clarify]
           r7 == [r6 EXCEPT !.cross = cross]
           r8 == [r7 EXCEPT !.change = change]
           r9 == [r8 EXCEPT !.relevant = relevant]
           r10 == [r9 EXCEPT !.missing = reply.missing]
<1>5. Jev(r, c, reply) = r10
  BY Zenon DEF Jev
<1> DEFINE Routed(q) == /\ q \in Results /\ q.mode = "semantic_routed"
                       /\ q.linked = r.linked
           Ok(q) == Routed(q) /\ q.status = "ok" /\ q.primary = primary
<1> HIDE DEF primary, relevant, semantic, clarify, cross, change,
             r1, r2, r3, r4, r5, r6, r7, r8, r9, r10
<1>6. Routed(r1)
  BY DEF r1, Results
<1>7. Routed(r2)
  BY <1>6 DEF r2, Results
<1>8. Routed(r3) /\ r3.status = "ok"
  BY <1>7 DEF r3, Results, Outcomes
<1>9. Ok(r4)
  BY <1>1, <1>8 DEF r4, Results
<1>10. Ok(r5) /\ r5.semantic = semantic
  BY <1>2, <1>9 DEF r5, Results
<1>11. Ok(r6) /\ r6.semantic = semantic
  BY <1>3, <1>10 DEF r6, Results, clarify
<1>12. Ok(r7) /\ r7.semantic = semantic
  BY <1>3, <1>11 DEF r7, Results, cross
<1>13. Ok(r8) /\ r8.semantic = semantic
  BY <1>3, <1>12 DEF r8, Results, change
<1>14. Ok(r9) /\ r9.semantic = semantic /\ r9.relevant = relevant
  BY <1>2, <1>13 DEF r9, Results
<1>15. Ok(r10) /\ r10.semantic = semantic /\ r10.relevant = relevant
  BY <1>4, <1>14 DEF r10, Results
<1> QED
  BY <1>2, <1>5, <1>15 DEF Merged

-----------------------------------------------------------------------------
(* The inductive invariant *)

\* The inductive invariant holds initially.
LEMMA InitInv == Init => IInv
<1> SUFFICES ASSUME Init PROVE IInv
  OBVIOUS
<1>1. TypeOK
  BY RouteAssumption, EmptyResult
     DEF Init, TypeOK, GatewayInit, GatewayTypeOK, Phases, Causes, Outcomes, Kinds
<1>2. Progress /\ Ordered /\ LocalInv
  BY DEF Init, Progress, Ordered, Distinct, BestFirst, LocalInv, GatewayInit
<1> QED
  BY <1>1, <1>2 DEF IInv

\* What the steps of Evaluate leave alone.
LEMMA EvaluateStep ==
    ASSUME GatewayTypeOK, phase = "reading" => status \in Statuses, Evaluate
    PROVE  /\ GatewayTypeOK' /\ phase # "idle" /\ phase' # "idle"
           /\ phase' = "reading" => status' \in Statuses
<1> USE DEF GatewayTypeOK, Phases, Causes, Outcomes, Kinds
<1>1. CASE Headers
  BY <1>1 DEF Headers
<1>2. CASE ClientTimeout \/ NetworkFails \/ CallerLeaves
  BY <1>2 DEF ClientTimeout, NetworkFails, CallerLeaves
<1>3. CASE DoFails \/ ReadFails
  BY <1>3 DEF DoFails, ReadFails, KindOfDoError
<1>4. CASE ReadBody
  <2>1. \A body \in Bodies : Classify(status, body) \in Outcomes
    BY <1>4 DEF ReadBody, Classify, Bodies, Statuses
  <2> QED
    BY <1>4, <2>1 DEF ReadBody
<1> QED
  BY <1>1, <1>2, <1>3, <1>4 DEF Evaluate

\* Ask keeps the invariant: a blank task is refused and the limit is clamped.
LEMMA AskStep == IInv /\ Ask => IInv'
<1> SUFFICES ASSUME IInv, Ask PROVE IInv'
  OBVIOUS
<1>1. PICK t \in Tasks \cup {Blank}, k \in TopKs :
        /\ task' = t
        /\ topK' = IF k <= 0 \/ k > 20 THEN 8 ELSE k
        /\ pc' = IF t = Blank THEN "refused" ELSE "searching"
  BY DEF Ask
<1>2. pc = "idle" /\ UNCHANGED <<index, ranked, result, local, gatewayVars>>
  BY DEF Ask
<1>3. topK' \in 1..20
  BY <1>1, RouteAssumption
<1>4. TypeOK'
  BY <1>1, <1>2, <1>3 DEF IInv, TypeOK, GatewayTypeOK, gatewayVars
<1>5. Progress' /\ Ordered' /\ LocalInv'
  BY <1>1, <1>2, <1>3 DEF IInv, Progress, Ordered, LocalInv, gatewayVars
<1> QED
  BY <1>4, <1>5 DEF IInv

\* Search keeps the invariant: its candidates are distinct and within the limit.
LEMMA SearchStep == IInv /\ Search => IInv'
<1> SUFFICES ASSUME IInv, Search PROVE IInv'
  OBVIOUS
<1>1. PICK score \in [DOMAIN index -> Scores], n \in 0..MaxProjects :
        \E c \in [1..n -> Candidate] :
            /\ IsSearchResult(c, DOMAIN index, score, topK)
            /\ ranked' = c
            /\ result' = LocalResult(c)
  BY DEF Search
<1>2. PICK c \in [1..n -> Candidate] :
            /\ IsSearchResult(c, DOMAIN index, score, topK)
            /\ ranked' = c
            /\ result' = LocalResult(c)
  BY <1>1
<1>3. /\ pc = "searching" /\ pc' = "linking"
      /\ UNCHANGED <<index, task, topK, local, gatewayVars>>
  BY DEF Search
<1>4. c \in Seq(Candidate) /\ Len(c) = n /\ n <= MaxProjects
  BY RouteAssumption
<1>5. LocalResult(c) \in Results
  BY <1>4, LocalResultType
<1>6. TypeOK'
  BY <1>2, <1>3, <1>4, <1>5 DEF IInv, TypeOK, GatewayTypeOK, gatewayVars
<1>7. Progress' /\ LocalInv'
  BY <1>2, <1>3 DEF IInv, Progress, LocalInv, gatewayVars
<1>8. Distinct(c) /\ BestFirst(c)
  BY <1>2, <1>4, SearchIsDistinct, SearchIsBestFirst
<1>9. Ordered'
  BY <1>2, <1>3, <1>4, <1>8 DEF Ordered, IsSearchResult
<1> QED
  BY <1>6, <1>7, <1>9 DEF IInv

\* Link keeps the invariant, whichever state of the index its second read finds.
LEMMA LinkStep == IInv /\ Link => IInv'
<1> SUFFICES ASSUME IInv, Link PROVE IInv'
  OBVIOUS
<1> DEFINE Signals(snapshot) == LocalSignals(result, ranked, snapshot, task)
           Answered(available) == ranked = <<>> \/ ~ available
<1>1. PICK n \in 0..MaxProjects, available \in Keys : LET snapshot == ReadUpTo(n) IN
        /\ local' = Signals(snapshot)
        /\ result' = IF ranked = <<>> THEN [Signals(snapshot) EXCEPT !.warnings = 1]
                     ELSE IF Answered(available)
                     THEN [Signals(snapshot) EXCEPT !.warnings = 1, !.status = "disabled_missing_api_key"]
                     ELSE Signals(snapshot)
        /\ IF Answered(available) THEN pc' = "answered" /\ UNCHANGED gatewayVars
           ELSE pc' = "asking" /\ Send
  BY DEF Link
<1>2. pc = "linking" /\ UNCHANGED <<index, task, topK, ranked>>
  BY DEF Link
<1> DEFINE s == Signals(ReadUpTo(n))
           answered == Answered(available)
<1>3. s \in Results /\ CoherentLocal(s, ranked) /\ s.status = "not_called"
  BY <1>2, LocalSignalsType DEF IInv, TypeOK, Progress
<1> HIDE DEF Signals, s
<1>4. CASE ~ answered
  <2>1. local' = s /\ result' = s /\ pc' = "asking" /\ Send /\ ranked # <<>>
    BY <1>1, <1>4 DEF s
  <2>2. /\ phase' \in {"waiting", "done"} /\ outcome' \in {outcome, "provider_error"}
        /\ UNCHANGED <<cause, caller, status>>
    BY <2>1 DEF Send
  <2>3. TypeOK'
    BY <1>2, <1>3, <2>1, <2>2 DEF IInv, TypeOK, GatewayTypeOK, Phases, Outcomes
  <2>4. Progress' /\ Ordered' /\ LocalInv'
    BY <1>2, <1>3, <2>1, <2>2 DEF IInv, Progress, Ordered, LocalInv
  <2> QED
    BY <2>3, <2>4 DEF IInv
<1>5. CASE answered
  <2> DEFINE w == [s EXCEPT !.warnings = 1]
             d == [w EXCEPT !.status = "disabled_missing_api_key"]
  <2>1. local' = s /\ result' \in {w, d} /\ pc' = "answered" /\ UNCHANGED gatewayVars
    BY <1>1, <1>5, Zenon DEF s
  <2>2. w \in Results /\ w.status = "not_called"
    BY <1>3 DEF Results
  <2>3. w = [s EXCEPT !.status = w.status, !.warnings = 1]
    BY <1>3, <2>2 DEF Results
  <2>4. d \in Results /\ d.status = "disabled_missing_api_key"
    <3> HIDE DEF w
    <3> QED
      BY <2>2 DEF Results
  <2>5. d = [s EXCEPT !.status = d.status, !.warnings = 1]
    BY <1>3, <2>4 DEF Results
  <2> HIDE DEF w, d
  <2>6. TypeOK'
    BY <1>2, <1>3, <2>1, <2>2, <2>4 DEF IInv, TypeOK, GatewayTypeOK, gatewayVars
  <2>7. Progress' /\ Ordered'
    BY <1>2, <2>1 DEF IInv, Progress, Ordered, gatewayVars
  <2>8. LocalInv'
    BY <1>2, <1>3, <2>1, <2>2, <2>3, <2>4, <2>5 DEF LocalInv
  <2> QED
    BY <2>6, <2>7, <2>8 DEF IInv
<1> QED
  BY <1>4, <1>5

\* What the network, the clocks and the provider do changes no result.
LEMMA AskProviderStep == IInv /\ AskProvider => IInv'
<1> SUFFICES ASSUME IInv, AskProvider PROVE IInv'
  OBVIOUS
<1>1. pc = "asking" /\ Evaluate /\ UNCHANGED <<index, pc, task, topK, ranked, result, local>>
  BY DEF AskProvider, routeVars
<1>2. /\ GatewayTypeOK' /\ phase' # "idle"
      /\ phase' = "reading" => status' \in Statuses
  BY <1>1, EvaluateStep DEF IInv, TypeOK, Progress
<1>3. TypeOK'
  BY <1>1, <1>2 DEF IInv, TypeOK
<1>4. Progress' /\ Ordered' /\ LocalInv'
  BY <1>1, <1>2 DEF IInv, Progress, Ordered, LocalInv
<1> QED
  BY <1>3, <1>4 DEF IInv

\* FallBack keeps the invariant: status and warning are all it writes.
LEMMA FallBackStep == IInv /\ FallBack => IInv'
<1> SUFFICES ASSUME IInv, FallBack PROVE IInv'
  OBVIOUS
<1> DEFINE r1 == [local EXCEPT !.status = outcome]
           r2 == [r1 EXCEPT !.warnings = 1]
<1>1. /\ pc = "asking" /\ outcome # "ok" /\ result = local
      /\ pc' = "answered" /\ phase' = "idle"
      /\ UNCHANGED <<index, task, topK, ranked, local>>
  BY DEF FallBack, Take, IInv, Progress
<1>2. result' = r2
  BY <1>1, Zenon DEF FallBack
<1>3. GatewayTypeOK'
  BY DEF FallBack, Take, GatewayTypeOK, Phases, Causes, Outcomes
<1>4. local \in Results /\ outcome \in Outcomes
  BY DEF IInv, TypeOK, GatewayTypeOK
<1>5. r1 \in Results /\ r1.status = outcome
  BY <1>4 DEF Results
<1> DEFINE r3 == [local EXCEPT !.status = r2.status, !.warnings = 1]
<1>6. r2.status = outcome
  <2> HIDE DEF r1
  <2> QED
    BY <1>5 DEF Results
<1>7. r2 \in Results
  <2> HIDE DEF r1
  <2> QED
    BY <1>5 DEF Results
<1>8. r2 = r3
  BY <1>6, Zenon
<1> HIDE DEF r1, r2
<1>9. TypeOK'
  BY <1>1, <1>2, <1>3, <1>7 DEF IInv, TypeOK
<1>10. Progress' /\ Ordered'
  BY <1>1 DEF IInv, Progress, Ordered
<1>11. LocalInv'
  BY <1>1, <1>2, <1>6, <1>8 DEF IInv, LocalInv
<1> QED
  BY <1>9, <1>10, <1>11 DEF IInv

\* ApplyJev keeps the invariant: its result is not a local one.
LEMMA ApplyJevStep == IInv /\ ApplyJev => IInv'
<1> SUFFICES ASSUME IInv, ApplyJev PROVE IInv'
  OBVIOUS
<1>1. PICK reply \in Replies : result' = Jev(result, ranked, reply)
  BY DEF ApplyJev
<1>2. /\ pc = "asking" /\ pc' = "answered" /\ phase' = "idle"
      /\ UNCHANGED <<index, task, topK, ranked, local>>
  BY DEF ApplyJev, Take
<1>3. GatewayTypeOK'
  BY DEF ApplyJev, Take, GatewayTypeOK, Phases, Causes, Outcomes
<1>4. reply \in ReplyType
  BY RouteAssumption
<1>5. /\ result' \in Results /\ Merged(result', local, ranked)
      /\ result'.mode = "semantic_routed" /\ result'.status = "ok"
      /\ ranked # <<>>
  BY <1>1, <1>2, <1>4, JevType DEF IInv, TypeOK, Progress, Merged
<1>6. TypeOK'
  BY <1>2, <1>3, <1>5 DEF IInv, TypeOK
<1>7. Progress' /\ Ordered' /\ LocalInv'
  BY <1>2, <1>5 DEF IInv, Progress, Ordered, LocalInv
<1> QED
  BY <1>6, <1>7 DEF IInv

\* A failed search, the end of a request, another request that replaces the index,
\* and stuttering keep the invariant.
LEMMA OtherSteps ==
    IInv /\ (SearchFails \/ Return \/ Replace \/ UNCHANGED vars) => IInv'
<1> SUFFICES ASSUME IInv, SearchFails \/ Return \/ Replace \/ UNCHANGED vars PROVE IInv'
  OBVIOUS
<1>1. CASE SearchFails
  BY <1>1 DEF SearchFails, IInv, TypeOK, GatewayTypeOK, Progress, Ordered, LocalInv, gatewayVars
<1>2. CASE Return
  <2>1. /\ pc' = "idle" /\ task' = Blank /\ topK' = 8 /\ ranked' = <<>>
        /\ result' = NoResult /\ local' = NoResult
        /\ UNCHANGED <<index, gatewayVars>> /\ pc # "asking"
    BY <1>2 DEF Return
  <2>2. MaxProjects >= 0
    BY RouteAssumption
  <2> QED
    BY <2>1, <2>2, EmptyResult
       DEF IInv, TypeOK, GatewayTypeOK, Progress, Ordered, Distinct, BestFirst, LocalInv,
           gatewayVars
<1>3. CASE Replace
  BY <1>3 DEF Replace, IInv, TypeOK, GatewayTypeOK, Progress, Ordered, LocalInv,
              gatewayVars, routeVars
<1>4. CASE UNCHANGED vars
  BY <1>4 DEF vars, IInv, TypeOK, GatewayTypeOK, Progress, Ordered, LocalInv,
              gatewayVars, routeVars
<1> QED
  BY <1>1, <1>2, <1>3, <1>4

\* The inductive invariant holds in every reachable state.
THEOREM Invariance == Spec => []IInv
<1>1. IInv /\ [Next]_vars => IInv'
  BY AskStep, SearchStep, LinkStep, AskProviderStep, FallBackStep, ApplyJevStep, OtherSteps
     DEF Next, Step
<1> QED
  BY <1>1, InitInv, PTL DEF Spec

-----------------------------------------------------------------------------
(* The theorems *)

\* Candidates are projects of their own, at most top_k of them: no project is
\* listed twice whatever the scores (store.go, Search).
THEOREM AlwaysDistinct == Spec => []CandidatesAreDistinct
<1>1. IInv => CandidatesAreDistinct
  BY DEF IInv, Ordered, Distinct, CandidatesAreDistinct
<1> QED
  BY <1>1, Invariance, PTL

\* Whatever way the provider fails, the answer is the local result
\* (router.go, Route; "falls back to local results").
THEOREM AlwaysFallsBack == Spec => []FailureKeepsLocalResult
<1>1. IInv => FailureKeepsLocalResult
  <2> SUFFICES ASSUME IInv, pc = "answered", result.status # "ok"
               PROVE  /\ result = [local EXCEPT !.status = result.status,
                                                !.warnings = result.warnings]
                      /\ result.mode = "local_retrieval_only" /\ result.decider = "local"
                      /\ result.warnings = 1
    BY DEF FailureKeepsLocalResult
  <2>1. /\ result = [local EXCEPT !.status = result.status, !.warnings = 1]
        /\ local.mode = "local_retrieval_only" /\ local.decider = "local"
        /\ local \in Results
    BY DEF IInv, TypeOK, LocalInv, CoherentLocal, Merged
  <2>2. /\ result.warnings = 1
        /\ result.mode = local.mode /\ result.decider = local.decider
    BY <2>1 DEF Results
  <2> QED
    BY <2>1, <2>2
<1> QED
  BY <1>1, Invariance, PTL

\* The primary of an answer without the provider is the first candidate, and the
\* others that it names are later ones.
LEMMA LocalAnswer ==
    ASSUME IInv, pc = "answered", result.mode = "local_retrieval_only", ranked # <<>>
    PROVE  /\ result.primary = ranked[1].project
           /\ result.relevant = {}
           /\ result.linked \subseteq 2..Len(ranked)
           /\ (result.cross = "yes") <=> (result.linked # {})
<1>1. /\ result = [local EXCEPT !.status = result.status, !.warnings = 1]
      /\ CoherentLocal(local, ranked) /\ local \in Results
  BY DEF IInv, TypeOK, LocalInv, Merged
<1>2. /\ result.primary = local.primary /\ result.linked = local.linked
      /\ result.relevant = local.relevant /\ result.cross = local.cross
  BY <1>1 DEF Results
<1> QED
  BY <1>1, <1>2 DEF CoherentLocal

\* The first candidate is among no later ones.
LEMMA FirstIsNotLater ==
    ASSUME IInv, ranked # <<>>, NEW ranks, ranks \subseteq 2..Len(ranked)
    PROVE  ranked[1].project \notin {ranked[i].project : i \in ranks}
<1>1. 1 \in 1..Len(ranked) /\ \A i \in ranks : i \in 1..Len(ranked) /\ i # 1
  BY DEF IInv, TypeOK
<1> QED
  BY <1>1 DEF IInv, Ordered, Distinct

\* A result is coherent, although its candidates and its links come from two
\* reads of an index that may change in between, and whatever the provider
\* chooses (router.go, applyLocalSignals and applyJev).
THEOREM AlwaysCoherent == Spec => []ResultIsCoherent
<1>1. IInv => ResultIsCoherent
  <2> SUFFICES ASSUME IInv, pc = "answered", ranked # <<>>
               PROVE  ResultIsCoherent
    BY DEF ResultIsCoherent
  <2>1. 1 \in 1..Len(ranked)
    BY DEF IInv, TypeOK
  <2>2. RelatedProjects = {ranked[i].project : i \in result.linked}
                            \cup {ranked[i].project : i \in result.relevant}
    BY DEF RelatedProjects, RelatedRanks
  <2>3. CASE result.mode = "local_retrieval_only"
    <3>1. /\ result.primary = ranked[1].project /\ result.relevant = {}
          /\ result.linked \subseteq 2..Len(ranked)
          /\ (result.cross = "yes") <=> (result.linked # {})
      BY <2>3, LocalAnswer
    <3>2. result.primary \notin RelatedProjects
      BY <2>2, <3>1, FirstIsNotLater
    <3>3. result.primary \in Candidates /\ RelatedProjects \subseteq Candidates
      BY <2>1, <2>2, <3>1 DEF Candidates
    <3> QED
      BY <2>2, <2>3, <3>1, <3>2, <3>3 DEF ResultIsCoherent
  <2>4. CASE result.mode # "local_retrieval_only"
    <3>1. Merged(result, local, ranked) /\ CoherentLocal(local, ranked)
      <4>1. local.mode = "local_retrieval_only" /\ local \in Results
        BY DEF IInv, TypeOK, LocalInv, CoherentLocal
      <4>2. [local EXCEPT !.status = result.status, !.warnings = 1].mode = local.mode
        BY <4>1 DEF Results
      <4> QED
        BY <2>4, <4>1, <4>2 DEF IInv, LocalInv
    <3>2. result.primary \notin {ranked[i].project : i \in result.relevant}
      BY <3>1 DEF Merged
    <3>3. /\ result.linked = local.linked /\ result.semantic \subseteq Candidates
          /\ result.linked \subseteq 2..Len(ranked) /\ result.relevant \subseteq 1..Len(ranked)
          /\ result.mode = "semantic_routed" /\ local.primary = ranked[1].project
      BY <3>1 DEF Merged, CoherentLocal, Candidates
    <3>4. result.primary \in RelatedProjects => result.primary # local.primary
      BY <2>2, <3>2, <3>3, FirstIsNotLater
    <3>5. RelatedProjects \subseteq Candidates
      BY <2>2, <3>3 DEF Candidates
    <3> QED
      BY <2>4, <3>2, <3>3, <3>4, <3>5 DEF ResultIsCoherent
  <2> QED
    BY <2>3, <2>4
<1> QED
  BY <1>1, Invariance, PTL

\* The variables of Route and of its provider's call have their types.
THEOREM TypeCorrect == Spec => []TypeOK
<1>1. IInv => TypeOK
  BY DEF IInv
<1> QED
  BY <1>1, Invariance, PTL

\* The provider is asked only with candidates and about a result that is still the
\* local one, and its call is under way exactly while a request waits for it
\* (router.go, Route).
THEOREM AlwaysAskedWithCandidates == Spec => []ProviderIsAskedWithCandidates
<1>1. IInv => ProviderIsAskedWithCandidates
  BY DEF IInv, Progress, ProviderIsAskedWithCandidates
<1> QED
  BY <1>1, Invariance, PTL

\* What only an answer can tell is told only of an answer that was read, in
\* whatever order clocks, network and caller end the call (client.go, Evaluate).
THEOREM KindAlwaysHasItsCause == Spec => []KindHasItsCause
<1>1. Init => KindHasItsCause
  BY DEF Init, GatewayInit, KindHasItsCause
<1>2. KindHasItsCause /\ [Next]_vars => KindHasItsCause'
  <2> SUFFICES ASSUME KindHasItsCause, [Next]_vars PROVE KindHasItsCause'
    OBVIOUS
  <2> USE DEF KindHasItsCause
  <2>1. CASE UNCHANGED gatewayVars
    BY <2>1 DEF gatewayVars
  <2>2. CASE Send
    BY <2>2 DEF Send
  <2>3. CASE Take
    BY <2>3 DEF Take
  <2>4. CASE Evaluate
    <3>1. CASE Headers \/ ClientTimeout \/ NetworkFails \/ CallerLeaves
      BY <3>1 DEF Headers, ClientTimeout, NetworkFails, CallerLeaves
    <3>2. CASE DoFails
      BY <3>2 DEF DoFails, KindOfDoError
    <3>3. CASE ReadFails
      BY <3>3 DEF ReadFails
    <3>4. CASE ReadBody
      BY <3>4 DEF ReadBody
    <3> QED
      BY <2>4, <3>1, <3>2, <3>3, <3>4 DEF Evaluate
  <2>5. CASE UNCHANGED vars
    BY <2>1, <2>5 DEF vars
  <2> QED
    BY <2>1, <2>2, <2>3, <2>4, <2>5
       DEF Next, Step, Ask, Search, SearchFails, Link, FallBack, ApplyJev, AskProvider,
           Return, Replace
<1> QED
  BY <1>1, <1>2, PTL DEF Spec

-----------------------------------------------------------------------------
(* What the page makes of a result *)

\* A candidate has its own rank on the map, whatever else the page lists.
LEMMA PlaceOfCandidate ==
    ASSUME NEW c \in Seq(Candidate), Distinct(c), NEW projects, NEW i \in 1..Len(c)
    PROVE  Place(c[i].project, c, projects) = i
<1> DEFINE others == projects \ {c[k].project : k \in 1..Len(c)}
<1>1. c[i].project \notin others
  OBVIOUS
<1>2. Place(c[i].project, c, projects) = CHOOSE k \in 1..Len(c) : c[k].project = c[i].project
  BY <1>1 DEF Place
<1>3. \A k \in 1..Len(c) : c[k].project = c[i].project => k = i
  BY DEF Distinct
<1> QED
  BY <1>2, <1>3

\* The best score, by which the percentages are taken, is the first one's or 1.
LEMMA BestScore ==
    ASSUME NEW c \in Seq(Candidate), c # <<>>, BestFirst(c)
    PROVE  (CHOOSE b \in {Unit} \cup {c[j].score : j \in 1..Len(c)} :
                b >= Unit /\ \A j \in 1..Len(c) : c[j].score <= b)
             = IF c[1].score >= Unit THEN c[1].score ELSE Unit
<1> DEFINE values == {Unit} \cup {c[j].score : j \in 1..Len(c)}
           IsBest(b) == b >= Unit /\ \A j \in 1..Len(c) : c[j].score <= b
           best == IF c[1].score >= Unit THEN c[1].score ELSE Unit
<1>1. /\ Unit \in Nat /\ 1 \in 1..Len(c)
      /\ \A j \in 1..Len(c) : c[j].score \in Nat /\ c[j].score <= c[1].score
  <2>1. Unit \in Nat /\ 1 \in 1..Len(c)
    BY RouteScreenAssumption
  <2>2. \A j \in 1..Len(c) : c[j].score \in Nat
    BY ScoresAreNumbers
  <2>3. \A j \in 1..Len(c) : j # 1 => c[1].score >= c[j].score
    BY <2>1 DEF BestFirst
  <2> QED
    BY <2>1, <2>2, <2>3
<1>2. best \in values /\ IsBest(best)
  BY <1>1
<1>3. \A b \in values : IsBest(b) => b = best
  <2> SUFFICES ASSUME NEW b \in values, IsBest(b) PROVE b = best
    OBVIOUS
  <2>1. CASE b = Unit
    BY <1>1, <2>1
  <2>2. CASE b # Unit
    <3>1. PICK j \in 1..Len(c) : b = c[j].score
      BY <2>2
    <3> QED
      BY <1>1, <3>1
  <2> QED
    BY <2>1, <2>2
<1> HIDE DEF values, IsBest, best
<1>4. (CHOOSE b \in values : IsBest(b)) = best
  BY <1>2, <1>3
<1> QED
  BY <1>4 DEF values, IsBest, best

\* Rounding half up keeps the order of the scores.
LEMMA PercentagesAreOrdered ==
    ASSUME NEW s \in Nat, NEW t \in Nat, s <= t, NEW best \in Nat \ {0}
    PROVE  (200 * t + best) \div (2 * best) >= (200 * s + best) \div (2 * best)
<1> DEFINE a == 200 * s + best
           b == 200 * t + best
           n == 2 * best
<1>1. a \in Nat /\ b \in Nat /\ a <= b /\ n \in Nat \ {0}
  OBVIOUS
<1> HIDE DEF a, b, n
<1>2. b \div n >= a \div n
  BY <1>1
<1> QED
  BY <1>2 DEF a, b, n

\* No score is above 100% of a score that is not below it, and that one is at 100%.
LEMMA PercentageOfBest ==
    ASSUME NEW s \in Nat, NEW best \in Nat \ {0}, s <= best
    PROVE  /\ (200 * s + best) \div (2 * best) <= 100
           /\ (200 * best + best) \div (2 * best) = 100
  OBVIOUS

\* The panel: no percentage is above 100 or an earlier one, and the first is at
\* 100% unless all are below 1.
LEMMA PanelIsOrdered ==
    ASSUME NEW c \in Seq(Candidate), c # <<>>, BestFirst(c)
    PROVE  /\ Panel(c)[1] <= 100
           /\ c[1].score >= Unit => Panel(c)[1] = 100
           /\ \A i, j \in DOMAIN Panel(c) : i < j => Panel(c)[i] >= Panel(c)[j]
<1> DEFINE best == IF c[1].score >= Unit THEN c[1].score ELSE Unit
<1>1. DOMAIN Panel(c) \subseteq 1..Len(c) /\ 1 \in DOMAIN Panel(c)
  BY RouteScreenAssumption DEF Panel
<1>2. \A i \in 1..Len(c) : Percent(c, i) = (200 * c[i].score + best) \div (2 * best)
  BY BestScore DEF Percent
<1>3. \A i \in DOMAIN Panel(c) :
        Panel(c)[i] = (200 * c[i].score + best) \div (2 * best)
  BY <1>1, <1>2 DEF Panel
<1>4. \A i \in 1..Len(c) : c[i].score \in Nat
  BY ScoresAreNumbers
<1>5. best \in Nat \ {0} /\ c[1].score \in Nat /\ c[1].score <= best
  BY <1>1, <1>4, RouteScreenAssumption
<1>6. c[1].score >= Unit => best = c[1].score
  OBVIOUS
<1> HIDE DEF best
<1>7. Panel(c)[1] <= 100 /\ (c[1].score >= Unit => Panel(c)[1] = 100)
  <2>1. Panel(c)[1] = (200 * c[1].score + best) \div (2 * best)
    BY <1>1, <1>3
  <2>2. Panel(c)[1] <= 100
    <3>1. (200 * c[1].score + best) \div (2 * best) <= 100
      BY <1>5, PercentageOfBest, Zenon
    <3> QED
      BY <2>1, <3>1
  <2>3. ASSUME c[1].score >= Unit PROVE Panel(c)[1] = 100
    BY <1>5, <1>6, <2>1, <2>3, PercentageOfBest
  <2> QED
    BY <2>2, <2>3
<1>8. ASSUME NEW i \in DOMAIN Panel(c), NEW j \in DOMAIN Panel(c), i < j
      PROVE  Panel(c)[i] >= Panel(c)[j]
  <2>1. c[i].score \in Nat /\ c[j].score \in Nat /\ c[j].score <= c[i].score
    BY <1>1, <1>4, <1>8 DEF BestFirst
  <2>2. (200 * c[i].score + best) \div (2 * best) >= (200 * c[j].score + best) \div (2 * best)
    BY <1>5, <2>1, PercentagesAreOrdered, Zenon
  <2> QED
    BY <1>3, <2>2, Zenon
<1> QED
  BY <1>7, <1>8

\* The map colours the ranks that it reaches of those that were decided on,
\* whichever projects the page lists.
LEMMA ColouredRanks ==
    ASSUME NEW c \in Seq(Candidate), c # <<>>, Distinct(c), NEW projects, NEW r,
           r.primary = c[1].project, r.linked \cup r.relevant \subseteq 1..Len(c)
    PROVE  Coloured(r, c, projects) =
               {c[i].project : i \in ({1} \cup r.linked \cup r.relevant) \cap 1..MapSize}
<1> DEFINE decided == {1} \cup r.linked \cup r.relevant
<1>1. decided \subseteq 1..Len(c)
  OBVIOUS
<1>2. \A p : (p = r.primary \/ p \in {c[i].project : i \in r.linked \cup r.relevant})
             <=> (\E i \in decided : p = c[i].project)
  OBVIOUS
<1>3. \A i \in decided : /\ Place(c[i].project, c, projects) = i
                         /\ c[i].project \in projects \cup {c[k].project : k \in 1..Len(c)}
  BY <1>1, PlaceOfCandidate
<1>4. \A i \in decided : i <= MapSize <=> i \in 1..MapSize
  BY <1>1, RouteScreenAssumption
<1> HIDE DEF decided
<1>5. \A p : p \in Coloured(r, c, projects) <=>
               \E i \in decided \cap 1..MapSize : p = c[i].project
  <2> TAKE p
  <2>1. p \in Coloured(r, c, projects) <=>
           /\ p \in projects \cup {c[k].project : k \in 1..Len(c)}
           /\ Place(p, c, projects) <= MapSize
           /\ \E i \in decided : p = c[i].project
    BY <1>2 DEF Coloured, Drawn
  <2>2. ASSUME NEW i \in decided, p = c[i].project
        PROVE  /\ p \in projects \cup {c[k].project : k \in 1..Len(c)}
               /\ Place(p, c, projects) <= MapSize <=> i \in 1..MapSize
    BY <1>3, <1>4, <2>2
  <2> QED
    BY <2>1, <2>2
<1>6. Coloured(r, c, projects) = {c[i].project : i \in decided \cap 1..MapSize}
  BY <1>5
<1> QED
  BY <1>6 DEF decided

\* Map and panel tell what Route decided, however old the page's list of projects
\* is (App.jsx, SignalMap and EvidencePanel).
THEOREM ScreenAlwaysFollowsRoute == Spec => []ScreenFollowsRoute
<1>1. IInv => ScreenFollowsRoute
  <2> SUFFICES ASSUME IInv, pc = "answered", result.mode = "local_retrieval_only",
                      ranked # <<>>
               PROVE  LET panel == Panel(ranked) IN
                      /\ \A snapshot \in Contents :
                          Coloured(result, ranked, Listed(snapshot)) =
                              {ranked[i].project : i \in ({1} \cup RelatedRanks) \cap 1..MapSize}
                      /\ result.primary = ranked[1].project
                      /\ panel[1] <= 100 /\ (ranked[1].score >= Unit => panel[1] = 100)
                      /\ \A i, j \in DOMAIN panel : i < j => panel[i] >= panel[j]
    BY DEF ScreenFollowsRoute
  <2>1. result.primary = ranked[1].project /\ RelatedRanks \subseteq 1..Len(ranked)
    BY LocalAnswer DEF RelatedRanks
  <2>2. ranked \in Seq(Candidate) /\ Distinct(ranked) /\ BestFirst(ranked)
    BY DEF IInv, TypeOK, Ordered
  <2>3. \A snapshot \in Contents :
          Coloured(result, ranked, Listed(snapshot)) =
              {ranked[i].project : i \in ({1} \cup RelatedRanks) \cap 1..MapSize}
    BY <2>1, <2>2, ColouredRanks DEF RelatedRanks
  <2> QED
    BY <2>1, <2>2, <2>3, PanelIsOrdered
<1> QED
  BY <1>1, Invariance, PTL

-----------------------------------------------------------------------------
(* The ranking *)

\* Before is a total order: no two candidates are left in an order that the sort
\* would be free to choose.
LEMMA BeforeIsTotal ==
    /\ \A a, b \in Candidate : a = b \/ Before(a, b) \/ Before(b, a)
    /\ \A a, b, e \in Candidate : Before(a, b) /\ Before(b, e) => Before(a, e)
<1>1. \A x \in Candidate : /\ x.project \in Int /\ x.score \in Int
                           /\ x = [project |-> x.project, score |-> x.score]
  <2>1. \A x \in Scores : x \in Int
    BY RouteAssumption
  <2>2. \A x \in Projects : x \in Int
    BY DEF Projects
  <2> QED
    BY <2>1, <2>2 DEF Candidate
<1>2. \A a, b \in Candidate : a.project = b.project /\ a.score = b.score => a = b
  BY <1>1
<1>3. \A a, b \in Candidate : a = b \/ Before(a, b) \/ Before(b, a)
  BY <1>1, <1>2 DEF Before
<1>4. \A a, b, e \in Candidate : Before(a, b) /\ Before(b, e) => Before(a, e)
  BY <1>1 DEF Before
<1> QED
  BY <1>3, <1>4

\* The projects that match, with their scores.
Hits(names, score) == {[project |-> p, score |-> score[p]] : p \in {q \in names : score[q] > 0}}

LEMMA HitsAreCandidates ==
    ASSUME NEW names \in SUBSET Projects, NEW score \in [names -> Scores]
    PROVE  Hits(names, score) \subseteq Candidate
  BY DEF Hits, Candidate

\* A candidate's rank is the number of matching projects before it, whatever
\* top_k is.
LEMMA RankIsCount ==
    ASSUME NEW names \in SUBSET Projects, NEW score \in [names -> Scores], NEW limit,
           NEW c \in Seq(Candidate), IsSearchResult(c, names, score, limit),
           NEW i \in 1..Len(c)
    PROVE  /\ c[i] \in Hits(names, score)
           /\ IsFiniteSet({h \in Hits(names, score) : Before(h, c[i])})
           /\ Cardinality({h \in Hits(names, score) : Before(h, c[i])}) = i - 1
<1> DEFINE hits == Hits(names, score)
           above == {h \in hits : Before(h, c[i])}
           f == [j \in 1..(i - 1) |-> c[j]]
<1>1. /\ hits \subseteq Candidate /\ Len(c) \in Nat
      /\ \A j \in 1..Len(c) : c[j] \in hits /\ c[j] \in Candidate
      /\ \A j, k \in 1..Len(c) : j < k => Before(c[j], c[k])
      /\ \A left \in hits : (\A j \in 1..Len(c) : c[j] # left) => Before(c[Len(c)], left)
  <2>1. hits \subseteq Candidate /\ Len(c) \in Nat
    BY HitsAreCandidates
  <2> QED
    BY <2>1 DEF IsSearchResult, Hits
<1> HIDE DEF hits
<1>2. \A j \in 1..(i - 1) : j \in 1..Len(c) /\ c[j] \in above
  BY <1>1
<1>3. \A h \in above : \E j \in 1..(i - 1) : c[j] = h
  <2> SUFFICES ASSUME NEW h \in above PROVE \E j \in 1..(i - 1) : c[j] = h
    OBVIOUS
  <2>1. h \in Candidate /\ c[i] \in Candidate /\ Before(h, c[i])
    BY <1>1
  <2>2. ASSUME \A j \in 1..Len(c) : c[j] # h PROVE FALSE
    <3>1. Before(c[Len(c)], h) /\ Len(c) \in 1..Len(c)
      BY <1>1, <2>2
    <3>2. Before(c[Len(c)], c[i])
      BY <1>1, <2>1, <3>1, BeforeIsTotal
    <3>3. i = Len(c) \/ Before(c[i], c[Len(c)])
      BY <1>1, <3>1
    <3>4. Before(c[i], c[i])
      BY <1>1, <3>1, <3>2, <3>3, BeforeIsTotal
    <3> QED
      BY <2>1, <3>4, BeforeIsStrict
  <2>3. PICK j \in 1..Len(c) : c[j] = h
    BY <2>2
  <2>4. j < i
    <3>1. CASE j = i
      BY <2>1, <2>3, <3>1, BeforeIsStrict
    <3>2. CASE j > i
      <4>1. Before(c[i], h)
        BY <1>1, <2>3, <3>2
      <4>2. Before(h, h)
        BY <2>1, <4>1, BeforeIsTotal
      <4> QED
        BY <2>1, <4>2, BeforeIsStrict
    <3> QED
      BY <3>1, <3>2
  <2> QED
    BY <2>3, <2>4
<1>4. \A j, k \in 1..(i - 1) : c[j] = c[k] => j = k
  <2> SUFFICES ASSUME NEW j \in 1..(i - 1), NEW k \in 1..(i - 1), c[j] = c[k], j < k
               PROVE  FALSE
    OBVIOUS
  <2>1. Before(c[j], c[j]) /\ c[j] \in Candidate
    BY <1>1, <1>2
  <2> QED
    BY <2>1, BeforeIsStrict
<1>5. f \in Bijection(1..(i - 1), above)
  BY <1>2, <1>3, <1>4 DEF Bijection, Injection, Surjection, IsInjective
<1>6. IsFiniteSet(1..(i - 1)) /\ Cardinality(1..(i - 1)) = i - 1
  BY FS_Interval
<1>7. IsFiniteSet(above) /\ Cardinality(above) = i - 1
  BY <1>5, <1>6, FS_Bijection DEF ExistsBijection
<1> QED
  BY <1>1, <1>7 DEF hits

\* What has as many matching projects before it is the same project.
LEMMA SameRankSameHit ==
    ASSUME NEW S \in SUBSET Candidate, NEW a \in S, NEW b \in S,
           IsFiniteSet({h \in S : Before(h, a)}), IsFiniteSet({h \in S : Before(h, b)}),
           Cardinality({h \in S : Before(h, a)}) = Cardinality({h \in S : Before(h, b)})
    PROVE  a = b
<1>1. ASSUME NEW x \in S, NEW y \in S, Before(x, y),
             IsFiniteSet({h \in S : Before(h, x)}), IsFiniteSet({h \in S : Before(h, y)})
      PROVE  Cardinality({h \in S : Before(h, x)}) < Cardinality({h \in S : Before(h, y)})
  <2> DEFINE X == {h \in S : Before(h, x)}
             Y == {h \in S : Before(h, y)}
  <2>1. x \notin X
    BY BeforeIsStrict
  <2>2. X \cup {x} \in SUBSET Y
    BY <1>1, BeforeIsTotal
  <2> HIDE DEF X, Y
  <2>3. Cardinality(X \cup {x}) = Cardinality(X) + 1
    BY <1>1, <2>1, FS_AddElement DEF X
  <2>4. Cardinality(X \cup {x}) <= Cardinality(Y)
    BY <1>1, <2>2, FS_Subset DEF Y
  <2>5. Cardinality(X) \in Nat /\ Cardinality(Y) \in Nat
    BY <1>1, FS_CardinalityType DEF X, Y
  <2>6. Cardinality(X) < Cardinality(Y)
    BY <2>3, <2>4, <2>5
  <2> QED
    BY <2>6 DEF X, Y
<1>2. ~ Before(a, b)
  <2> SUFFICES ASSUME Before(a, b) PROVE FALSE
    OBVIOUS
  <2>1. Cardinality({h \in S : Before(h, a)}) < Cardinality({h \in S : Before(h, b)})
    BY <1>1
  <2> QED
    BY <2>1, FS_CardinalityType
<1>3. ~ Before(b, a)
  <2> SUFFICES ASSUME Before(b, a) PROVE FALSE
    OBVIOUS
  <2>1. Cardinality({h \in S : Before(h, b)}) < Cardinality({h \in S : Before(h, a)})
    BY <1>1
  <2> QED
    BY <2>1, FS_CardinalityType
<1> QED
  BY <1>2, <1>3, BeforeIsTotal

\* top_k only cuts: of two searches of the same projects by the same scores, the
\* one with the smaller limit answers the beginning of the other's list (store.go,
\* Search).  The code's sort.Slice is not stable, which does not matter here.
THEOREM LimitOnlyCuts ==
    ASSUME NEW names \in SUBSET Projects, NEW score \in [names -> Scores],
           NEW k \in Nat, NEW l \in Nat, k <= l,
           NEW c \in Seq(Candidate), IsSearchResult(c, names, score, k),
           NEW d \in Seq(Candidate), IsSearchResult(d, names, score, l)
    PROVE  Len(c) <= Len(d) /\ \A i \in 1..Len(c) : c[i] = d[i]
<1> DEFINE hits == Hits(names, score)
           Above(a) == {h \in hits : Before(h, a)}
<1>1. \A i \in 1..Len(c) : /\ c[i] \in hits
                           /\ IsFiniteSet(Above(c[i])) /\ Cardinality(Above(c[i])) = i - 1
  BY RankIsCount
<1>2. \A i \in 1..Len(d) : /\ d[i] \in hits
                           /\ IsFiniteSet(Above(d[i])) /\ Cardinality(Above(d[i])) = i - 1
  BY RankIsCount
<1>3. Len(c) <= Len(d)
  <2> SUFFICES ASSUME Len(d) < Len(c) PROVE FALSE
    OBVIOUS
  <2>1. Len(c) <= k /\ Len(d) < l /\ Len(c) \in 1..Len(c)
    BY DEF IsSearchResult
  <2>2. PICK j \in 1..Len(d) : d[j] = c[Len(c)]
    <3>1. c[Len(c)] \in hits
      BY <1>1, <2>1
    <3>2. \A left \in hits : left \notin {d[i] : i \in 1..Len(d)} => Len(d) = l
      BY DEF IsSearchResult, Hits
    <3>3. Len(d) # l
      BY <2>1
    <3> HIDE DEF hits
    <3> QED
      BY <3>1, <3>2, <3>3
  <2>3. Len(c) - 1 = j - 1
    BY <1>1, <1>2, <2>1, <2>2
  <2> QED
    BY <2>2, <2>3
<1>4. ASSUME NEW i \in 1..Len(c) PROVE c[i] = d[i]
  <2>1. i \in 1..Len(d)
    BY <1>3
  <2>2. hits \in SUBSET Candidate
    BY HitsAreCandidates
  <2>3. /\ c[i] \in hits /\ d[i] \in hits
        /\ IsFiniteSet(Above(c[i])) /\ IsFiniteSet(Above(d[i]))
        /\ Cardinality(Above(c[i])) = Cardinality(Above(d[i]))
    BY <1>1, <1>2, <2>1
  <2> HIDE DEF hits
  <2> QED
    BY <2>2, <2>3, SameRankSameHit
<1> QED
  BY <1>3, <1>4

\* A task has one ranking: the answer of Search depends on nothing but the index,
\* the scores and top_k, not on the order in which the rows were read.
THEOREM RankingIsDetermined ==
    ASSUME NEW names \in SUBSET Projects, NEW score \in [names -> Scores],
           NEW limit \in Nat,
           NEW c \in Seq(Candidate), IsSearchResult(c, names, score, limit),
           NEW d \in Seq(Candidate), IsSearchResult(d, names, score, limit)
    PROVE  c = d
<1>1. Len(c) <= Len(d) /\ \A i \in 1..Len(c) : c[i] = d[i]
  BY LimitOnlyCuts
<1>2. Len(d) <= Len(c)
  BY LimitOnlyCuts
<1>3. Len(c) = Len(d)
  BY <1>1, <1>2
<1> QED
  BY <1>1, <1>3
=============================================================================
