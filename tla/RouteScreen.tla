---------------------------- MODULE RouteScreen ----------------------------
(***************************************************************************)
(* What RouterView of web/src/App.jsx makes of a result of Route: the      *)
(* nodes of SignalMap and the percentages of EvidencePanel.  The page      *)
(* fetched its projects when it was opened, so they are of any earlier     *)
(* value of the index, while the candidates are of the route's.            *)
(***************************************************************************)
EXTENDS RouteEngine, FiniteSets

CONSTANTS
    MapSize,        \* repositories on the map: 5
    PanelSize,      \* candidates in the panel: 3
    Unit,           \* the score that is 1.0
    DemoProjects    \* what the page lists when it has no projects

ASSUME RouteScreenAssumption ==
    /\ MapSize \in Nat /\ {PanelSize, Unit} \subseteq Nat \ {0}
    /\ DemoProjects \subseteq Projects

\* The projects that the page lists when it fetched this snapshot.
Listed(snapshot) == IF DOMAIN snapshot = {} THEN DemoProjects ELSE DOMAIN snapshot

\* The place of p among the candidates and then the other projects, by name.
Place(p, c, projects) ==
    LET others == projects \ {c[i].project : i \in 1..Len(c)}
    IN  IF p \in others THEN Len(c) + Cardinality({q \in others : q <= p})
        ELSE CHOOSE i \in 1..Len(c) : c[i].project = p

\* The repositories that are drawn, and those of them that are not grey.
Drawn(c, projects) ==
    {p \in projects \cup {c[i].project : i \in 1..Len(c)} : Place(p, c, projects) <= MapSize}

Coloured(r, c, projects) ==
    {p \in Drawn(c, projects) :
        p = r.primary \/ p \in {c[i].project : i \in r.linked \cup r.relevant}}

\* score: local_score as a percentage of the best, or of 1 if all are below it,
\* rounded half up.
Percent(c, i) ==
    LET best == CHOOSE b \in {Unit} \cup {c[j].score : j \in 1..Len(c)} :
                    b >= Unit /\ \A j \in 1..Len(c) : c[j].score <= b
    IN  (200 * c[i].score + best) \div (2 * best)

\* The percentages of the panel, from its top.
Panel(c) == [i \in {j \in 1..Len(c) : j <= PanelSize} |-> Percent(c, i)]

-----------------------------------------------------------------------------
(* Property *)

\* For a result of local retrieval, map and panel tell what Route decided: the
\* map colours the primary and its related projects as far as it reaches, and no
\* project that Route did not name, however old the page's list is; the panel
\* begins with the primary, at 100% unless its score is below 1, and none of its
\* percentages is above an earlier one or 100.
ScreenFollowsRoute ==
    pc = "answered" /\ result.mode = "local_retrieval_only" /\ ranked # <<>> =>
        LET panel == Panel(ranked) IN
        /\ \A snapshot \in Contents :
            Coloured(result, ranked, Listed(snapshot)) =
                {ranked[i].project : i \in ({1} \cup RelatedRanks) \cap 1..MapSize}
        /\ result.primary = ranked[1].project
        /\ panel[1] <= 100 /\ (ranked[1].score >= Unit => panel[1] = 100)
        /\ \A i, j \in DOMAIN panel : i < j => panel[i] >= panel[j]
=============================================================================
