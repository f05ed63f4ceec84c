--------------------------- MODULE MCRouteEngine ---------------------------
(***************************************************************************)
(* Instances of RouteEngine for TLC: an index of three projects that loses *)
(* one, and may be empty; scores on both sides of the two thresholds.      *)
(***************************************************************************)
EXTENDS RouteScreen

Editions ==
    {[p \in 1..3 |-> IF p = 1 THEN {2} ELSE {}],
     [p \in {1, 3} |-> IF p = 3 THEN {1} ELSE {}],
     <<>>}

TwoTasks == {{"reliability", "api"}, {}}

\* An answer to every other question, or to none.
SomeReplies ==
    {[choice |-> choice, probable |-> probable, relevant |-> relevant,
      cross |-> flag, clarify |-> flag,
      change |-> IF flag = "absent" THEN "absent" ELSE "timeout",
      missing |-> IF flag = "yes" THEN Dimensions ELSE {}] :
        choice \in Projects \cup {Invented, NoChoice}, probable \in {{}, Projects},
        relevant \in SUBSET Projects, flag \in {"absent", "yes", "no"}}
=============================================================================
