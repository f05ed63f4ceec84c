---------------------------- MODULE MCDashboard ----------------------------
(***************************************************************************)
(* Instances of Dashboard for TLC: an index of two projects or fewer, and  *)
(* three demo projects.                                                    *)
(***************************************************************************)
EXTENDS Dashboard

CONSTANTS p1, p2, d1, d2, d3

TwoNames == {p1, p2}
OneName == {p1}
NoName == {}
ThreeDemos == {d1, d2, d3}
=============================================================================
