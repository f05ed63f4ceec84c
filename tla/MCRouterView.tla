--------------------------- MODULE MCRouterView ---------------------------
(***************************************************************************)
(* Instance of RouterView for TLC: two tasks and a blank one, a request    *)
(* of a view that is gone and one of the view that is shown, and two       *)
(* copies or toasts at a time.                                             *)
(***************************************************************************)
EXTENDS RouterView

CONSTANTS t1, t2, r1, r2

ThreeTasks == {t1, t2, Blank}
TwoPosts == {r1, r2}
=============================================================================
