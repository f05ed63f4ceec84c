---------------------------- MODULE MCIndexStore ----------------------------
(***************************************************************************)
(* Instances of IndexStore for TLC. Workspace "here" starts with shop/api  *)
(* and pay; in one instance it comes to two directories whose base name is *)
(* api, which the primary key refuses.                                     *)
(***************************************************************************)
EXTENDS IndexStore

CONSTANTS a1, a2, a3, p1, p2, here, there, shopApi, pay, payApi, tools, farPay

\* a3 is in a process of its own.
TwoProcesses == [a \in Actors |-> IF a = a3 THEN p2 ELSE p1]
AllHere == [a \in Actors |-> here]
HereAndThere == [a \in Actors |-> IF a = a3 THEN there ELSE here]

Base == [d \in Dirs |-> CASE d \in {shopApi, payApi} -> "api"
                         [] d \in {pay, farPay} -> "pay"
                         [] OTHER -> "tools"]

\* Two editions without a clash.
Steady == [w \in Roots |-> <<{shopApi, pay}, {pay}>>]

\* Two workspaces behind the default database file: one comes to a clash, the
\* other loses a project.  Both have one of the same name.
TwoWorkspaces == [w \in Roots |->
    IF w = here THEN <<{shopApi, pay}, {shopApi, payApi}>> ELSE <<{farPay, tools}, {farPay}>>]
=============================================================================
