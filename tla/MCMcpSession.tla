---------------------------- MODULE MCMcpSession ----------------------------
(***************************************************************************)
(* Instances of McpSession for TLC: three lines, two versions of the       *)
(* workspace after the first.                                              *)
(***************************************************************************)
EXTENDS McpSession

EveryMethod == AllMethods
=============================================================================
