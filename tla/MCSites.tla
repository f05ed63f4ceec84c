------------------------------ MODULE MCSites ------------------------------
(***************************************************************************)
(* Instance of Sites for TLC: two editions, so that a page and its script  *)
(* can be of different ones.                                               *)
(***************************************************************************)
EXTENDS Sites
=============================================================================
