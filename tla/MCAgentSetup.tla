---------------------------- MODULE MCAgentSetup ----------------------------
(***************************************************************************)
(* Instances of AgentSetup for TLC: a user with one server and one comment *)
(* in mcp.json, three runs of setup, and as many seconds.                  *)
(***************************************************************************)
EXTENDS AgentSetup, TLC

CONSTANTS s1, s2, s3, server, comment

ThreeSetups == {s1, s2, s3}
OwnItems == {server, comment}
Json == {server}

\* One client, or all of them in the order of detectedClients.
AnyClients == {<<"claude">>, <<"cursor">>, <<"codex", "claude", "cursor">>}

Symmetry == Permutations(ThreeSetups)
=============================================================================
