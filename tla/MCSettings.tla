----------------------------- MODULE MCSettings -----------------------------
(***************************************************************************)
(* Instances of Settings for TLC: two workspaces, the process in the first.*)
(***************************************************************************)
EXTENDS Settings

CONSTANTS w1, w2

TwoDirs == {w1, w2}
AllOptions == {"provider", "provider_timeout", "model", "database", "top_k"}
OnePerKind == {"provider", "provider_timeout", "database"}
OneFlag == {<<>>, <<w2>>}
RepeatedFlag == {<<>>, <<w2>>, <<w1, w2>>}

SomeShared == {"absent", "own", "invalid"}
SomeLocal == {"absent", "own", "empty"}
SomeTeam == {"own", "broken"}

FewTexts == {"absent", "own"}
OneText == {"own"}
=============================================================================
