--------------------------- MODULE MCProjectScan ---------------------------
(***************************************************************************)
(* Instances of ProjectScan for TLC: three paths of which two may be       *)
(* looked at, a budget of two bytes, and two bytes of each file.           *)
(***************************************************************************)
EXTENDS ProjectScan

Trait(indexed, dependency, ignored) ==
    [indexed |-> indexed, dependency |-> dependency, ignored |-> ignored]

Content(size, text, splits) == [size |-> size, text |-> text, splits |-> splits]

SomeTraits == {Trait(TRUE, FALSE, FALSE), Trait(FALSE, FALSE, FALSE), Trait(TRUE, TRUE, TRUE)}

\* A short text, a binary file, and long texts, of which one has a character
\* across the limit.
SomeContents == {Content(1, TRUE, FALSE), Content(2, FALSE, FALSE),
                 Content(3, TRUE, FALSE), Content(3, TRUE, TRUE)}
=============================================================================
