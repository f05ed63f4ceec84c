---------------------------- MODULE ProjectScan ----------------------------
(***************************************************************************)
(* scanProject of internal/scanner/scanner.go: the files of one project    *)
(* are listed (by git, or by walking the directory), cut to the number the *)
(* configuration allows, and read one after another until the bytes the    *)
(* configuration allows are used up.  The disk may change between any two  *)
(* of these steps.                                                         *)
(*                                                                         *)
(* Files are numbered in the order of sort.Strings on their paths.  What a *)
(* file says is left out: only its size, and whether it is UTF-8 text,     *)
(* count here.  The text that is made for the index is left out too: it    *)
(* has, for each file, a header and the analyzers' evidence beside the     *)
(* bytes that were read, and no limit counts those.                        *)
(***************************************************************************)
EXTENDS Integers, Sequences, FiniteSets

CONSTANTS
    MaxPaths,           \* bound on the paths of a project
    MaxFiles,           \* index.max_files_per_project
    MaxFileBytes,       \* index.max_bytes_per_file
    MaxProjectBytes,    \* index.max_bytes_per_project
    PathTraits,         \* what the name of a path says of it
    Contents,           \* what may be in a file
    Absent              \* no file

Paths == 1..MaxPaths

\* What the scanner tells from a path: is it of a kind that is indexed
\* (shouldIndex), under a dependency directory (isIgnoredDir), ignored by git?
TraitType == [indexed : BOOLEAN, dependency : BOOLEAN, ignored : BOOLEAN]

\* splits: the limit of bytes falls within one of the file's characters.
ContentType == [size : Nat, text : BOOLEAN, splits : BOOLEAN]

ASSUME ProjectScanAssumption ==
    /\ MaxPaths \in Nat
    /\ MaxFiles \in Nat \ {0} /\ MaxFileBytes \in Nat \ {0} /\ MaxProjectBytes \in Nat \ {0}
    /\ PathTraits \subseteq TraitType
    /\ Contents \subseteq ContentType
    /\ Absent \notin Contents

VARIABLES
    git,        \* is git installed, and the project in a repository?
    traits,     \* traits[p], of every path
    disk,       \* disk[p]: the content of the file at p, or Absent
    pc,         \* listing, reading or done
    files,      \* the paths to look at, in order
    next,       \* the position in files
    read,       \* the positions of the files that went into the index
    total,      \* totalBytes: the bytes read of them
    steady      \* (auxiliary) the paths that have not changed since Init

vars == <<git, traits, disk, pc, files, next, read, total, steady>>

There == {p \in Paths : disk[p] # Absent}

TypeOK ==
    /\ git \in BOOLEAN
    /\ traits \in [Paths -> PathTraits]
    /\ disk \in [Paths -> Contents \cup {Absent}]
    /\ pc \in {"listing", "reading", "done"}
    /\ files \in Seq(Paths)
    /\ next \in Nat \ {0}
    /\ read \in SUBSET Nat
    /\ total \in Nat
    /\ steady \in SUBSET Paths

Init ==
    /\ git \in BOOLEAN
    /\ traits \in [Paths -> PathTraits]
    /\ disk \in [Paths -> Contents \cup {Absent}]
    /\ pc = "listing"
    /\ files = <<>>
    /\ next = 1
    /\ read = {}
    /\ total = 0
    /\ steady = Paths

-----------------------------------------------------------------------------
Increasing(s) == \A i, j \in DOMAIN s : i < j => s[i] < s[j]

\* Mutation: the walk enters every directory.
IsListingOfAll(listed) ==
    IF git
    THEN \E tracked \in SUBSET Paths :
            listed = {p \in There : ~ traits[p].ignored} \cup (tracked \ There)
    ELSE listed = There

\* projectFiles: git lists what it does not ignore, and tracked files that are
\* deleted; a walk lists what is not under a dependency directory.
IsListing(listed) ==
    IF git
    THEN \E tracked \in SUBSET Paths :
            listed = {p \in There : ~ traits[p].ignored} \cup (tracked \ There)
    ELSE listed = {p \in There : ~ traits[p].dependency}

CutToLimit(s) == SubSeq(s, 1, IF Len(s) > MaxFiles THEN MaxFiles ELSE Len(s))

\* Mutation: positions count from zero.
ListFromZero ==
    /\ pc = "listing"
    /\ \E listed \in SUBSET Paths :
        /\ IsListing(listed)
        /\ \E s \in [1..Cardinality(listed) -> listed] :
            /\ Increasing(s)
            /\ files' = CutToLimit(s)
    /\ pc' = "reading"
    /\ next' = 0
    /\ UNCHANGED <<git, traits, disk, read, total, steady>>

List ==
    /\ pc = "listing"
    /\ \E listed \in SUBSET Paths :
        /\ IsListing(listed)
        /\ \E s \in [1..Cardinality(listed) -> listed] :
            /\ Increasing(s)
            /\ files' = CutToLimit(s)
    /\ pc' = "reading"
    /\ UNCHANGED <<git, traits, disk, next, read, total, steady>>

\* readPrefix: what is read of a file of this size.
Prefix(size) == IF size > MaxFileBytes THEN MaxFileBytes ELSE size

\* utf8.Valid of that prefix, which may end within a character.
Valid(content) == content.text /\ ~ (content.size > MaxFileBytes /\ content.splits)

Wanted(p) == total < MaxProjectBytes /\ traits[p].indexed

Readable(p) == disk[p] # Absent /\ Valid(disk[p])

\* The next file is not wanted, or cannot be read as text.
SkipFile ==
    /\ pc = "reading" /\ next <= Len(files)
    /\ ~ (Wanted(files[next]) /\ Readable(files[next]))
    /\ next' = next + 1
    /\ UNCHANGED <<git, traits, disk, pc, files, read, total, steady>>

\* Mutation: the file is read to its end.
ReadWholeFile ==
    /\ pc = "reading" /\ next <= Len(files)
    /\ LET p == files[next]
       IN  /\ Wanted(p) /\ Readable(p)
           /\ total' = total + disk[p].size
    /\ read' = read \cup {next}
    /\ next' = next + 1
    /\ UNCHANGED <<git, traits, disk, pc, files, steady>>

\* Its prefix is read and counted.  (A header, the prefix and the evidence that
\* the analyzers found in it go into the index.)
ReadFile ==
    /\ pc = "reading" /\ next <= Len(files)
    /\ LET p == files[next]
       IN  /\ Wanted(p) /\ Readable(p)
           /\ total' = total + Prefix(disk[p].size)
    /\ read' = read \cup {next}
    /\ next' = next + 1
    /\ UNCHANGED <<git, traits, disk, pc, files, steady>>

\* Mutation: a file that cannot be read ends the project.
FinishEarly ==
    /\ pc = "reading"
    /\ next <= Len(files) => ~ Readable(files[next])
    /\ pc' = "done"
    /\ UNCHANGED <<git, traits, disk, files, next, read, total, steady>>

Finish ==
    /\ pc = "reading" /\ next > Len(files)
    /\ pc' = "done"
    /\ UNCHANGED <<git, traits, disk, files, next, read, total, steady>>

\* A file is written, made or deleted.
Change(p) ==
    /\ pc # "done"
    /\ \E content \in Contents \cup {Absent} :
        /\ content # disk[p]
        /\ disk' = [disk EXCEPT ![p] = content]
    /\ steady' = steady \ {p}
    /\ UNCHANGED <<git, traits, pc, files, next, read, total>>

Step == List \/ SkipFile \/ ReadFile \/ Finish

Next == Step \/ \E p \in Paths : Change(p)

Spec == Init /\ [][Next]_vars

-----------------------------------------------------------------------------
(* Properties *)

\* Whatever happens to the files while they are read, the bytes read of a project
\* stay within max_bytes_per_project but for the last prefix, and those of no more
\* than max_files_per_project files are read, each at most once.  (What is written
\* to the index of them is longer, by headers and evidence.)
WithinBudget ==
    /\ total < MaxProjectBytes + MaxFileBytes
    /\ read \subseteq 1..next - 1 /\ next - 1 <= Len(files) /\ Len(files) <= MaxFiles

\* A file of a kind that is indexed, which the list kept and nobody touched, and
\* whose prefix is UTF-8 (Readable), is in the index, unless the budget was used
\* up: one file that is binary, deleted, too long or cut within a character never
\* costs another its place.
EveryFileHasItsChance ==
    pc = "done" =>
        \A i \in 1..Len(files) :
            /\ files[i] \in steady /\ traits[files[i]].indexed /\ Readable(files[i])
            => i \in read \/ total >= MaxProjectBytes

\* Nothing under a dependency directory is in the index of a project that was
\* walked. (Of a git repository, what git tracks or does not ignore there is.)
WalksExcludeDependencies ==
    ~ git => \A i \in read : ~ traits[files[i]].dependency

\* Files that change, break or fill the budget neither cost another its place in
\* the index nor get there what is left out of it.
RightFilesAreRead == EveryFileHasItsChance /\ WalksExcludeDependencies
=============================================================================
