-------------------------- MODULE ProjectScanProofs --------------------------
(***************************************************************************)
(* What the scan of a project promises, proved for any number of files,    *)
(* any limits, and a disk that changes while the files are read.           *)
(***************************************************************************)
EXTENDS ProjectScan, FiniteSetTheorems, SequenceTheorems, TLAPS

\* What was listed is what is looked at, and what was looked at is done with.
Looked ==
    /\ pc = "listing" => files = <<>> /\ next = 1 /\ read = {} /\ total = 0
    /\ pc = "done" => next > Len(files)
    /\ \A i \in 1..next - 1 :
        files[i] \in steady /\ traits[files[i]].indexed /\ Readable(files[i])
            => i \in read \/ total >= MaxProjectBytes

\* A walk has listed nothing under a dependency directory.
Walked ==
    ~ git => \A i \in 1..Len(files) : ~ traits[files[i]].dependency

IInv == TypeOK /\ WithinBudget /\ Looked /\ Walked

-----------------------------------------------------------------------------
\* A list of paths is cut to a list of at most MaxFiles of the same paths.
LEMMA CutIsWithin ==
    ASSUME NEW listed \in SUBSET Paths, NEW s \in [1..Cardinality(listed) -> listed]
    PROVE  /\ CutToLimit(s) \in Seq(Paths)
           /\ Len(CutToLimit(s)) <= MaxFiles
           /\ \A i \in 1..Len(CutToLimit(s)) : CutToLimit(s)[i] \in listed
<1>1. IsFiniteSet(listed)
  <2>1. 1 \in Int /\ MaxPaths \in Int
    BY ProjectScanAssumption
  <2>2. IsFiniteSet(1..MaxPaths)
    BY <2>1, FS_Interval, Zenon
  <2> QED
    BY <2>2, FS_Subset DEF Paths
<1>2. Cardinality(listed) \in Nat
  BY <1>1, FS_CardinalityType
<1> DEFINE k == Cardinality(listed)
           n == IF k > MaxFiles THEN MaxFiles ELSE k
<1>3. k \in Nat /\ s \in Seq(listed) /\ Len(s) = k /\ s \in [1..k -> listed]
  BY <1>2
<1>4. CutToLimit(s) = SubSeq(s, 1, n) /\ n \in Nat /\ n <= k /\ n <= MaxFiles
  BY <1>2, <1>3, ProjectScanAssumption DEF CutToLimit
<1> HIDE DEF k, n
<1>5. SubSeq(s, 1, n) \in Seq(listed) /\ Len(SubSeq(s, 1, n)) = n
  <2>1. ASSUME NEW i \in 1..n PROVE s[i] \in listed
    <3>1. i \in 1..k
      BY <1>3, <1>4
    <3> QED
      BY <1>3, <3>1, Zenon
  <2>2. /\ SubSeq(s, 1, n) \in Seq(listed)
        /\ Len(SubSeq(s, 1, n)) = IF 1 <= n THEN n - 1 + 1 ELSE 0
    BY <1>4, <2>1, SubSeqProperties, Z3
  <2> QED
    BY <1>4, <2>2
<1>6. \A i \in 1..n : SubSeq(s, 1, n)[i] \in listed
  BY <1>5
<1> QED
  BY <1>4, <1>5, <1>6

\* The prefix of a file is no longer than the limit.
LEMMA PrefixIsBounded ==
    ASSUME NEW size \in Nat
    PROVE  Prefix(size) \in Nat /\ Prefix(size) <= MaxFileBytes
  BY ProjectScanAssumption DEF Prefix

-----------------------------------------------------------------------------
\* The invariant holds initially.
LEMMA InitInv == Init => IInv
<1> SUFFICES ASSUME Init PROVE IInv
  OBVIOUS
<1> USE ProjectScanAssumption DEF Init
<1>1. TypeOK
  BY DEF TypeOK
<1>2. WithinBudget
  BY DEF WithinBudget
<1>3. Looked /\ Walked
  BY DEF Looked, Walked
<1> QED
  BY <1>1, <1>2, <1>3 DEF IInv

\* Listing keeps the invariant.
LEMMA ListStep == IInv /\ List => IInv'
<1> SUFFICES ASSUME IInv, List PROVE IInv'
  OBVIOUS
<1>0. PICK listed \in SUBSET Paths :
        /\ IsListing(listed)
        /\ \E s \in [1..Cardinality(listed) -> listed] : files' = CutToLimit(s)
  BY DEF List
<1>1. PICK s \in [1..Cardinality(listed) -> listed] : files' = CutToLimit(s)
  BY <1>0
<1>2. /\ pc = "listing" /\ pc' = "reading"
      /\ UNCHANGED <<git, traits, disk, next, read, total, steady>>
  BY DEF List
<1>3. /\ files' \in Seq(Paths) /\ Len(files') <= MaxFiles
      /\ \A i \in 1..Len(files') : files'[i] \in listed
  BY <1>0, <1>1, CutIsWithin
<1>4. next = 1 /\ read = {} /\ total = 0
  BY <1>2 DEF IInv, Looked
<1>5. TypeOK'
  BY <1>2, <1>3 DEF IInv, TypeOK
<1>6. WithinBudget' /\ Looked'
  BY <1>2, <1>3, <1>4, ProjectScanAssumption DEF WithinBudget, Looked
<1>7. Walked'
  BY <1>0, <1>2, <1>3 DEF Walked, IsListing
<1> QED
  BY <1>5, <1>6, <1>7 DEF IInv

\* Reading a file keeps the invariant: it adds at most MaxFileBytes to a total
\* that was below the budget.
LEMMA ReadStep == IInv /\ ReadFile => IInv'
<1> SUFFICES ASSUME IInv, ReadFile PROVE IInv'
  OBVIOUS
<1> USE ProjectScanAssumption
<1> DEFINE p == files[next]
<1>1. /\ pc = "reading" /\ next \in Nat \ {0} /\ next <= Len(files)
      /\ total < MaxProjectBytes /\ disk[p] # Absent
      /\ total' = total + Prefix(disk[p].size)
      /\ read' = read \cup {next} /\ next' = next + 1
      /\ UNCHANGED <<git, traits, disk, pc, files, steady>>
  BY DEF ReadFile, Wanted, Readable, IInv, TypeOK
<1>2. p \in Paths /\ disk[p] \in Contents
  BY <1>1 DEF IInv, TypeOK
<1>3. disk[p].size \in Nat
  BY <1>2 DEF ContentType
<1>4. Prefix(disk[p].size) \in Nat /\ Prefix(disk[p].size) <= MaxFileBytes
  BY <1>3, PrefixIsBounded
<1> HIDE DEF p
<1>5. total \in Nat /\ total' \in Nat /\ total' >= total /\ total' < MaxProjectBytes + MaxFileBytes
  BY <1>1, <1>4 DEF IInv, TypeOK
<1>6. TypeOK'
  BY <1>1, <1>5 DEF IInv, TypeOK
<1>7. WithinBudget'
  BY <1>1, <1>5 DEF IInv, TypeOK, WithinBudget
<1>8. Looked'
  BY <1>1, <1>5 DEF IInv, TypeOK, Looked, Readable
<1>9. Walked'
  BY <1>1 DEF IInv, Walked
<1> QED
  BY <1>6, <1>7, <1>8, <1>9 DEF IInv

\* Skipping a file, the end of the scan and changes of the disk keep it too.
LEMMA OtherSteps == IInv /\ (SkipFile \/ Finish \/ \E p \in Paths : Change(p)) => IInv'
<1> SUFFICES ASSUME IInv, SkipFile \/ Finish \/ \E p \in Paths : Change(p) PROVE IInv'
  OBVIOUS
<1> USE ProjectScanAssumption
<1>1. CASE SkipFile
  <2>1. TypeOK' /\ WithinBudget' /\ Walked'
    BY <1>1 DEF SkipFile, IInv, TypeOK, WithinBudget, Walked
  <2>2. Looked'
    BY <1>1 DEF SkipFile, IInv, TypeOK, Looked, Wanted, Readable
  <2> QED
    BY <2>1, <2>2 DEF IInv
<1>2. CASE Finish
  BY <1>2 DEF Finish, IInv, TypeOK, WithinBudget, Walked, Looked, Readable
<1>3. ASSUME NEW p \in Paths, Change(p) PROVE IInv'
  <2>1. PICK content \in Contents \cup {Absent} : disk' = [disk EXCEPT ![p] = content]
    BY <1>3 DEF Change
  <2>2. steady' = steady \ {p} /\ UNCHANGED <<git, traits, pc, files, next, read, total>>
    BY <1>3 DEF Change
  <2>3. disk' \in [Paths -> Contents \cup {Absent}]
    BY <2>1 DEF IInv, TypeOK
  <2>4. \A q \in steady' : disk'[q] = disk[q]
    BY <2>1, <2>2 DEF IInv, TypeOK
  <2>5. TypeOK' /\ WithinBudget' /\ Walked'
    BY <2>2, <2>3 DEF IInv, TypeOK, WithinBudget, Walked
  <2>6. Looked'
    BY <2>2, <2>4 DEF IInv, Looked, Readable
  <2> QED
    BY <2>5, <2>6 DEF IInv
<1> QED
  BY <1>1, <1>2, <1>3

\* The inductive invariant holds in every reachable state.
THEOREM Invariance == Spec => []IInv
<1>1. IInv /\ UNCHANGED vars => IInv'
  BY DEF vars, IInv, TypeOK, WithinBudget, Looked, Walked, Readable
<1>2. IInv /\ [Next]_vars => IInv'
  BY <1>1, ListStep, ReadStep, OtherSteps DEF Next, Step
<1> QED
  BY <1>2, InitInv, PTL DEF Spec

-----------------------------------------------------------------------------
(* The theorems *)

\* The variables of the scan have their types.
THEOREM TypeCorrect == Spec => []TypeOK
<1>1. IInv => TypeOK
  BY DEF IInv
<1> QED
  BY <1>1, Invariance, PTL

\* Whatever the files do while they are read, the bytes read of a project stay below
\* max_bytes_per_project plus one prefix, and its files within their number
\* (scanner.go, scanProject: what totalBytes counts, not all that Content gets).
THEOREM AlwaysWithinBudget == Spec => []WithinBudget
<1>1. IInv => WithinBudget
  BY DEF IInv
<1> QED
  BY <1>1, Invariance, PTL

\* No file costs another its place in the index but by the budget.
THEOREM EveryFileAlwaysHasItsChance == Spec => []EveryFileHasItsChance
<1>1. IInv => EveryFileHasItsChance
  BY DEF IInv, TypeOK, Looked, EveryFileHasItsChance
<1> QED
  BY <1>1, Invariance, PTL

\* A walk never brings a file of a dependency directory into the index.
THEOREM WalksAlwaysExclude == Spec => []WalksExcludeDependencies
<1>1. IInv => WalksExcludeDependencies
  BY DEF IInv, TypeOK, WithinBudget, Walked, WalksExcludeDependencies
<1> QED
  BY <1>1, Invariance, PTL

\* The index of a project has what it should, and nothing it should not have.
THEOREM RightFilesAlwaysRead == Spec => []RightFilesAreRead
<1>1. EveryFileHasItsChance /\ WalksExcludeDependencies => RightFilesAreRead
  BY DEF RightFilesAreRead
<1> QED
  BY <1>1, EveryFileAlwaysHasItsChance, WalksAlwaysExclude, PTL
=============================================================================
