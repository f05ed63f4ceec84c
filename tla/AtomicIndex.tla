---------------------------- MODULE AtomicIndex ----------------------------
(***************************************************************************)
(* What the project index promises to its clients (the router, the MCP     *)
(* tools and the dashboard's handlers), with nothing said of SQLite.       *)
(*                                                                         *)
(* The index is ONE value.  A replacement takes effect as a whole at one   *)
(* moment between its call and its answer, or never; it is answered with   *)
(* success only when it took effect and with an error only when it did     *)
(* not.  A listing answers the value the index had at one moment between   *)
(* its call and its answer.  A caller may vanish at any time.              *)
(*                                                                         *)
(* IndexStore, which models internal/index/store.go step by step, is shown *)
(* to implement this specification.                                        *)
(***************************************************************************)
CONSTANTS
    Actors,     \* who may call the store
    Contents,   \* every value the index may have
    Blank       \* the one of an index that was never filled

VARIABLES
    index,      \* the value of the index
    call,       \* call[a]: the phase of a's call, "none" without one
    arg         \* arg[a]: the value a stores, or the value a was answered

vars == <<index, call, arg>>

Phases == {"none", "replacing", "replaced", "listing", "listed"}

Init ==
    /\ index = Blank
    /\ call = [a \in Actors |-> "none"]
    /\ arg = [a \in Actors |-> Blank]

\* ReplaceProjects is called with a complete scan.
CallReplace(a) ==
    /\ call[a] = "none"
    /\ call' = [call EXCEPT ![a] = "replacing"]
    /\ \E value \in Contents : arg' = [arg EXCEPT ![a] = value]
    /\ UNCHANGED index

\* The one moment at which a replacement is visible to everybody.
TakeEffect(a) ==
    /\ call[a] = "replacing"
    /\ index' = arg[a]
    /\ call' = [call EXCEPT ![a] = "replaced"]
    /\ UNCHANGED arg

\* Projects is called.
CallList(a) ==
    /\ call[a] = "none"
    /\ call' = [call EXCEPT ![a] = "listing"]
    /\ UNCHANGED <<index, arg>>

\* The one moment at which a listing reads the index.
Observe(a) ==
    /\ call[a] = "listing"
    /\ arg' = [arg EXCEPT ![a] = index]
    /\ call' = [call EXCEPT ![a] = "listed"]
    /\ UNCHANGED index

\* The call fails: it had no effect.
Reject(a) ==
    /\ call[a] \in {"replacing", "listing"}
    /\ call' = [call EXCEPT ![a] = "none"]
    /\ arg' = [arg EXCEPT ![a] = Blank]
    /\ UNCHANGED index

\* The caller takes the answer of a call that succeeded.
Answer(a) ==
    /\ call[a] \in {"replaced", "listed"}
    /\ call' = [call EXCEPT ![a] = "none"]
    /\ arg' = [arg EXCEPT ![a] = Blank]
    /\ UNCHANGED index

\* Some callers vanish, whatever their calls had come to.
Vanish(gone) ==
    /\ call' = [a \in Actors |-> IF a \in gone THEN "none" ELSE call[a]]
    /\ arg' = [a \in Actors |-> IF a \in gone THEN Blank ELSE arg[a]]
    /\ UNCHANGED index

Next ==
    \/ \E a \in Actors : \/ CallReplace(a)
                         \/ TakeEffect(a)
                         \/ CallList(a)
                         \/ Observe(a)
                         \/ Reject(a)
                         \/ Answer(a)
    \/ \E gone \in SUBSET Actors : Vanish(gone)

Spec == Init /\ [][Next]_vars
=============================================================================
