-------------------------- MODULE AgentSetupProofs --------------------------
(***************************************************************************)
(* For any number of runs of whichrepo setup, any clients, any failures    *)
(* and kills: nothing the user put into mcp.json is lost, his servers stay *)
(* there, and a client that was configured stays so.  The three hold for   *)
(* runs that come one after another, a second apart, and edits between     *)
(* them (Careful); the types need none of that.                            *)
(***************************************************************************)
EXTENDS AgentSetup, TLAPS

Careful == SpacedOut /\ OneAtATime /\ QuietEdits

Active(s) == pc[s] \notin Ended

\* A run that has not begun has nothing, and the step of a client belongs to it.
PhaseFits ==
    \A s \in Setups :
        /\ pc[s] = "idle" => turn[s] = 1
        /\ pc[s] # "idle" => clients[s] \in ClientLists
        /\ pc[s] \in {"remove", "readd"} => clients[s][turn[s]] = "claude"
        /\ pc[s] \in {"backup", "backing", "merge", "writing"} => clients[s][turn[s]] = "cursor"

TypeInv == TypeOK /\ PhaseFits

-----------------------------------------------------------------------------
(* Types *)

Labels == Ended \cup {"next", "remove", "readd", "backup", "backing", "merge", "writing"}

\* What every step of a run does to its place in the list of clients.
LEMMA GoTypes ==
    ASSUME NEW s \in Setups, TypeInv, NEW label \in Labels, Go(s, label)
    PROVE  /\ pc' \in [Setups -> Labels] /\ pc'[s] = label
           /\ \A t \in Setups \ {s} : pc'[t] = pc[t]
BY DEF TypeInv, TypeOK, Go, Labels

LEMMA ProceedTypes ==
    ASSUME NEW s \in Setups, TypeInv, pc[s] # "idle", Proceed(s)
    PROVE  /\ pc' \in [Setups -> Labels] /\ turn' \in [Setups -> Nat \ {0}]
           /\ \A t \in Setups \ {s} : pc'[t] = pc[t] /\ turn'[t] = turn[t]
           /\ \/ pc'[s] = "done" /\ turn'[s] = turn[s] /\ turn[s] = Len(clients[s])
              \/ /\ pc'[s] = "next" /\ turn'[s] = turn[s] + 1
                 /\ turn[s] + 1 <= Len(clients[s])
<1>1. turn[s] \in Nat \ {0} /\ turn[s] <= Len(clients[s])
  BY DEF TypeInv, TypeOK
<1>2. Len(clients[s]) \in Nat
  BY AgentSetupAssumption DEF TypeInv, PhaseFits, TypeOK
<1>3. CASE turn[s] = Len(clients[s])
  <2>1. Go(s, "done") /\ turn' = turn
    BY <1>3 DEF Proceed
  <2> QED
    BY <1>3, <2>1, GoTypes DEF Labels, Ended, TypeInv, TypeOK
<1>4. CASE turn[s] # Len(clients[s])
  <2>1. Go(s, "next") /\ turn' = [turn EXCEPT ![s] = @ + 1]
    BY <1>4 DEF Proceed
  <2>2. turn' \in [Setups -> Nat \ {0}]
    BY <2>1, <1>1 DEF TypeInv, TypeOK
  <2>3. turn'[s] = turn[s] + 1 /\ \A t \in Setups \ {s} : turn'[t] = turn[t]
    BY <2>1 DEF TypeInv, TypeOK
  <2>4. turn[s] + 1 <= Len(clients[s])
    BY <1>1, <1>2, <1>4
  <2> QED
    BY <2>1, <2>2, <2>3, <2>4, GoTypes DEF Labels
<1> QED
  BY <1>3, <1>4

\* A step of s that keeps clients, and goes on, fails or ends its client well.
LEMMA PlaceTypes ==
    ASSUME NEW s \in Setups, TypeInv, Active(s), clients' = clients,
           \/ Proceed(s)
           \/ \E label \in Labels \ {"idle"} :
                /\ Go(s, label) /\ turn' = turn
                /\ label \in {"remove", "readd"} => clients[s][turn[s]] = "claude"
                /\ label \in {"backup", "backing", "merge", "writing"} =>
                        clients[s][turn[s]] = "cursor"
    PROVE  /\ pc' \in [Setups -> Labels] /\ turn' \in [Setups -> Nat \ {0}]
           /\ \A t \in Setups : pc'[t] # "idle" => turn'[t] <= Len(clients'[t])
           /\ PhaseFits'
<1>1. pc[s] # "idle" /\ clients[s] \in ClientLists
  BY DEF TypeInv, PhaseFits, Active, Ended
<1>2. CASE Proceed(s)
  <2>1. /\ pc' \in [Setups -> Labels] /\ turn' \in [Setups -> Nat \ {0}]
        /\ \A t \in Setups \ {s} : pc'[t] = pc[t] /\ turn'[t] = turn[t]
        /\ pc'[s] \in {"done", "next"} /\ turn'[s] <= Len(clients[s])
    BY <1>1, <1>2, ProceedTypes DEF TypeInv, TypeOK
  <2> QED
    BY <1>1, <2>1 DEF TypeInv, TypeOK, PhaseFits
<1>3. ASSUME NEW label \in Labels \ {"idle"}, Go(s, label), turn' = turn,
             label \in {"remove", "readd"} => clients[s][turn[s]] = "claude",
             label \in {"backup", "backing", "merge", "writing"} => clients[s][turn[s]] = "cursor"
      PROVE  /\ pc' \in [Setups -> Labels] /\ turn' \in [Setups -> Nat \ {0}]
             /\ \A t \in Setups : pc'[t] # "idle" => turn'[t] <= Len(clients'[t])
             /\ PhaseFits'
  <2>1. /\ pc' \in [Setups -> Labels] /\ pc'[s] = label
        /\ \A t \in Setups \ {s} : pc'[t] = pc[t]
    BY <1>3, GoTypes
  <2> QED
    BY <1>1, <1>3, <2>1 DEF TypeInv, TypeOK, PhaseFits
<1> QED
  BY <1>2, <1>3

LEMMA ContentTypes ==
    /\ {Absent, Empty, Partial, Null} \subseteq Contents
    /\ \A own \in SUBSET Own, entry \in Setups \cup {None} : Doc(own, entry) \in Contents
    /\ \A c \in Contents : c.own \in SUBSET Own /\ c.entry \in Setups \cup {None}
<1>1. {Absent, Empty, Partial, Null} \subseteq Contents
  BY DEF Contents
<1>2. \A own \in SUBSET Own, entry \in Setups \cup {None} : Doc(own, entry) \in Contents
  BY DEF Contents
<1>3. ASSUME NEW c \in Contents PROVE c.own \in SUBSET Own /\ c.entry \in Setups \cup {None}
  <2>1. CASE c \in {Absent, Empty, Partial, Null}
    BY <2>1 DEF Absent, Empty, Partial, Null
  <2>2. ASSUME NEW own \in SUBSET Own, NEW entry \in Setups \cup {None}, c = Doc(own, entry)
        PROVE  c.own \in SUBSET Own /\ c.entry \in Setups \cup {None}
    BY <2>2 DEF Doc
  <2> QED
    BY <1>3, <2>1, <2>2 DEF Contents
<1> QED
  BY <1>1, <1>2, <1>3

LEMMA InitTypes == Init => TypeInv
<1> SUFFICES ASSUME Init PROVE TypeInv
  OBVIOUS
<1>1. config \in Contents /\ Absent \in Contents /\ Doc(Own, None) \in Contents
  BY ContentTypes DEF Init
<1>2. 1 \in Times
  BY AgentSetupAssumption DEF Times
<1>3. owed \in SUBSET Own
  BY <1>1, ContentTypes DEF Init
<1> QED
  BY <1>1, <1>2, <1>3 DEF Init, TypeInv, TypeOK, PhaseFits, Ended

\* A step of a run keeps the types.
LEMMA SetupTypes ==
    ASSUME NEW s \in Setups, TypeInv, Setup(s) \/ Crash(s) PROVE TypeInv'
<1> USE ContentTypes
<1>1. CASE Start(s)
  <2>1. PICK list \in ClientLists : clients' = [clients EXCEPT ![s] = list]
    BY <1>1 DEF Start
  <2>2. Len(list) \in Nat \ {0}
    BY AgentSetupAssumption
  <2>3. /\ pc' \in [Setups -> Labels] /\ pc'[s] = "next"
        /\ \A t \in Setups \ {s} : pc'[t] = pc[t]
    BY <1>1, GoTypes DEF Start, Labels
  <2>4. PhaseFits'
    BY <1>1, <2>1, <2>3 DEF Start, TypeInv, TypeOK, PhaseFits
  <2>5. \A t \in Setups : pc'[t] # "idle" => turn'[t] <= Len(clients'[t])
    BY <1>1, <2>1, <2>2, <2>3 DEF Start, TypeInv, TypeOK, PhaseFits
  <2> QED
    BY <1>1, <2>1, <2>3, <2>4, <2>5 DEF Start, TypeInv, TypeOK, Labels
<1> DEFINE Place == /\ pc' \in [Setups -> Labels] /\ turn' \in [Setups -> Nat \ {0}]
                    /\ \A t \in Setups : pc'[t] # "idle" => turn'[t] <= Len(clients'[t])
                    /\ PhaseFits'
<1>2. CASE Codex(s) \/ ClaudeAdd(s) \/ ClaudeRemove(s) \/ ClaudeAddAgain(s)
  <2>1. Place
    BY <1>2, PlaceTypes DEF Codex, ClaudeAdd, ClaudeRemove, ClaudeAddAgain, IsNext, Active, Ended,
       Fail, Labels, TypeInv, PhaseFits
  <2>2. registered' \in [{"codex", "claude"} -> Setups \cup {None}]
    BY <1>2 DEF Codex, ClaudeAdd, ClaudeRemove, ClaudeAddAgain, TypeInv, TypeOK
  <2> QED
    BY <1>2, <2>1, <2>2 DEF Codex, ClaudeAdd, ClaudeRemove, ClaudeAddAgain, TypeInv, TypeOK, Labels
<1>3. CASE ReadConfig(s)
  <2>1. Place
    BY <1>3, PlaceTypes DEF ReadConfig, IsNext, Active, Ended, Fail, Labels
  <2> QED
    BY <1>3, <2>1 DEF ReadConfig, TypeInv, TypeOK, Labels
<1>4. CASE BackupOpen(s)
  <2>1. Place
    BY <1>4, PlaceTypes DEF BackupOpen, Active, Ended, Labels, TypeInv, PhaseFits
  <2> QED
    BY <1>4, <2>1 DEF BackupOpen, TypeInv, TypeOK, Labels
<1>5. CASE BackupWrite(s)
  <2>1. Place
    BY <1>5, PlaceTypes DEF BackupWrite, Active, Ended, Fail, Labels, TypeInv, PhaseFits
  <2>2. PICK content \in Contents : backups' = [backups EXCEPT ![at[s]] = content]
    BY <1>5 DEF BackupWrite, TypeInv, TypeOK
  <2>3. backups' \in [Times -> Contents]
    BY <2>2 DEF TypeInv, TypeOK
  <2> QED
    BY <1>5, <2>1, <2>3 DEF BackupWrite, TypeInv, TypeOK, Labels
<1>6. CASE WriteOpen(s)
  <2>1. Place
    BY <1>6, PlaceTypes DEF WriteOpen, Active, Ended, Labels, TypeInv, PhaseFits
  <2> QED
    BY <1>6, <2>1 DEF WriteOpen, TypeInv, TypeOK, Labels
<1>7. CASE WriteConfig(s)
  <2>1. Place
    BY <1>7, PlaceTypes DEF WriteConfig, Active, Ended, Fail, Labels
  <2>2. config' \in Contents
    BY <1>7 DEF WriteConfig, Merged, TypeInv, TypeOK
  <2> QED
    BY <1>7, <2>1, <2>2 DEF WriteConfig, TypeInv, TypeOK, Labels
<1>8. CASE Crash(s)
  <2>1. Place
    BY <1>8, PlaceTypes DEF Crash, Active, Ended, Labels
  <2>2. config' \in Contents
    BY <1>8 DEF Crash, TypeInv, TypeOK
  <2>3. backups' = backups \/ \E torn \in Contents : backups' = [backups EXCEPT ![at[s]] = torn]
    BY <1>8 DEF Crash
  <2>4. backups' \in [Times -> Contents]
    BY <2>3 DEF TypeInv, TypeOK
  <2> QED
    BY <1>8, <2>1, <2>2, <2>4 DEF Crash, TypeInv, TypeOK, Labels
<1> QED
  BY <1>1, <1>2, <1>3, <1>4, <1>5, <1>6, <1>7, <1>8 DEF Setup

LEMMA StepTypes == TypeInv /\ [Next]_vars => TypeInv'
<1> SUFFICES ASSUME TypeInv, [Next]_vars PROVE TypeInv'
  OBVIOUS
<1>1. CASE Edit
  <2>1. PICK item \in Own \ config.own :
            config' = Doc(config.own \cup {item}, config.entry) /\ owed' = owed \cup {item}
    BY <1>1 DEF Edit
  <2>2. config' \in Contents
    BY <2>1, ContentTypes DEF TypeInv, TypeOK
  <2> QED
    BY <1>1, <2>1, <2>2 DEF Edit, TypeInv, TypeOK, PhaseFits
<1>2. CASE Tick
  BY <1>2, AgentSetupAssumption DEF Tick, TypeInv, TypeOK, PhaseFits, Times
<1>3. CASE UNCHANGED vars
  BY <1>3 DEF vars, TypeInv, TypeOK, PhaseFits
<1> QED
  BY <1>1, <1>2, <1>3, SetupTypes DEF Next

\* The files, the clients and the runs keep their types.
THEOREM TypeCorrect == Spec => []TypeOK
<1>1. TypeInv => TypeOK
  BY DEF TypeInv
<1> QED
  BY <1>1, InitTypes, StepTypes, PTL DEF Spec
-----------------------------------------------------------------------------
(* What a step of a run does, beyond its types *)

Clients == {"codex", "claude", "cursor"}

\* Run u has spoilt client c, or is about to set it right again.
Spoils(u, c) ==
    \/ pc[u] \in {"failed", "dead"}
    \/ pc[u] = "readd" /\ c = "claude"
    \/ pc[u] = "writing" /\ c = "cursor"

\* Client i of run s has been configured by it.
Reached(s, i) == pc[s] = "done" \/ i < turn[s]

LEMMA ClientsTypes ==
    ASSUME NEW s \in Setups, TypeInv, pc[s] # "idle"
    PROVE  /\ Len(clients[s]) \in Nat /\ DOMAIN clients[s] = 1..Len(clients[s])
           /\ turn[s] \in DOMAIN clients[s]
           /\ \A i \in DOMAIN clients[s] : clients[s][i] \in Clients
           /\ \A i, j \in DOMAIN clients[s] : clients[s][i] = clients[s][j] => i = j
<1>1. clients[s] \in ClientLists
  BY DEF TypeInv, PhaseFits
<1>2. clients[s] \in Seq(Clients)
  BY <1>1, AgentSetupAssumption DEF Clients
<1>3. Len(clients[s]) \in Nat /\ DOMAIN clients[s] = 1..Len(clients[s])
  BY <1>2
<1>4. turn[s] \in DOMAIN clients[s]
  BY <1>3 DEF TypeInv, TypeOK
<1> QED
  BY <1>1, <1>2, <1>3, <1>4, NoClientTwice

\* Everything but the files: other runs are left alone, at moves on to now at
\* most, and a run that has ended takes no step.
LEMMA RunEffect ==
    ASSUME NEW u \in Setups, TypeInv, Setup(u) \/ Crash(u), ~Start(u)
    PROVE  /\ Active(u) /\ pc'[u] # "idle" /\ clients' = clients /\ now' = now
           /\ \A t \in Setups \ {u} : pc'[t] = pc[t] /\ at'[t] = at[t] /\ turn'[t] = turn[t]
                                       /\ data'[t] = data[t]
           /\ at'[u] = at[u] \/ at'[u] = now
           /\ owed' = owed
           /\ \A x \in Times : x # at'[u] => backups'[x] = backups[x]
<1>1. Active(u)
  BY DEF Setup, Codex, ClaudeAdd, ClaudeRemove, ClaudeAddAgain, ReadConfig, BackupOpen,
     BackupWrite, WriteOpen, WriteConfig, Crash, IsNext, Active, Ended
<1>2. clients' = clients /\ now' = now /\ owed' = owed
  BY DEF Setup, Codex, ClaudeAdd, ClaudeRemove, ClaudeAddAgain, ReadConfig, BackupOpen,
     BackupWrite, WriteOpen, WriteConfig, Crash
<1>3. \/ Proceed(u)
      \/ UNCHANGED turn /\ \E label \in Labels \ {"idle"} : Go(u, label)
  BY DEF Setup, Codex, ClaudeAdd, ClaudeRemove, ClaudeAddAgain, ReadConfig, BackupOpen,
     BackupWrite, WriteOpen, WriteConfig, Crash, Fail, Labels, Ended
<1>4. pc'[u] # "idle" /\ \A t \in Setups \ {u} : pc'[t] = pc[t] /\ turn'[t] = turn[t]
  <2>1. CASE Proceed(u)
    BY <1>1, <2>1, ProceedTypes DEF Active, Ended
  <2>2. CASE UNCHANGED turn /\ \E label \in Labels \ {"idle"} : Go(u, label)
    BY <2>2, GoTypes
  <2> QED
    BY <1>3, <2>1, <2>2
<1>5. /\ at' = at \/ at' = [at EXCEPT ![u] = now]
      /\ data' = data \/ data' = [data EXCEPT ![u] = config]
  BY DEF Setup, Codex, ClaudeAdd, ClaudeRemove, ClaudeAddAgain, ReadConfig, BackupOpen,
     BackupWrite, WriteOpen, WriteConfig, Crash
<1>6. /\ at'[u] = at[u] \/ at'[u] = now
      /\ \A t \in Setups \ {u} : at'[t] = at[t] /\ data'[t] = data[t]
  BY <1>5 DEF TypeInv, TypeOK
<1>7. \A x \in Times : x # at'[u] => backups'[x] = backups[x]
  <2>1. CASE BackupOpen(u)
    BY <2>1 DEF BackupOpen, TypeInv, TypeOK
  <2>2. CASE BackupWrite(u)
    BY <2>2 DEF BackupWrite, TypeInv, TypeOK
  <2>3. CASE Crash(u)
    BY <2>3 DEF Crash, TypeInv, TypeOK
  <2>4. CASE backups' = backups
    BY <2>4
  <2> QED
    BY <2>1, <2>2, <2>3, <2>4 DEF Setup, Codex, ClaudeAdd, ClaudeRemove, ClaudeAddAgain,
       ReadConfig, WriteOpen, WriteConfig
<1> QED
  BY <1>1, <1>2, <1>4, <1>6, <1>7

-----------------------------------------------------------------------------
(* Runs come one after another *)

InOrder ==
    /\ \A s, t \in Setups : Active(s) /\ Active(t) => s = t
    /\ \A s \in Setups : pc[s] # "idle" => at[s] <= now
    /\ \A s, t \in Setups : Active(s) /\ pc[t] # "idle" /\ s # t => at[t] < at[s]
    /\ \A x \in Times : backups[x] # Absent => \E t \in Setups : pc[t] # "idle" /\ x <= at[t]

LEMMA StepInOrder ==
    ASSUME Careful, TypeInv, InOrder, [Next]_vars PROVE InOrder'
<1> USE DEF Times
<1>1. MaxTime \in Nat /\ now \in Int /\ \A s \in Setups : at[s] \in Int
  BY AgentSetupAssumption DEF TypeInv, TypeOK
<1>2. ASSUME NEW u \in Setups, Start(u) PROVE InOrder'
  <2>1. /\ pc'[u] = "next" /\ \A t \in Setups \ {u} : pc'[t] = pc[t]
        /\ at'[u] = now /\ \A t \in Setups \ {u} : at'[t] = at[t]
        /\ now' = now /\ backups' = backups
    BY <1>2 DEF Start, Go, TypeInv, TypeOK
  <2>2. \A t \in Setups : ~Active(t)
    BY <1>2 DEF Start, Careful, Quiet, Active
  <2>3. \A t \in Setups : pc[t] # "idle" => at[t] < now
    BY <1>2 DEF Start, Careful
  <2>4. pc[u] = "idle"
    BY <1>2 DEF Start
  <2> QED
    BY <1>1, <2>1, <2>2, <2>3, <2>4 DEF InOrder, Active
<1>3. ASSUME NEW u \in Setups, Setup(u) \/ Crash(u), ~Start(u) PROVE InOrder'
  <2>1. /\ Active(u) /\ pc'[u] # "idle" /\ now' = now
        /\ \A t \in Setups \ {u} : pc'[t] = pc[t] /\ at'[t] = at[t]
        /\ at'[u] = at[u] \/ at'[u] = now
        /\ \A x \in Times : x # at'[u] => backups'[x] = backups[x]
    BY <1>3, RunEffect
  <2>2. pc[u] # "idle" /\ at[u] <= at'[u] /\ at'[u] <= now
    BY <1>1, <2>1 DEF InOrder, Active, Ended
  <2>3. \A t \in Setups : Active(t)' => t = u
    BY <2>1 DEF InOrder, Active
  <2>4. \A t \in Setups : (pc'[t] # "idle" <=> pc[t] # "idle") /\ at[t] <= at'[t]
    BY <1>1, <2>1, <2>2
  <2>5. \A s, t \in Setups : Active(s)' /\ pc'[t] # "idle" /\ s # t => at'[t] < at'[s]
    BY <1>1, <2>1, <2>2, <2>3 DEF InOrder
  <2>6. ASSUME NEW x \in Times, backups'[x] # Absent
        PROVE  \E t \in Setups : pc'[t] # "idle" /\ x <= at'[t]
    <3>1. CASE x = at'[u]
      BY <2>2, <2>4, <3>1
    <3>2. CASE x # at'[u]
      <4>1. PICK t \in Setups : pc[t] # "idle" /\ x <= at[t]
        BY <2>1, <2>6, <3>2 DEF InOrder
      <4>2. x <= at'[t]
        BY <1>1, <2>1, <2>2, <4>1
      <4> QED
        BY <2>4, <4>1, <4>2
    <3> QED
      BY <3>1, <3>2
  <2> QED
    BY <1>1, <2>1, <2>2, <2>3, <2>5, <2>6 DEF InOrder
<1>4. CASE Edit
  BY <1>4 DEF Edit, InOrder, Active
<1>5. CASE Tick
  BY <1>1, <1>5 DEF Tick, InOrder, Active
<1>6. CASE UNCHANGED vars
  BY <1>6 DEF vars, InOrder, Active
<1> QED
  BY <1>2, <1>3, <1>4, <1>5, <1>6 DEF Next
-----------------------------------------------------------------------------
(* Nothing is lost *)

\* No backup has been made under a name that run s may still choose.
NamesAreFree(s) ==
    \A i \in DOMAIN clients[s] : turn[s] <= i /\ clients[s][i] = "cursor" =>
        \A x \in Times : at[s] <= x => backups[x] = Absent

\* What a run has in hand is what mcp.json or the run's backup has.
InHand ==
    \A s \in Setups :
        /\ pc[s] \in {"next", "remove", "readd", "backup"} => NamesAreFree(s)
        /\ pc[s] \in {"backup", "backing", "merge"} => data[s] = config
        /\ pc[s] = "backing" => backups[at[s]] = Empty
        /\ pc[s] \in {"merge", "writing"} => data[s] = Absent \/ backups[at[s]] = data[s]
        /\ pc[s] = "writing" => config = Empty

\* A step that leaves mcp.json and the backups alone.
LEMMA CommandKeepsInHand ==
    ASSUME TypeInv, InHand, NEW u \in Setups,
           Codex(u) \/ ClaudeAdd(u) \/ ClaudeRemove(u) \/ ClaudeAddAgain(u)
    PROVE  InHand'
<1>1. /\ Active(u) /\ pc[u] \in {"next", "remove", "readd"}
      /\ clients' = clients /\ at' = at /\ data' = data /\ config' = config /\ backups' = backups
  BY DEF Codex, ClaudeAdd, ClaudeRemove, ClaudeAddAgain, IsNext, Active, Ended
<1>2. \/ Proceed(u)
      \/ UNCHANGED turn /\ \E label \in {"remove", "readd", "failed"} : Go(u, label)
  BY DEF Codex, ClaudeAdd, ClaudeRemove, ClaudeAddAgain, Fail
<1>3. /\ \A t \in Setups \ {u} : pc'[t] = pc[t] /\ turn'[t] = turn[t]
      /\ pc'[u] \in {"next", "remove", "readd", "failed", "done"}
      /\ turn'[u] = turn[u] \/ turn'[u] = turn[u] + 1
  <2>1. CASE Proceed(u)
    BY <1>1, <2>1, ProceedTypes DEF Active, Ended
  <2>2. CASE UNCHANGED turn /\ \E label \in {"remove", "readd", "failed"} : Go(u, label)
    BY <2>2, GoTypes DEF Labels, Ended
  <2> QED
    BY <1>2, <2>1, <2>2
<1>4. turn[u] \in Nat /\ DOMAIN clients[u] \subseteq Int
  BY <1>1, ClientsTypes DEF TypeInv, TypeOK, Active, Ended
<1>5. NamesAreFree(u)'
  BY <1>1, <1>3, <1>4 DEF InHand, NamesAreFree
<1> QED
  BY <1>1, <1>3, <1>5 DEF InHand, NamesAreFree

LEMMA StepInHand ==
    ASSUME Careful, TypeInv, InOrder, InHand, [Next]_vars PROVE InHand'
<1>1. ASSUME NEW u \in Setups, Start(u) PROVE InHand'
  <2>1. /\ pc'[u] = "next" /\ \A t \in Setups \ {u} : pc'[t] = pc[t]
        /\ at'[u] = now /\ backups' = backups
    BY <1>1 DEF Start, Go, TypeInv, TypeOK
  <2>2. \A t \in Setups \ {u} : pc'[t] \in Ended
    BY <1>1, <2>1 DEF Start, Careful, Quiet
  <2>3. ASSUME NEW x \in Times, now <= x PROVE backups[x] = Absent
    <3>1. \A t \in Setups : pc[t] # "idle" => at[t] < now
      BY <1>1 DEF Start, Careful
    <3>2. now \in Int /\ x \in Int /\ \A t \in Setups : at[t] \in Int
      BY AgentSetupAssumption DEF Times, TypeInv, TypeOK
    <3> QED
      BY <2>3, <3>1, <3>2 DEF InOrder
  <2>4. NamesAreFree(u)'
    BY <2>1, <2>3 DEF NamesAreFree
  <2> QED
    BY <2>1, <2>2, <2>4 DEF InHand, Ended
<1>2. ASSUME NEW u \in Setups, Setup(u) \/ Crash(u), ~Start(u) PROVE InHand'
  <2>1. /\ Active(u) /\ clients' = clients
        /\ \A t \in Setups \ {u} : pc'[t] = pc[t]
    BY <1>2, RunEffect
  <2>2. \A t \in Setups \ {u} : pc'[t] \in Ended
    BY <2>1 DEF InOrder, Active
  <2>3. at[u] \in Times /\ now \in Times /\ backups \in [Times -> Contents]
    BY DEF TypeInv, TypeOK
  <2>4. CASE ReadConfig(u)
    <3>1. /\ data'[u] = config /\ config' = config /\ backups' = backups /\ at' = at
      BY <2>4 DEF ReadConfig, TypeInv, TypeOK
    <3>2. /\ pc'[u] \in {"failed", "merge", "backup"} /\ turn' = turn /\ pc[u] = "next"
          /\ pc'[u] = "merge" => config = Absent
      BY <2>4 DEF ReadConfig, Fail, Go, IsNext, TypeInv, TypeOK
    <3>3. NamesAreFree(u)'
      BY <2>1, <3>1, <3>2 DEF InHand, NamesAreFree
    <3> QED
      BY <2>2, <3>1, <3>2, <3>3 DEF InHand, Ended
  <2>5. CASE BackupOpen(u)
    <3>1. pc'[u] = "backing" /\ at'[u] = now /\ backups'[now] = Empty
      BY <2>3, <2>5 DEF BackupOpen, Go, TypeInv, TypeOK
    <3>2. data'[u] = config'
      BY <2>5 DEF BackupOpen, InHand
    <3> QED
      BY <2>2, <3>1, <3>2 DEF InHand, Ended
  <2>6. CASE BackupWrite(u)
    <3>1. CASE backups' = [backups EXCEPT ![at[u]] = data[u]] /\ Go(u, "merge")
      <4>1. pc'[u] = "merge" /\ at' = at /\ backups'[at[u]] = data[u] /\ data' = data
            /\ config' = config
        BY <2>3, <2>6, <3>1 DEF BackupWrite, Go, TypeInv, TypeOK
      <4>2. data[u] = config
        BY <2>6 DEF BackupWrite, InHand
      <4> QED
        BY <2>2, <4>1, <4>2 DEF InHand, Ended
    <3>2. CASE Fail(u)
      <4>1. pc'[u] = "failed"
        BY <3>2 DEF Fail, Go, TypeInv, TypeOK
      <4> QED
        BY <2>2, <4>1 DEF InHand, Ended
    <3> QED
      BY <2>6, <3>1, <3>2 DEF BackupWrite
  <2>7. CASE WriteOpen(u)
    <3>1. /\ pc'[u] = "dead" \/ (pc'[u] = "writing" /\ config' = Empty)
          /\ backups' = backups /\ at' = at /\ data' = data /\ pc[u] = "merge"
      BY <2>7 DEF WriteOpen, Go, TypeInv, TypeOK
    <3> QED
      BY <2>2, <3>1 DEF InHand, Ended
  <2>8. CASE WriteConfig(u)
    <3>1. /\ pc[u] = "writing" /\ at' = at /\ backups' = backups
          /\ Proceed(u) \/ Fail(u)
      BY <2>8 DEF WriteConfig
    <3>2. CASE Fail(u)
      <4>1. pc'[u] = "failed"
        BY <3>2 DEF Fail, Go, TypeInv, TypeOK
      <4> QED
        BY <2>2, <4>1 DEF InHand, Ended
    <3>3. CASE Proceed(u)
      <4>1. \/ pc'[u] = "done"
            \/ pc'[u] = "next" /\ turn'[u] = turn[u] + 1
        BY <3>1, <3>3, ProceedTypes
      <4>2. clients[u][turn[u]] = "cursor" /\ turn[u] \in Int
        BY <3>1 DEF TypeInv, TypeOK, PhaseFits
      <4>3. ASSUME turn'[u] = turn[u] + 1, NEW i \in DOMAIN clients[u], turn'[u] <= i
            PROVE  clients[u][i] # "cursor"
        BY <3>1, <4>2, <4>3, ClientsTypes
      <4>4. turn'[u] = turn[u] + 1 => NamesAreFree(u)'
        BY <2>1, <4>3 DEF NamesAreFree
      <4> QED
        BY <2>2, <4>1, <4>4 DEF InHand, Ended
    <3> QED
      BY <3>1, <3>2, <3>3
  <2>9. CASE Crash(u)
    <3>1. pc'[u] = "dead"
      BY <2>9 DEF Crash, Go, TypeInv, TypeOK
    <3> QED
      BY <2>2, <3>1 DEF InHand, Ended
  <2> QED
    BY <1>2, <2>4, <2>5, <2>6, <2>7, <2>8, <2>9, CommandKeepsInHand DEF Setup
<1>3. CASE Edit
  <2>1. \A t \in Setups : pc'[t] \in Ended
    BY <1>3 DEF Edit, Careful, Quiet
  <2> QED
    BY <2>1 DEF InHand, Ended
<1>4. CASE Tick
  BY <1>4 DEF Tick, InHand, NamesAreFree
<1>5. CASE UNCHANGED vars
  BY <1>5 DEF vars, InHand, NamesAreFree
<1> QED
  BY <1>1, <1>2, <1>3, <1>4, <1>5 DEF Next

\* A step that leaves every file of the user's as it was, or adds to it.
LEMMA NothingIsLostWhenMore ==
    ASSUME NothingIsLost, owed' = owed, config.own \subseteq config'.own,
           \A x \in Times : backups[x].own \subseteq backups'[x].own
    PROVE  NothingIsLost'
BY DEF NothingIsLost

LEMMA StepLosesNothing ==
    ASSUME Careful, TypeInv, InOrder, InHand, NothingIsLost, [Next]_vars
    PROVE  NothingIsLost'
<1> USE DEF Empty, Absent
<1>1. ASSUME NEW u \in Setups, BackupOpen(u) PROVE NothingIsLost'
  <2>1. NamesAreFree(u) /\ clients[u][turn[u]] = "cursor" /\ pc[u] # "idle"
    BY <1>1 DEF BackupOpen, InHand, TypeInv, PhaseFits
  <2>2. turn[u] \in DOMAIN clients[u] /\ turn[u] \in Int /\ now \in Times /\ at[u] <= now
    BY <2>1, ClientsTypes DEF InOrder, TypeInv, TypeOK
  <2>3. backups[now] = Absent
    BY <2>1, <2>2 DEF NamesAreFree
  <2>4. \A x \in Times : backups'[x] = IF x = now THEN Empty ELSE backups[x]
    BY <1>1 DEF BackupOpen, TypeInv, TypeOK
  <2>5. \A x \in Times : backups[x].own \subseteq backups'[x].own
    BY <2>3, <2>4
  <2> QED
    BY <1>1, <2>5, NothingIsLostWhenMore DEF BackupOpen
<1>2. ASSUME NEW u \in Setups, pc[u] = "backing", config' = config, owed' = owed,
             NEW content, backups' = [backups EXCEPT ![at[u]] = content]
      PROVE  NothingIsLost'
  <2>1. backups[at[u]].own = {}
    BY <1>2 DEF InHand
  <2>2. \A x \in Times : backups[x].own \subseteq backups'[x].own
    BY <1>2, <2>1 DEF TypeInv, TypeOK
  <2> QED
    BY <1>2, <2>2, NothingIsLostWhenMore
<1>3. ASSUME NEW u \in Setups, pc[u] = "writing", backups' = backups, owed' = owed
      PROVE  NothingIsLost'
  <2>1. config.own = {}
    BY <1>3 DEF InHand
  <2> QED
    BY <1>3, <2>1, NothingIsLostWhenMore
<1>4. ASSUME NEW u \in Setups, WriteOpen(u) PROVE NothingIsLost'
  <2>1. pc[u] = "merge" /\ data[u] = config /\ backups' = backups /\ owed' = owed
    BY <1>4 DEF WriteOpen, InHand
  <2>2. CASE data[u] = Absent
    BY <2>1, <2>2, NothingIsLostWhenMore
  <2>3. CASE backups[at[u]] = data[u]
    <3>1. at[u] \in Times
      BY DEF TypeInv, TypeOK
    <3>2. owed \subseteq UNION {backups[x].own : x \in Times}
      BY <2>1, <2>3, <3>1 DEF NothingIsLost
    <3> QED
      BY <2>1, <3>2 DEF NothingIsLost
  <2> QED
    BY <2>1, <2>2, <2>3 DEF InHand
<1>5. CASE Edit
  <2>1. PICK item \in Own \ config.own :
            config' = Doc(config.own \cup {item}, config.entry) /\ owed' = owed \cup {item}
    BY <1>5 DEF Edit
  <2> QED
    BY <1>5, <2>1 DEF Edit, Doc, NothingIsLost
<1>6. ASSUME UNCHANGED <<config, backups, owed>> PROVE NothingIsLost'
  BY <1>6, NothingIsLostWhenMore
<1>7. ASSUME NEW u \in Setups, BackupWrite(u) PROVE NothingIsLost'
  BY <1>2, <1>7 DEF BackupWrite
<1>8. ASSUME NEW u \in Setups, Crash(u) PROVE NothingIsLost'
  BY <1>2, <1>3, <1>6, <1>8 DEF Crash
<1>9. ASSUME NEW u \in Setups, WriteConfig(u) PROVE NothingIsLost'
  BY <1>3, <1>9 DEF WriteConfig
<1>10. ASSUME NEW u \in Setups, Start(u) \/ Codex(u) \/ ClaudeAdd(u) \/ ClaudeRemove(u)
                                \/ ClaudeAddAgain(u) \/ ReadConfig(u)
       PROVE  NothingIsLost'
  BY <1>6, <1>10 DEF Start, Codex, ClaudeAdd, ClaudeRemove, ClaudeAddAgain, ReadConfig
<1>11. ASSUME Tick \/ UNCHANGED vars PROVE NothingIsLost'
  BY <1>6, <1>11 DEF Tick, vars
<1> QED
  BY <1>1, <1>4, <1>5, <1>7, <1>8, <1>9, <1>10, <1>11 DEF Next, Setup

\* The invariant of careful use, begun.
LEMMA InitInOrder == Init => InOrder /\ InHand /\ NothingIsLost
BY DEF Init, InOrder, InHand, NothingIsLost, Active, Ended

\* At whatever step runs fail or are killed, what the user put into mcp.json is there
\* or in a backup, for any number of runs that come one after another, each with a
\* second of its own, and with edits only between them (Careful).
THEOREM NothingEverLost == ASSUME Careful PROVE Spec => []NothingIsLost
<1> DEFINE Inv == TypeInv /\ InOrder /\ InHand /\ NothingIsLost
<1>1. Init => Inv
  BY InitTypes, InitInOrder
<1>2. Inv /\ [Next]_vars => Inv'
  BY StepTypes, StepInOrder, StepInHand, StepLosesNothing
<1> QED
  BY <1>1, <1>2, PTL DEF Spec
-----------------------------------------------------------------------------
(* The servers are kept *)

NoneFailed == \A t \in Setups : pc[t] \notin {"failed", "dead"}

\* While no run has failed, the user's servers are in mcp.json or in the hands of
\* the run that is writing it.
Kept ==
    NoneFailed =>
        \/ owed \cap Mergeable \subseteq config.own
        \/ \E s \in Setups : pc[s] = "writing" /\ owed \cap Mergeable \subseteq data[s].own

LEMMA StepKept ==
    ASSUME Careful, TypeInv, InOrder, InHand, Kept, [Next]_vars PROVE Kept'
<1> SUFFICES ASSUME NoneFailed'
             PROVE  \/ (owed \cap Mergeable \subseteq config.own)'
                    \/ \E s \in Setups : (pc[s] = "writing" /\ owed \cap Mergeable \subseteq data[s].own)'
  BY DEF Kept
<1>1. ASSUME NEW u \in Setups, Setup(u) \/ Crash(u), ~Start(u)
      PROVE  \/ (owed \cap Mergeable \subseteq config.own)'
             \/ \E s \in Setups : (pc[s] = "writing" /\ owed \cap Mergeable \subseteq data[s].own)'
  <2>1. /\ Active(u) /\ owed' = owed
        /\ \A t \in Setups \ {u} : pc'[t] = pc[t]
    BY <1>1, RunEffect
  <2>2. NoneFailed /\ \A s \in Setups : pc[s] = "writing" => s = u
    BY <2>1 DEF NoneFailed, InOrder, Active, Ended
  <2>3. CASE WriteOpen(u)
    <3>1. pc'[u] = "writing" /\ data' = data /\ data[u] = config /\ pc[u] = "merge"
      BY <2>3 DEF WriteOpen, Go, TypeInv, TypeOK, InHand, NoneFailed
    <3>2. owed \cap Mergeable \subseteq config.own
      BY <2>2, <3>1 DEF Kept
    <3> QED
      BY <2>1, <3>1, <3>2
  <2>4. CASE WriteConfig(u)
    <3>1. ~Fail(u)
      BY DEF Fail, Go, TypeInv, TypeOK, NoneFailed
    <3>2. config' = Doc(data[u].own \cap Mergeable, u) /\ config = Empty
      BY <2>4, <3>1 DEF WriteConfig, Merged, InHand
    <3>3. owed \cap Mergeable \subseteq data[u].own
      BY <2>2, <3>2 DEF Kept, Empty
    <3> QED
      BY <2>1, <3>2, <3>3 DEF Doc
  <2>5. ~Crash(u)
    BY DEF Crash, Go, TypeInv, TypeOK, NoneFailed
  <2>6. CASE /\ pc[u] # "writing" /\ config' = config
    BY <2>1, <2>2, <2>6 DEF Kept
  <2> QED
    BY <1>1, <2>3, <2>4, <2>5, <2>6 DEF Setup, Codex, ClaudeAdd, ClaudeRemove, ClaudeAddAgain,
       ReadConfig, BackupOpen, BackupWrite, IsNext
<1>2. ASSUME NEW u \in Setups, Start(u) PROVE (owed \cap Mergeable \subseteq config.own)'
  <2>1. \A t \in Setups : pc[t] \in Ended /\ (t # u => pc'[t] = pc[t]) /\ pc[u] = "idle"
    BY <1>2 DEF Start, Go, Careful, Quiet, TypeInv, TypeOK
  <2> QED
    BY <1>2, <2>1 DEF Start, Kept, NoneFailed, Ended
<1>3. ASSUME Edit PROVE (owed \cap Mergeable \subseteq config.own)'
  <2>1. PICK item \in Own \ config.own :
            config' = Doc(config.own \cup {item}, config.entry) /\ owed' = owed \cup {item}
    BY <1>3 DEF Edit
  <2>2. \A t \in Setups : pc[t] \in Ended /\ pc'[t] = pc[t]
    BY <1>3 DEF Edit, Careful, Quiet
  <2>3. owed \cap Mergeable \subseteq config.own
    BY <2>2 DEF Kept, NoneFailed, Ended
  <2> QED
    BY <2>1, <2>3 DEF Doc
<1>4. ASSUME Tick \/ UNCHANGED vars
      PROVE  \/ (owed \cap Mergeable \subseteq config.own)'
             \/ \E s \in Setups : (pc[s] = "writing" /\ owed \cap Mergeable \subseteq data[s].own)'
  BY <1>4 DEF Tick, vars, Kept, NoneFailed
<1> QED
  BY <1>1, <1>2, <1>3, <1>4 DEF Next

\* After runs that ended well mcp.json has every server the user put into it.
THEOREM ServersAlwaysKept == ASSUME Careful PROVE Spec => []ServersAreKept
<1> DEFINE Inv == TypeInv /\ InOrder /\ InHand /\ Kept
<1>1. Init => Inv
  BY InitTypes, InitInOrder DEF Init, Kept
<1>2. Inv /\ [Next]_vars => Inv'
  BY StepTypes, StepInOrder, StepInHand, StepKept
<1>3. Inv => ServersAreKept
  BY DEF Kept, NoneFailed, ServersAreKept, AllWell
<1> QED
  BY <1>1, <1>2, <1>3, PTL DEF Spec

-----------------------------------------------------------------------------
(* What is configured stays so *)

Held(s, client) ==
    \E t \in Setups : Holder(client) = t /\ pc[t] # "idle" /\ at[t] >= at[s]

\* Each client that run s has configured has the server of s or of a later run,
\* unless another run has spoilt it.
Configured ==
    \A s \in Setups : pc[s] # "idle" =>
        \A i \in DOMAIN clients[s] : Reached(s, i) =>
            \/ Held(s, clients[s][i])
            \/ \E u \in Setups \ {s} : Spoils(u, clients[s][i])

\* What a step of u does to the client whose turn it is, and to no other.
LEMMA ClientEffect ==
    ASSUME NEW u \in Setups, NEW mine, mine = clients[u][turn[u]],
           TypeInv, Setup(u) \/ Crash(u), ~Start(u)
    PROVE  /\ \A client \in Clients \ {mine} : Holder(client)' = Holder(client)
           /\ \A client \in Clients \ {mine} : ~Spoils(u, client)
           /\ \/ Holder(mine)' = u
              \/ Spoils(u, mine)'
              \/ Holder(mine)' = Holder(mine) /\ ~Spoils(u, mine)
           /\ \A i \in DOMAIN clients[u] : Reached(u, i)' =>
                    i < turn[u] \/ (i = turn[u] /\ Holder(mine)' = u)
<1> DEFINE Ends == \A i \in DOMAIN clients[u] : Reached(u, i)' =>
                       i < turn[u] \/ (i = turn[u] /\ Holder(mine)' = u)
<1>1. Active(u)
  BY RunEffect
<1>2. /\ turn[u] \in Int /\ DOMAIN clients[u] = 1..Len(clients[u]) /\ mine \in Clients
      /\ Len(clients[u]) \in Nat /\ turn[u] <= Len(clients[u])
  <2>1. pc[u] # "idle" /\ turn[u] \in Int /\ turn[u] <= Len(clients[u])
    BY <1>1 DEF Active, Ended, TypeInv, TypeOK
  <2> QED
    BY <2>1, ClientsTypes
<1>3. \A client \in Clients \ {mine} : ~Spoils(u, client)
  BY <1>1 DEF Spoils, Active, Ended, TypeInv, PhaseFits
<1>4. ASSUME Holder(mine)' = u, Proceed(u) PROVE Ends
  BY <1>1, <1>2, <1>4, ProceedTypes DEF Reached, Active, Ended
<1>5. ASSUME NEW label \in Labels \ {"done"}, Go(u, label), turn' = turn PROVE Ends /\ pc'[u] = label
  <2>1. pc'[u] = label
    BY <1>5, GoTypes
  <2> QED
    BY <1>2, <1>5, <2>1 DEF Reached
<1>6. CASE Codex(u)
  <2>1. mine = "codex" /\ config' = config /\ ~Spoils(u, mine)
    BY <1>6 DEF Codex, IsNext, Spoils
  <2>2. CASE Fail(u) /\ registered' = registered
    BY <1>3, <1>5, <2>1, <2>2 DEF Fail, Labels, Ended, Holder
  <2>3. CASE registered' = [registered EXCEPT !["codex"] = u] /\ Proceed(u)
    <3>1. Holder(mine)' = u /\ \A client \in Clients \ {mine} : Holder(client)' = Holder(client)
      BY <2>1, <2>3 DEF Holder, Clients, TypeInv, TypeOK
    <3> QED
      BY <1>3, <1>4, <2>3, <3>1
  <2> QED
    BY <1>6, <2>2, <2>3 DEF Codex
<1>7. CASE ClaudeAdd(u) \/ ClaudeAddAgain(u)
  <2>1. mine = "claude" /\ config' = config
    BY <1>7 DEF ClaudeAdd, ClaudeAddAgain, IsNext, TypeInv, PhaseFits
  <2>2. CASE registered' = [registered EXCEPT !["claude"] = u] /\ Proceed(u)
    <3>1. Holder(mine)' = u /\ \A client \in Clients \ {mine} : Holder(client)' = Holder(client)
      BY <2>1, <2>2 DEF Holder, Clients, TypeInv, TypeOK
    <3> QED
      BY <1>3, <1>4, <2>2, <3>1
  <2>3. CASE Fail(u) /\ registered' = registered
    <3>1. Ends /\ pc'[u] = "failed"
      BY <1>5, <2>3 DEF Fail, Labels, Ended
    <3> QED
      BY <1>3, <2>1, <2>3, <3>1 DEF Holder, Spoils
  <2>4. CASE ClaudeAdd(u) /\ Go(u, "remove") /\ UNCHANGED <<turn, registered>>
    <3>1. Ends /\ ~Spoils(u, mine)
      BY <1>5, <2>4 DEF Labels, Spoils, ClaudeAdd, IsNext, Ended
    <3> QED
      BY <1>3, <2>1, <2>4, <3>1 DEF Holder
  <2> QED
    BY <1>7, <2>2, <2>3, <2>4 DEF ClaudeAdd, ClaudeAddAgain
<1>8. CASE ClaudeRemove(u)
  <2>1. mine = "claude" /\ config' = config
    BY <1>8 DEF ClaudeRemove, TypeInv, PhaseFits
  <2>2. Ends /\ pc'[u] \in {"failed", "readd"}
    BY <1>5, <1>8 DEF ClaudeRemove, Fail, Labels, Ended
  <2>3. \A client \in Clients \ {mine} : Holder(client)' = Holder(client)
    BY <1>8, <2>1 DEF ClaudeRemove, Holder, Clients, TypeInv, TypeOK
  <2> QED
    BY <1>3, <2>1, <2>2, <2>3 DEF Spoils
<1>9. CASE ReadConfig(u) \/ BackupOpen(u) \/ BackupWrite(u)
  <2>1. config' = config /\ registered' = registered /\ ~Spoils(u, mine)
    BY <1>9 DEF ReadConfig, BackupOpen, BackupWrite, IsNext, Spoils
  <2>2. Ends
    BY <1>5, <1>9 DEF ReadConfig, BackupOpen, BackupWrite, Fail, Labels, Ended
  <2> QED
    BY <1>3, <2>1, <2>2 DEF Holder
<1>10. CASE WriteOpen(u)
  <2>1. mine = "cursor" /\ registered' = registered
    BY <1>10 DEF WriteOpen, TypeInv, PhaseFits
  <2>2. Ends /\ pc'[u] \in {"dead", "writing"}
    BY <1>5, <1>10 DEF WriteOpen, Labels, Ended
  <2> QED
    BY <1>3, <2>1, <2>2 DEF Spoils, Holder
<1>11. CASE WriteConfig(u)
  <2>1. mine = "cursor" /\ registered' = registered
    BY <1>11 DEF WriteConfig, TypeInv, PhaseFits
  <2>2. \A client \in Clients \ {mine} : Holder(client)' = Holder(client)
    BY <2>1 DEF Holder
  <2>3. CASE config' = Merged(data[u], u) /\ Proceed(u)
    <3>1. Holder(mine)' = u
      BY <2>1, <2>3 DEF Holder, Merged, Doc
    <3> QED
      BY <1>3, <1>4, <2>2, <2>3, <3>1
  <2>4. CASE Fail(u)
    <3>1. Ends /\ pc'[u] = "failed"
      BY <1>5, <2>4 DEF Fail, Labels, Ended
    <3> QED
      BY <1>3, <2>2, <3>1 DEF Spoils
  <2> QED
    BY <1>11, <2>3, <2>4 DEF WriteConfig
<1>12. CASE Crash(u)
  <2>1. Ends /\ pc'[u] = "dead"
    BY <1>5, <1>12 DEF Crash, Labels, Ended
  <2>2. registered' = registered /\ (mine # "cursor" => config' = config)
    BY <1>12 DEF Crash, TypeInv, PhaseFits
  <2> QED
    BY <1>3, <2>1, <2>2 DEF Spoils, Holder
<1> QED
  BY <1>6, <1>7, <1>8, <1>9, <1>10, <1>11, <1>12 DEF Setup

LEMMA StepConfigured ==
    ASSUME Careful, TypeInv, InOrder, Configured, [Next]_vars PROVE Configured'
<1>1. now \in Int /\ \A s \in Setups : at[s] \in Int
  BY AgentSetupAssumption DEF Times, TypeInv, TypeOK
<1>2. ASSUME NEW u \in Setups, Start(u) PROVE Configured'
  <2>1. /\ pc[u] = "idle" /\ pc'[u] = "next" /\ turn'[u] = 1
        /\ \A t \in Setups \ {u} : /\ pc'[t] = pc[t] /\ at'[t] = at[t] /\ turn'[t] = turn[t]
                                  /\ clients'[t] = clients[t]
        /\ config' = config /\ registered' = registered
    BY <1>2 DEF Start, Go, TypeInv, TypeOK, PhaseFits
  <2>2. PICK list \in ClientLists : clients'[u] = list
    BY <1>2 DEF Start, TypeInv, TypeOK
  <2>3. \A i \in DOMAIN list : ~Reached(u, i)'
    BY <2>1, AgentSetupAssumption DEF Reached
  <2>4. ASSUME NEW s \in Setups \ {u}, pc[s] # "idle", NEW i \in DOMAIN clients[s],
               Reached(s, i), NEW client, client = clients[s][i]
        PROVE  \/ Held(s, client)'
               \/ \E v \in Setups \ {s} : Spoils(v, client)'
    <3>1. CASE Held(s, client)
      <4>1. PICK t \in Setups : Holder(client) = t /\ pc[t] # "idle" /\ at[t] >= at[s]
        BY <3>1 DEF Held
      <4> QED
        BY <2>1, <4>1 DEF Held, Holder
    <3>2. ASSUME NEW v \in Setups \ {s}, Spoils(v, client)
          PROVE  Spoils(v, client)'
      BY <2>1, <3>2 DEF Spoils
    <3> QED
      BY <2>4, <3>1, <3>2 DEF Configured
  <2> QED
    BY <2>1, <2>2, <2>3, <2>4 DEF Configured, Reached
<1>3. ASSUME NEW u \in Setups, Setup(u) \/ Crash(u), ~Start(u) PROVE Configured'
  <2> PICK mine : mine = clients[u][turn[u]]
    OBVIOUS
  <2>1. /\ Active(u) /\ pc[u] # "idle" /\ pc'[u] # "idle" /\ clients' = clients
        /\ \A t \in Setups \ {u} : pc'[t] = pc[t] /\ at'[t] = at[t] /\ turn'[t] = turn[t]
        /\ at'[u] = at[u] \/ at'[u] = now
    BY <1>3, RunEffect DEF Active, Ended
  <2>2. at[u] <= at'[u] /\ \A t \in Setups \ {u} : pc[t] # "idle" => at[t] < at[u]
    BY <1>1, <2>1 DEF InOrder
  <2>3. /\ \A client \in Clients \ {mine} : Holder(client)' = Holder(client)
        /\ \A client \in Clients \ {mine} : ~Spoils(u, client)
        /\ \/ Holder(mine)' = u
           \/ Spoils(u, mine)'
           \/ Holder(mine)' = Holder(mine) /\ ~Spoils(u, mine)
        /\ \A i \in DOMAIN clients[u] : Reached(u, i)' =>
                 i < turn[u] \/ (i = turn[u] /\ Holder(mine)' = u)
    BY <1>3, ClientEffect
  <2>4. SUFFICES ASSUME NEW s \in Setups, pc'[s] # "idle", NEW i \in DOMAIN clients[s],
                        Reached(s, i)', NEW client, client = clients[s][i]
                 PROVE  \/ Held(s, client)'
                        \/ \E v \in Setups \ {s} : Spoils(v, client)'
    BY <2>1 DEF Configured
  <2>5. /\ pc[s] # "idle" /\ at'[s] \in Int /\ at'[u] \in Int /\ at'[s] <= at'[u]
        /\ i \in Int /\ turn[u] \in Int /\ client \in Clients
    <3>1. pc[s] # "idle" /\ at'[s] \in Int /\ at'[u] \in Int /\ at'[s] <= at'[u]
      BY <1>1, <2>1, <2>2, <2>4
    <3>2. turn[u] \in Int
      BY DEF TypeInv, TypeOK
    <3>3. DOMAIN clients[s] = 1..Len(clients[s]) /\ client \in Clients
      BY <2>4, <3>1, ClientsTypes
    <3> QED
      BY <3>1, <3>2, <3>3
  <2>6. Reached(s, i) => Held(s, client) \/ \E v \in Setups \ {s} : Spoils(v, client)
    BY <2>4, <2>5 DEF Configured
  <2>7. CASE Holder(client)' = u
    BY <2>1, <2>5, <2>7 DEF Held
  <2>8. ASSUME Held(s, client), Holder(client)' = Holder(client) PROVE Held(s, client)'
    <3>1. PICK t \in Setups : Holder(client) = t /\ pc[t] # "idle" /\ at[t] >= at[s]
      BY <2>8 DEF Held
    <3>2. pc'[t] # "idle" /\ at'[t] >= at'[s]
      BY <1>1, <2>1, <2>2, <3>1
    <3> QED
      BY <2>8, <3>1, <3>2 DEF Held
  <2>9. ASSUME NEW v \in Setups \ {s, u}, Spoils(v, client) PROVE Spoils(v, client)'
    BY <2>1, <2>9 DEF Spoils
  <2>10. CASE s = u
    <3>1. CASE i = turn[u]
      BY <2>3, <2>4, <2>5, <2>7, <2>10, <3>1
    <3>2. CASE i # turn[u]
      <4>1. client # mine
        BY <2>4, <2>5, <2>10, <3>2, ClientsTypes
      <4>2. Reached(s, i) /\ Holder(client)' = Holder(client)
        BY <2>3, <2>4, <2>5, <2>10, <3>2, <4>1 DEF Reached
      <4> QED
        BY <2>6, <2>8, <2>9, <2>10, <4>2
    <3> QED
      BY <3>1, <3>2
  <2>11. CASE s # u
    <3>1. Reached(s, i)
      BY <2>1, <2>4, <2>11 DEF Reached
    <3>2. CASE Spoils(u, client)'
      BY <2>11, <3>2
    <3>3. CASE Holder(client)' = Holder(client) /\ ~Spoils(u, client)
      BY <2>6, <2>8, <2>9, <2>11, <3>1, <3>3
    <3> QED
      BY <2>3, <2>5, <2>7, <3>2, <3>3
  <2> QED
    BY <2>10, <2>11
<1>4. CASE Edit
  <2>1. config'.entry = config.entry
    BY <1>4 DEF Edit, Doc
  <2> QED
    BY <1>4, <2>1 DEF Edit, Configured, Held, Holder, Spoils, Reached
<1>5. CASE Tick \/ UNCHANGED vars
  BY <1>5 DEF Tick, vars, Configured, Held, Holder, Spoils, Reached
<1> QED
  BY <1>2, <1>3, <1>4, <1>5 DEF Next

\* A client that a run has configured stays so, for that run or a later one, as
\* long as every other run ends well.
THEOREM AlwaysConfigured == ASSUME Careful PROVE Spec => []ConfiguredStays
<1> DEFINE Inv == TypeInv /\ InOrder /\ Configured
<1>1. Init => Inv
  BY InitTypes, InitInOrder DEF Init, Configured
<1>2. Inv /\ [Next]_vars => Inv'
  BY StepTypes, StepInOrder, StepConfigured
<1>3. ASSUME Inv PROVE ConfiguredStays
  <2> SUFFICES ASSUME NEW s \in Setups, pc[s] \in Ended,
                      \A t \in Setups \ {s} : pc[t] \in {"idle", "done"},
                      NEW i \in DOMAIN clients[s], pc[s] = "done" \/ i < turn[s]
               PROVE  \E t \in Setups : Holder(clients[s][i]) = t /\ at[t] >= at[s]
    BY DEF ConfiguredStays
  <2>1. pc[s] # "idle"
    <3>1. ASSUME pc[s] = "idle" PROVE FALSE
      <4>1. turn[s] = 1 /\ i < turn[s]
        BY <1>3, <3>1 DEF TypeInv, PhaseFits
      <4>2. clients[s] \in Seq(Clients)
        BY <1>3, AgentSetupAssumption DEF TypeInv, TypeOK, Clients
      <4>3. i \in Nat /\ i >= 1
        BY <4>2
      <4> QED
        BY <4>1, <4>3
    <3> QED
      BY <3>1
  <2>2. \A u \in Setups \ {s} : ~Spoils(u, clients[s][i])
    BY DEF Spoils
  <2> QED
    BY <1>3, <2>1, <2>2 DEF Configured, Reached, Held
<1> QED
  BY <1>1, <1>2, <1>3, PTL DEF Spec
=============================================================================
