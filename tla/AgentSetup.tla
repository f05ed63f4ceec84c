----------------------------- MODULE AgentSetup -----------------------------
(***************************************************************************)
(* whichrepo setup: internal/agentsetup/setup.go registers the MCP server  *)
(* with the user's clients, one after another.  Codex and Claude Code are  *)
(* asked through their own commands; Cursor's mcp.json is read, backed up  *)
(* under the name of the second, merged and written by os.WriteFile, which *)
(* first truncates the file.  Meanwhile commands fail, the disk fills up,  *)
(* the process is killed, and the user edits mcp.json.                     *)
(***************************************************************************)
EXTENDS Integers, Sequences

CONSTANTS
    Setups,         \* runs of whichrepo setup, each for a workspace of its own
    Own,            \* what the user may have in mcp.json,
    Mergeable,      \* and what of it is JSON: servers and settings, not comments
    MaxTime,        \* bound on the clock, in seconds
    MayFail,        \* can commands, writes and processes fail?
    SpacedOut,      \* is there at most one run in a second?
    OneAtATime,     \* does one run end before the next begins?
    QuietEdits,     \* does the user edit only while none runs?
    StartsNull,     \* may mcp.json say null?
    ClientLists,    \* what a run may be asked to configure, in order
    None            \* nothing

Absent == [kind |-> "absent", own |-> {}, entry |-> None]
Empty == [kind |-> "empty", own |-> {}, entry |-> None]
Partial == [kind |-> "partial", own |-> {}, entry |-> None]
Null == [kind |-> "null", own |-> {}, entry |-> None]
Doc(own, entry) == [kind |-> "doc", own |-> own, entry |-> entry]

Contents == {Absent, Empty, Partial, Null}
            \cup {Doc(own, entry) : own \in SUBSET Own, entry \in Setups \cup {None}}

Times == 1..MaxTime

ASSUME AgentSetupAssumption ==
    /\ Mergeable \subseteq Own /\ None \notin Setups
    /\ MaxTime \in Nat \ {0}
    /\ ClientLists \subseteq Seq({"codex", "claude", "cursor"}) \ {<<>>}
    /\ {MayFail, SpacedOut, OneAtATime, QuietEdits, StartsNull} \subseteq BOOLEAN

\* One client, or those that detectedClients found, each once.
ASSUME NoClientTwice ==
    \A list \in ClientLists : \A i, j \in 1..Len(list) : list[i] = list[j] => i = j

VARIABLES
    config,     \* the content of mcp.json
    backups,    \* backups[t]: the content of mcp.json.backup-t
    registered, \* registered[c]: the run whose server the client c has
    now,        \* the clock
    pc,         \* idle, next, remove, readd, backup, backing, merge, writing, done,
                \* failed, dead
    clients,    \* the clients to configure,
    turn,       \* and which of them it is the turn of
    data,       \* what was read of mcp.json
    at,         \* the second that names the backup
    owed        \* (auxiliary) what the user has put into mcp.json

vars == <<config, backups, registered, now, pc, clients, turn, data, at, owed>>

Ended == {"idle", "done", "failed", "dead"}
Quiet == \A s \in Setups : pc[s] \in Ended

TypeOK ==
    /\ config \in Contents
    /\ backups \in [Times -> Contents]
    /\ registered \in [{"codex", "claude"} -> Setups \cup {None}]
    /\ now \in Times
    /\ pc \in [Setups -> Ended \cup {"next", "remove", "readd", "backup", "backing", "merge",
                                     "writing"}]
    /\ clients \in [Setups -> {<<>>} \cup ClientLists]
    /\ turn \in [Setups -> Nat \ {0}]
    /\ \A s \in Setups : pc[s] # "idle" => turn[s] <= Len(clients[s])
    /\ data \in [Setups -> Contents]
    /\ at \in [Setups -> Times]
    /\ owed \in SUBSET Own

Init ==
    /\ config \in {Absent, Doc(Own, None)} \cup (IF StartsNull THEN {Null} ELSE {})
    /\ backups = [t \in Times |-> Absent]
    /\ registered = [c \in {"codex", "claude"} |-> None]
    /\ now = 1
    /\ pc = [s \in Setups |-> "idle"]
    /\ clients = [s \in Setups |-> <<>>]
    /\ turn = [s \in Setups |-> 1]
    /\ data = [s \in Setups |-> Absent]
    /\ at = [s \in Setups |-> 1]
    /\ owed = config.own

-----------------------------------------------------------------------------
Go(s, label) == pc' = [pc EXCEPT ![s] = label]

Start(s) ==
    /\ pc[s] = "idle"
    /\ OneAtATime => Quiet
    /\ SpacedOut => \A other \in Setups : pc[other] # "idle" => at[other] < now
    /\ \E list \in ClientLists : clients' = [clients EXCEPT ![s] = list]
    /\ at' = [at EXCEPT ![s] = now]
    /\ Go(s, "next")
    /\ UNCHANGED <<config, backups, registered, now, turn, data, owed>>

\* Mutation: the turn goes past the last client.
ProceedPastEnd(s) ==
    /\ Go(s, IF turn[s] = Len(clients[s]) THEN "done" ELSE "next")
    /\ turn' = [turn EXCEPT ![s] = @ + 1]

\* The client is configured; on to the next.
Proceed(s) ==
    /\ IF turn[s] = Len(clients[s])
       THEN Go(s, "done") /\ UNCHANGED turn
       ELSE Go(s, "next") /\ turn' = [turn EXCEPT ![s] = @ + 1]

\* Apply returns the first error, and later clients are not tried.
Fail(s) == Go(s, "failed") /\ UNCHANGED turn

IsNext(s, client) == pc[s] = "next" /\ clients[s][turn[s]] = client

\* setupCommand of codex: mcp add replaces an entry of that name.
Codex(s) ==
    /\ IsNext(s, "codex")
    /\ \/ /\ registered' = [registered EXCEPT !["codex"] = s]
          /\ Proceed(s)
       \/ MayFail /\ Fail(s) /\ UNCHANGED registered
    /\ UNCHANGED <<config, backups, now, clients, data, at, owed>>

\* setupCommand of claude: mcp add refuses a name that is there.
ClaudeAdd(s) ==
    /\ IsNext(s, "claude")
    /\ \/ /\ registered["claude"] = None
          /\ registered' = [registered EXCEPT !["claude"] = s]
          /\ Proceed(s)
       \/ registered["claude"] # None /\ Go(s, "remove") /\ UNCHANGED <<turn, registered>>
       \/ MayFail /\ Fail(s) /\ UNCHANGED registered
    /\ UNCHANGED <<config, backups, now, clients, data, at, owed>>

\* Mutation: the entry is removed, and that is all.
ClaudeRemoveOnly(s) ==
    /\ pc[s] = "remove"
    /\ registered' = [registered EXCEPT !["claude"] = None]
    /\ Proceed(s)
    /\ UNCHANGED <<config, backups, now, clients, data, at, owed>>

\* The entry that is there, if it still is, is removed.
ClaudeRemove(s) ==
    /\ pc[s] = "remove"
    /\ \/ /\ registered["claude"] # None
          /\ registered' = [registered EXCEPT !["claude"] = None]
          /\ Go(s, "readd") /\ UNCHANGED turn
       \/ (MayFail \/ registered["claude"] = None) /\ Fail(s) /\ UNCHANGED registered
    /\ UNCHANGED <<config, backups, now, clients, data, at, owed>>

ClaudeAddAgain(s) ==
    /\ pc[s] = "readd"
    /\ \/ /\ registered["claude"] = None
          /\ registered' = [registered EXCEPT !["claude"] = s]
          /\ Proceed(s)
       \/ (MayFail \/ registered["claude"] # None) /\ Fail(s) /\ UNCHANGED registered
    /\ UNCHANGED <<config, backups, now, clients, data, at, owed>>

\* Mutation: mcp.json is written without a backup.
ReadConfigOnly(s) ==
    /\ IsNext(s, "cursor")
    /\ data' = [data EXCEPT ![s] = config]
    /\ IF config.kind = "partial" THEN Fail(s) ELSE Go(s, "merge") /\ UNCHANGED turn
    /\ UNCHANGED <<config, backups, registered, now, clients, at, owed>>

\* setupCursor: an empty file counts as an empty object; what is no JSON is an
\* error, and there is nothing to back up of a file that is not there.
ReadConfig(s) ==
    /\ IsNext(s, "cursor")
    /\ data' = [data EXCEPT ![s] = config]
    /\ IF config.kind = "partial"
       THEN Fail(s)
       ELSE Go(s, IF config = Absent THEN "merge" ELSE "backup") /\ UNCHANGED turn
    /\ UNCHANGED <<config, backups, registered, now, clients, at, owed>>

\* os.WriteFile of the backup truncates a file of that name.
BackupOpen(s) ==
    /\ pc[s] = "backup"
    /\ at' = [at EXCEPT ![s] = now]
    /\ backups' = [backups EXCEPT ![now] = Empty]
    /\ Go(s, "backing")
    /\ UNCHANGED <<config, registered, now, clients, turn, data, owed>>

BackupWrite(s) ==
    /\ pc[s] = "backing"
    /\ \/ backups' = [backups EXCEPT ![at[s]] = data[s]] /\ Go(s, "merge") /\ UNCHANGED turn
       \/ /\ MayFail
          /\ \E torn \in {Empty, Partial} : backups' = [backups EXCEPT ![at[s]] = torn]
          /\ Fail(s)
    /\ UNCHANGED <<config, registered, now, clients, data, at, owed>>

\* The root object is a nil map if the file says null, and the entry of
\* mcpServers panics; otherwise os.WriteFile truncates mcp.json.
WriteOpen(s) ==
    /\ pc[s] = "merge"
    /\ IF data[s] = Null
       THEN Go(s, "dead") /\ UNCHANGED config
       ELSE Go(s, "writing") /\ config' = Empty
    /\ UNCHANGED <<backups, registered, now, clients, turn, data, at, owed>>

\* Mutation: the merged object holds the new entry alone.
MergedAnew(content, s) == Doc({}, s)

\* What was read, without its comments, and the new entry.
Merged(content, s) == Doc(content.own \cap Mergeable, s)

\* The write may fail, or be complete and be followed by a Chmod that fails.
WriteConfig(s) ==
    /\ pc[s] = "writing"
    /\ \/ config' = Merged(data[s], s) /\ Proceed(s)
       \/ MayFail /\ config' \in {Merged(data[s], s), Empty, Partial} /\ Fail(s)
    /\ UNCHANGED <<backups, registered, now, clients, data, at, owed>>

\* The process is killed, possibly in the middle of a write.
Crash(s) ==
    /\ MayFail /\ pc[s] \notin Ended
    /\ Go(s, "dead")
    /\ IF pc[s] = "writing" THEN config' \in {Empty, Partial} ELSE UNCHANGED config
    /\ IF pc[s] = "backing"
       THEN \E torn \in {Empty, Partial} : backups' = [backups EXCEPT ![at[s]] = torn]
       ELSE UNCHANGED backups
    /\ UNCHANGED <<registered, now, clients, turn, data, at, owed>>

\* The user adds something to mcp.json (and never takes anything away).
Edit ==
    /\ QuietEdits => Quiet
    /\ config.kind \in {"absent", "empty", "doc"}
    /\ \E item \in Own \ config.own :
        /\ config' = Doc(config.own \cup {item}, config.entry)
        /\ owed' = owed \cup {item}
    /\ UNCHANGED <<backups, registered, now, pc, clients, turn, data, at>>

Tick ==
    /\ now < MaxTime
    /\ now' = now + 1
    /\ UNCHANGED <<config, backups, registered, pc, clients, turn, data, at, owed>>

Setup(s) ==
    \/ Start(s) \/ Codex(s)
    \/ ClaudeAdd(s) \/ ClaudeRemove(s) \/ ClaudeAddAgain(s)
    \/ ReadConfig(s) \/ BackupOpen(s) \/ BackupWrite(s) \/ WriteOpen(s) \/ WriteConfig(s)

Next == Edit \/ Tick \/ \E s \in Setups : Setup(s) \/ Crash(s)

Spec == Init /\ [][Next]_vars

-----------------------------------------------------------------------------
(* Properties *)

AllWell == \A s \in Setups : pc[s] \in {"idle", "done"}
Holder(client) == IF client = "cursor" THEN config.entry ELSE registered[client]

\* "Cursor configuration is backed up before changes" (docs/troubleshooting.md):
\* at whatever step a run fails or is killed, what the user wrote is in mcp.json or
\* in a backup, of this run or an earlier one.  (This takes runs of which no two
\* name their backup by the same second, and edits between runs: SpacedOut,
\* OneAtATime, QuietEdits.)
NothingIsLost ==
    owed \subseteq config.own \cup UNION {backups[t].own : t \in Times}

\* "Preserve existing MCP servers" (AI_INSTALL.md), "merges mcp.json"
\* (docs/integrations/cursor.md): after runs that ended well, mcp.json has the
\* servers that the user put into it, in whatever order runs and edits came.
ServersAreKept ==
    AllWell /\ config.kind = "doc" => owed \cap Mergeable \subseteq config.own

\* A client that a run has configured stays so, for that run or a later one, as
\* long as every other run ends well: no such run leaves Claude Code's entry removed
\* or mcp.json truncated, and a run that fails leaves the clients before the one it
\* failed at configured - although runSetup reports none of them then.  (The one it
\* failed at may have lost its entry between "remove" and the second "add".)
ConfiguredStays ==
    \A s \in Setups :
        pc[s] \in Ended /\ (\A t \in Setups \ {s} : pc[t] \in {"idle", "done"}) =>
            \A i \in DOMAIN clients[s] :
                pc[s] = "done" \/ i < turn[s] =>
                    \E t \in Setups : Holder(clients[s][i]) = t /\ at[t] >= at[s]
=============================================================================
