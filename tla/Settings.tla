------------------------------ MODULE Settings ------------------------------
(***************************************************************************)
(* How a process of whichrepo comes to its settings: the layers of         *)
(* internal/config/config.go (defaults, the workspace's two files or an    *)
(* explicit one), then environment and flags (cmd/whichrepo/main.go), and  *)
(* the second reading of the files by every refresh.                       *)
(*                                                                         *)
(* One option is looked at, chosen in SettingsInit.  A value is told only  *)
(* by the place it comes from: <<"shared", d>> is what .whichrepo.yaml of  *)
(* the workspace d says.                                                   *)
(***************************************************************************)
EXTENDS Integers, Sequences

CONSTANTS
    Dirs,           \* directories that may be workspaces
    Cwd,            \* the one the process starts in
    Options,        \* the options looked at
    WorkspaceArgs,  \* what --workspace may be given, in order
    NamedTwice,     \* may environment and flags both name a workspace or a file?
    SharedTexts,    \* what may be in .whichrepo.yaml,
    LocalTexts,     \* in .whichrepo.local.yaml,
    TeamTexts,      \* and in the file that WHICHREPO_CONFIG or --config names
    MaxEdits,       \* bound on the edits of files
    NotGiven        \* no value

Default == <<"default">>
Invalid == <<"invalid">>
Empty == <<"empty">>
FromEnv == <<"env">>
FromFlag == <<"flag">>
Failed == <<"failed">>

Shared(d) == <<"shared", d>>
Local(d) == <<"local", d>>
Team == <<"team">>
Files == {Shared(d) : d \in Dirs} \cup {Local(d) : d \in Dirs} \cup {Team}

\* A file does not exist, is no YAML, or says of the option: a value of its
\* own, an empty one, one out of range, or (init wrote it) the default.
Texts == {"absent", "broken", "own", "empty", "invalid", "rendered"}

Validated == {"provider", "provider_timeout", "top_k"}
DefaultIfEmpty == {"provider", "provider_timeout"}

Values == Files \cup {Default, Invalid, Empty, FromEnv, FromFlag}

SettingsType ==
    [workspace : Dirs, base : Dirs, explicitConfig : {NotGiven, Team}, value : Values]
ReportType == [workspace : Dirs, scanned : Dirs, value : Values \cup {Failed}]

ASSUME SettingsAssumption ==
    /\ Cwd \in Dirs
    /\ NotGiven \notin Dirs \cup Values \cup SettingsType
    /\ Options \subseteq {"provider", "provider_timeout", "model", "database", "top_k"}
    /\ WorkspaceArgs \subseteq Seq(Dirs)
    /\ SharedTexts \subseteq Texts /\ LocalTexts \subseteq Texts /\ TeamTexts \subseteq Texts
    /\ NamedTwice \in BOOLEAN /\ MaxEdits \in Nat

VARIABLES
    option,
    command,    \* init, show (config show), or serve (dashboard, mcp: refresh at will)
    files,
    env,        \* WHICHREPO_WORKSPACE, WHICHREPO_CONFIG, and the option's own variable
    args,       \* --workspace, --config, and the option's own flag
    pc,         \* start, checked and written (of init), ready, failed, done
    settings,   \* the settings record
    report,     \* what the process told last
    edits       \* (auxiliary) edits so far

settingsVars == <<option, command, files, env, args, pc, settings, report, edits>>

SettingsTypeOK ==
    /\ option \in Options /\ command \in {"init", "show", "serve"}
    /\ files \in [Files -> Texts]
    /\ pc \in {"start", "checked", "written", "ready", "failed", "done"}
    /\ settings \in SettingsType \cup {NotGiven}
    /\ settings = NotGiven <=> pc \in {"start", "checked", "written", "failed"}
    /\ report \in ReportType \cup {NotGiven}
    /\ edits \in 0..MaxEdits

\* A value from the environment that is out of range; top_k has no variable.
EnvValues == {NotGiven, FromEnv, Invalid}

SettingsInit ==
    /\ option \in Options
    /\ command \in {"init", "show", "serve"}
    /\ files \in [Files -> Texts]
    /\ \A d \in Dirs : files[Shared(d)] \in SharedTexts /\ files[Local(d)] \in LocalTexts
    /\ files[Team] \in TeamTexts
    /\ env \in [workspace : Dirs \cup {NotGiven}, config : {NotGiven, Team}, value : EnvValues]
    /\ args \in [workspace : WorkspaceArgs, config : {NotGiven, Team}, value : {NotGiven, FromFlag, Invalid}]
    /\ option = "top_k" => env.value = NotGiven
    /\ NamedTwice \/ /\ env.workspace = NotGiven \/ args.workspace = <<>>
                     /\ env.config = NotGiven \/ args.config = NotGiven
    /\ pc = "start"
    /\ settings = NotGiven
    /\ report = NotGiven
    /\ edits = 0

-----------------------------------------------------------------------------
\* Mutation: the shared file is laid over the local one.
ConfigPathsReversed(d, explicit) ==
    IF explicit # NotGiven THEN <<explicit>> ELSE <<Local(d), Shared(d)>>

\* ConfigPaths: an explicit file replaces both files of the workspace.
ConfigPaths(d, explicit) ==
    IF explicit # NotGiven THEN <<explicit>> ELSE <<Shared(d), Local(d)>>

\* overlay: a file that does not exist, or does not set the option, leaves it.
Overlay(value, f) ==
    CASE files[f] = "own" -> f
      [] files[f] = "empty" -> Empty
      [] files[f] = "invalid" -> Invalid
      [] files[f] = "rendered" -> Default
      [] OTHER -> value

\* LoadWorkspace's loop over its one or two files.
Overlaid(paths) ==
    LET first == Overlay(Default, paths[1])
    IN  IF Len(paths) = 1 THEN first ELSE Overlay(first, paths[2])

Normalize(value) ==
    IF value = Empty /\ option \in DefaultIfEmpty THEN Default ELSE value

IsValid(value) == option \in Validated => value \notin {Invalid, Empty}

\* Mutation: what the files say is taken as it is.
LoadWithoutValidate(d, explicit) ==
    IF \E i \in DOMAIN ConfigPaths(d, explicit) : files[ConfigPaths(d, explicit)[i]] = "broken"
    THEN Failed
    ELSE Normalize(Overlaid(ConfigPaths(d, explicit)))

LoadWorkspace(d, explicit) ==
    LET paths == ConfigPaths(d, explicit)
        value == Normalize(Overlaid(paths))
    IN  IF (\E i \in DOMAIN paths : files[paths[i]] = "broken") \/ ~ IsValid(value)
        THEN Failed
        ELSE value

EnvOr(given, fallback) == IF given # NotGiven THEN given ELSE fallback

\* What the environment makes of a loaded value: only a timeout is looked at.
WithEnv(loaded) ==
    IF loaded = Failed \/ (option = "provider_timeout" /\ env.value = Invalid)
    THEN Failed
    ELSE EnvOr(env.value, loaded)

\* Mutation: a relative database path is taken from the current directory.
DefaultSettingsFromCwd(d, explicit) ==
    [workspace |-> EnvOr(env.workspace, d), base |-> Cwd, explicitConfig |-> explicit,
     value |-> WithEnv(LoadWorkspace(EnvOr(env.workspace, d), explicit))]

\* defaultSettings.  base: the directory that a relative index.database is in.
DefaultSettings(d, explicit) ==
    LET absolute == EnvOr(env.workspace, d)
    IN  [workspace |-> absolute, base |-> absolute, explicitConfig |-> explicit,
         value |-> WithEnv(LoadWorkspace(absolute, explicit))]

\* flagValue looks at the first --workspace, the flag package keeps the last.
FirstOr(s, fallback) == IF s = <<>> THEN fallback ELSE Head(s)
LastOr(s, fallback) == IF s = <<>> THEN fallback ELSE s[Len(s)]

\* commandFlags, then parseSettingsFlags.
FlagSettings ==
    LET cfg == DefaultSettings(FirstOr(args.workspace, Cwd), EnvOr(env.config, args.config))
    IN  IF cfg.value = Failed
        THEN cfg
        ELSE [cfg EXCEPT !.workspace = LastOr(args.workspace, @),
                         !.value = IF args.value # NotGiven THEN args.value ELSE @]

\* Mutation: the error is lost.
AdoptAnyway(cfg) == pc' = "ready" /\ settings' = cfg

\* The settings are good, or the process ends with an error.
Adopt(cfg) ==
    IF cfg.value = Failed
    THEN pc' = "failed" /\ settings' = NotGiven
    ELSE pc' = "ready" /\ settings' = cfg

Start ==
    /\ pc = "start" /\ command # "init"
    /\ Adopt(FlagSettings)
    /\ UNCHANGED <<option, command, files, env, args, report, edits>>

\* refreshWithStore reads the files again, those of the flags' workspace.
Refresh ==
    /\ pc = "ready" /\ command # "show"
    /\ report' = [workspace |-> IF command = "init" THEN FirstOr(args.workspace, Cwd)
                                                    ELSE settings.workspace,
                  scanned |-> settings.workspace,
                  value |-> LoadWorkspace(settings.workspace, settings.explicitConfig)]
    /\ IF command = "init" THEN pc' = "done" ELSE UNCHANGED pc
    /\ UNCHANGED <<option, command, files, env, args, settings, edits>>

\* config show: what the files say.
Show ==
    /\ pc = "ready" /\ command = "show"
    /\ report' = [workspace |-> settings.workspace, scanned |-> settings.workspace,
                  value |-> LoadWorkspace(settings.workspace, settings.explicitConfig)]
    /\ pc' = "done"
    /\ UNCHANGED <<option, command, files, env, args, settings, edits>>

\* runInit: Stat, then WriteFile, then defaultSettings and refresh.
InitCheck ==
    /\ pc = "start" /\ command = "init"
    /\ pc' = IF files[Shared(FirstOr(args.workspace, Cwd))] = "absent" THEN "checked" ELSE "failed"
    /\ UNCHANGED <<option, command, files, env, args, settings, report, edits>>

InitWrite ==
    /\ pc = "checked"
    /\ files' = [files EXCEPT ![Shared(FirstOr(args.workspace, Cwd))] = "rendered"]
    /\ pc' = "written"
    /\ UNCHANGED <<option, command, env, args, settings, report, edits>>

\* Flags and WHICHREPO_CONFIG mean nothing to init.
InitLoad ==
    /\ pc = "written"
    /\ Adopt(DefaultSettings(FirstOr(args.workspace, Cwd), NotGiven))
    /\ UNCHANGED <<option, command, files, env, args, report, edits>>

\* Somebody edits a file.
EditFile(f) ==
    /\ pc \notin {"failed", "done"} /\ edits < MaxEdits
    /\ \E text \in (CASE f = Team -> TeamTexts [] f[1] = "shared" -> SharedTexts
                      [] OTHER -> LocalTexts) :
        /\ text # files[f]
        /\ files' = [files EXCEPT ![f] = text]
    /\ edits' = edits + 1
    /\ UNCHANGED <<option, command, env, args, pc, settings, report>>

SettingsNext ==
    \/ Start \/ Refresh \/ Show
    \/ InitCheck \/ InitWrite \/ InitLoad
    \/ \E f \in Files : EditFile(f)

SettingsSpec == SettingsInit /\ [][SettingsNext]_settingsVars

-----------------------------------------------------------------------------
(* Properties *)

\* The layers of docs/configuration.md, from the lowest: defaults, shared file,
\* local file, environment, flags.  A layer is a rank and what it says.
WorkspaceByRank == LastOr(args.workspace, EnvOr(env.workspace, Cwd))
ConfigByRank == EnvOr(args.config, env.config)

Layers ==
    LET says(f) == CASE files[f] = "own" -> f
                     [] files[f] = "empty" -> Empty
                     [] files[f] = "invalid" -> Invalid
                     [] files[f] = "rendered" -> Default
                     [] OTHER -> NotGiven
    IN  {<<1, Default>>}
        \cup (IF ConfigByRank # NotGiven
              THEN {<<3, says(ConfigByRank)>>}
              ELSE {<<2, says(Shared(WorkspaceByRank))>>, <<3, says(Local(WorkspaceByRank))>>})
        \cup {<<4, env.value>>, <<5, args.value>>}

Highest ==
    LET given == {layer \in Layers : layer[2] # NotGiven}
    IN  CHOOSE layer \in given : \A other \in given : other[1] <= layer[1]

\* commandFlags reads workspace and configuration ahead of the flag package, to
\* make the files' values the flags' defaults.  For all that, the value in
\* force, the workspace and the file are those of the highest layer that gives
\* them (an empty one stands for the default).
HighestLayerWins ==
    pc = "ready" /\ command # "init" /\ edits = 0 =>
        /\ settings.value = Normalize(Highest[2])
        /\ settings.workspace = WorkspaceByRank
        /\ settings.explicitConfig = ConfigByRank

\* A relative database is in the workspace that is scanned into it.
DatabaseIsInWorkspace ==
    /\ pc \in {"ready", "done"} => settings.base = settings.workspace
    /\ report # NotGiven => report.scanned = settings.base

\* A value out of range gets no further than the files it is in: neither to
\* the settings of a process nor, later, to one of its refreshes.
InvalidOnlyByOverride ==
    option \in Validated =>
        /\ /\ pc \in {"ready", "done"} /\ settings.value \in {Invalid, Empty}
           => Invalid \in {args.value, env.value}
        /\ report # NotGiven => report.value \notin {Invalid, Empty}
=============================================================================
