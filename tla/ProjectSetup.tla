--------------------------- MODULE ProjectSetup ---------------------------
(***************************************************************************)
(* What sets a project up and configures it: `paintress init',             *)
(* `config set' and `mcp-config generate'.  The project configuration is a *)
(* YAML file that the user also edits by hand: it is absent, garbled, or   *)
(* gives some keys a value.  A value is written in the file only if it is  *)
(* not the zero of its type, and a key that is not written has its default *)
(* when the file is read.                                                  *)
(*                                                                         *)
(* The .mcp.json at the root of the project is shared by the sibling       *)
(* tools, each of which reads it, adds its server and writes it back.      *)
(***************************************************************************)
EXTENDS Continent, Naturals

CONSTANTS SuSteps     \* bound: commands and edits

ASSUME SuAssumption == SuSteps \in Nat

VARIABLES suContinent,  \* .expedition: directories, skills, .gitignore
          suConfig,     \* .expedition/config.yaml
          suLast,       \* the last command that changed or refused to change it
          suServers,    \* .expedition/.mcp.json
          suLegacy,     \* .expedition/.run/mcp-config.json
          suRoot,       \* .mcp.json
          suSettings,   \* .expedition/.claude/settings.json
          suStage,      \* where `mcp-config generate' is
          suSteps

suVars == << suContinent, suConfig, suLast, suServers, suLegacy, suRoot, suSettings, suStage, suSteps >>

\* A text that is not given.
Unset == ""

ConfigKeys == {"team", "project", "workers", "dev_cmd", "no_dev"}
Default == [team |-> Unset, project |-> Unset, workers |-> "1", dev_cmd |-> "npm", no_dev |-> "false"]
Zero == [team |-> Unset, project |-> Unset, workers |-> "0", dev_cmd |-> Unset, no_dev |-> "false"]

\* The values tried for a key, those that are refused or ill-typed included.
Tried == [team |-> {Unset, "A", "B"}, project |-> {Unset, "P"}, workers |-> {"0", "2", "many"},
          dev_cmd |-> {Unset, "npm"}, no_dev |-> {"false", "true"}]

NoFile == [text |-> "absent", keys |-> << >>]
Garbled == [text |-> "garbled", keys |-> << >>]
Yaml(keys) == [text |-> "yaml", keys |-> keys]
NoServers == [text |-> "absent", servers |-> {}]

Stage(at, force, held) == [at |-> at, force |-> force, held |-> held]

SuInit ==
    /\ suContinent = NoContinent
    /\ suConfig = NoFile
    /\ suLast = [op |-> "none", ok |-> FALSE, was |-> NoFile, key |-> "team", value |-> Unset,
                  project |-> Unset]
    /\ suServers = NoServers
    /\ suLegacy \in {NoServers, [text |-> "json", servers |-> {"linear", "custom"}]}
    /\ suRoot = NoServers
    /\ suSettings = "absent"
    /\ suStage = Stage("idle", FALSE, NoServers)
    /\ suSteps = 0

McpParts == << suServers, suLegacy, suRoot, suSettings, suStage >>

Counted == suSteps < SuSteps /\ suSteps' = suSteps + 1

-----------------------------------------------------------------------------
(* The configuration.                                                      *)

WellTyped(keys) == \A k \in DOMAIN keys : ~(k = "workers" /\ keys[k] = "many")

\* A file that is not there is the default configuration.
LoadProjectConfig(file) ==
    IF file.text = "garbled" \/ ~WellTyped(file.keys) THEN [ok |-> FALSE, config |-> Default]
    ELSE [ok |-> TRUE, config |-> Over(file.keys, Default)]

\* omitempty: what is zero is not written.
SaveProjectConfig(config) == Yaml([k \in {j \in ConfigKeys : config[j] # Zero[j]} |-> config[k]])

ValidateProjectConfig(config) == config.no_dev = "true" \/ config.dev_cmd # Unset

\* Load, set one key, validate, write back the whole configuration.
UpdateProjectConfig(k, v) ==
    LET old == LoadProjectConfig(suConfig)
        new == [old.config EXCEPT ![k] = v]
        ok == old.ok /\ WellTyped([j \in {k} |-> v]) /\ ValidateProjectConfig(new)
    IN  /\ Counted
        /\ suConfig' = IF ok THEN SaveProjectConfig(new) ELSE suConfig
        /\ suContinent' = IF ok THEN [suContinent EXCEPT !.dirs = @ \union {"root"}] ELSE suContinent
        /\ suLast' = [op |-> "set", ok |-> ok, was |-> suConfig, key |-> k, value |-> v, project |-> Unset]
        /\ UNCHANGED McpParts

\* The values in the file win over the defaults, and the tracker's flags over
\* both: they count only together with a team, and then the project too,
\* given or not.  A garbled file is replaced.
MergedConfig(file, team, project) ==
    LET flagged == [Default EXCEPT !.team = team, !.project = project]
        tracker == IF team = Unset THEN << >> ELSE [team |-> team, project |-> project]
    IN  Over(tracker, Over(file.keys, flagged))

InitProject(team, project, force) ==
    LET proceeds == suConfig.text = "absent" \/ force
        done == ValidateContinent(suContinent)
        merged == MergedConfig(suConfig, team, project)
        ok == proceeds /\ WellTyped(merged)
    IN  /\ Counted
        /\ suContinent' = IF proceeds THEN done.world ELSE suContinent
        /\ suConfig' = IF ok THEN SaveProjectConfig(merged) ELSE suConfig
        /\ suLast' = [op |-> "init", ok |-> ok, was |-> suConfig, key |-> "team", value |-> team,
                      project |-> project]
        /\ UNCHANGED McpParts

WithKey(keys, k, v) == [j \in DOMAIN keys \union {k} |-> IF j = k THEN v ELSE keys[j]]

\* The user edits the configuration, or the .gitignore, by hand.
EditConfig ==
    /\ "root" \in suContinent.dirs
    /\ Counted
    /\ \/ \E k \in ConfigKeys : \E v \in Tried[k] : suConfig' = Yaml(WithKey(suConfig.keys, k, v))
       \/ suConfig' = Garbled
    /\ suLast' = [suLast EXCEPT !.op = "none"]
    /\ UNCHANGED << suContinent, suServers, suLegacy, suRoot, suSettings, suStage >>

EditIgnore ==
    /\ Counted
    /\ \E mark \in {"#", "!"} :
         suContinent' = [suContinent EXCEPT !.dirs = @ \union {"root"},
                         !.ignore = {l \in @ : l.entry # "events/"} \union {[mark |-> mark, entry |-> "events/"]}]
    /\ UNCHANGED << suConfig, suLast, suServers, suLegacy, suRoot, suSettings, suStage >>

-----------------------------------------------------------------------------
(* The servers of a session.  The command writes the file of the           *)
(* continent, then that of the project, then the settings.                 *)

\* Without --force an existing file stays; a file at the old place is moved
\* here, without the server that is no longer used.
GenerateMCPConfig(force) ==
    /\ suStage.at = "idle"
    /\ Counted
    /\ suServers' = IF ~force /\ suServers.text # "absent" THEN suServers
                    ELSE [text |-> "json",
                          servers |-> (IF force THEN {} ELSE suLegacy.servers \ {"linear"}) \union {"paintress"}]
    /\ suStage' = Stage("root", force, NoServers)
    /\ UNCHANGED << suContinent, suConfig, suLast, suLegacy, suRoot, suSettings >>

\* A file that cannot be parsed is left as it is, and the command ends there.
ReadRootConfig ==
    /\ suStage.at = "root"
    /\ suStage' = IF suRoot.text = "garbled" THEN Stage("idle", FALSE, NoServers)
                  ELSE Stage("write", suStage.force, suRoot)
    /\ UNCHANGED << suContinent, suConfig, suLast, suServers, suLegacy, suRoot, suSettings, suSteps >>

\* Mutant of WithOurs: the entry replaces the map of servers.
OnlyOurs(held) == [text |-> "json", servers |-> {"paintress"}]

WithOurs(held) == [text |-> "json", servers |-> held.servers \union {"paintress"}]

UpsertRootMCPConfig ==
    /\ suStage.at = "write"
    /\ suRoot' = WithOurs(suStage.held)
    /\ suStage' = Stage("settings", suStage.force, NoServers)
    /\ UNCHANGED << suContinent, suConfig, suLast, suServers, suLegacy, suSettings, suSteps >>

GenerateClaudeSettings ==
    /\ suStage.at = "settings"
    /\ suSettings' = IF suSettings = "absent" \/ suStage.force THEN "minimal" ELSE suSettings
    /\ suStage' = Stage("idle", FALSE, NoServers)
    /\ UNCHANGED << suContinent, suConfig, suLast, suServers, suLegacy, suRoot, suSteps >>

\* A sibling tool adds its server to the shared file.
SiblingUpserts ==
    /\ suRoot.text # "garbled"
    /\ Counted
    /\ suRoot' = [text |-> "json", servers |-> suRoot.servers \union {"sibling"}]
    /\ UNCHANGED << suContinent, suConfig, suLast, suServers, suLegacy, suSettings, suStage >>

UserEditsServers ==
    /\ suStage.at = "idle"
    /\ Counted
    /\ \/ suRoot' = [text |-> "garbled", servers |-> {}] /\ UNCHANGED << suServers, suSettings >>
       \/ suServers' = [text |-> "json", servers |-> suServers.servers \union {"custom"}]
          /\ UNCHANGED << suRoot, suSettings >>
       \/ suSettings' = "edited" /\ UNCHANGED << suServers, suRoot >>
    /\ UNCHANGED << suContinent, suConfig, suLast, suLegacy, suStage >>

\* The file a session is started with, if any.
ResolveMCPConfigPath ==
    IF suServers.text # "absent" THEN suServers ELSE suLegacy

SuNext ==
    \/ \E k \in ConfigKeys : \E v \in Tried[k] : UpdateProjectConfig(k, v)
    \/ \E team \in Tried.team, project \in Tried.project, force \in BOOLEAN : InitProject(team, project, force)
    \/ EditConfig
    \/ EditIgnore
    \/ \E force \in BOOLEAN : GenerateMCPConfig(force)
    \/ ReadRootConfig
    \/ UpsertRootMCPConfig
    \/ GenerateClaudeSettings
    \/ SiblingUpserts
    \/ UserEditsServers

SuSpec == SuInit /\ [][SuNext]_suVars

-----------------------------------------------------------------------------
\* The files hold what the commands and the user can put there.
SuTypeOK ==
    /\ suConfig.text \in {"absent", "garbled", "yaml"} /\ DOMAIN suConfig.keys \subseteq ConfigKeys
    /\ suContinent.dirs \subseteq StateDirs
    /\ suSettings \in {"absent", "edited", "minimal"}
    /\ suStage.at \in {"idle", "root", "write", "settings"}
    /\ suSteps \in 0 .. SuSteps

\* A zero that differs from the default cannot be kept in the file.
Kept(k, v) == IF v = Zero[k] THEN Default[k] ELSE v

\* `config set' changes the key it is given and no other, as the next command
\* reads them; only a zero, set or written by hand, turns into the default
\* (workers 0, direct execution, becomes workers 1).
SetChangesOneKey ==
    (suLast.op = "set" /\ suLast.ok) =>
        LET before == LoadProjectConfig(suLast.was).config
            now == LoadProjectConfig(suConfig)
        IN  /\ now.ok /\ ValidateProjectConfig(now.config)
            /\ now.config[suLast.key] = Kept(suLast.key, suLast.value)
            /\ \A k \in ConfigKeys \ {suLast.key} : now.config[k] = Kept(k, before[k])

\* `init --force' over a configuration keeps what the user has set: the tracker
\* changes only with a team, but then the project goes too when none is given.
InitKeepsSettings ==
    (suLast.op = "init" /\ suLast.ok /\ suLast.was.text = "yaml") =>
        LET before == LoadProjectConfig(suLast.was).config
            now == LoadProjectConfig(suConfig)
        IN  /\ now.ok
            /\ \A k \in ConfigKeys \ {"team", "project"} : now.config[k] = Kept(k, before[k])
            /\ suLast.value # Unset => now.config.team = suLast.value /\ now.config.project = suLast.project
            /\ suLast.value = Unset => now.config.team = before.team
            /\ suLast.value = Unset /\ "project" \in DOMAIN suLast.was.keys => now.config.project = before.project

\* Refused commands leave the file as it was.
RefusalsKeep == (suLast.op # "none" /\ ~suLast.ok) => suConfig = suLast.was

\* After an init .gitignore names every entry, and keeps what the user wrote of
\* one: an entry commented out or negated is not ignored.
IgnoredOrMentioned ==
    StateDirs \subseteq suContinent.dirs => {l.entry : l \in suContinent.ignore} = IgnoredEntries

\* What init, config set and mcp-config leave of the user's files.
SetupSound == SetChangesOneKey /\ InitKeepsSettings /\ RefusalsKeep /\ IgnoredOrMentioned

\* No command takes a server of another tool out of the shared file, unless it
\* was added between the command's read and its write; and a server the user
\* added to the continent's file goes only with --force.
ServersKept ==
    [][/\ suStage'.at = "settings" =>
            \A s \in suRoot.servers \ suRoot'.servers : s \notin suStage.held.servers
       /\ suStage'.at = "root" /\ ~suStage'.force =>
            ResolveMCPConfigPath.servers \ {"linear"} \subseteq suServers'.servers]_suVars
=============================================================================
