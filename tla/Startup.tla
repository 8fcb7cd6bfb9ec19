------------------------------ MODULE Startup ------------------------------
(***************************************************************************)
(* From the command line to the servers: parse_args, find_config and run() *)
(* of main.rs around the loading of the file (Routing), while a deployment *)
(* may put the config files in their places or take them away. The check   *)
(* that a file exists and its opening are two system calls.                *)
(***************************************************************************)
EXTENDS Routing, FiniteSets

CONSTANTS
    Starts,      \* records of a command line, TPT_CONFIG and the files there
    Absent,      \* no file
    NotYaml,     \* a directory, or a file that is no YAML of a BaseConfig
    Deployed,    \* what a deployment leaves in the place of a file
    MaxDeploys   \* bound: how many of the paths it changes

\* The command line without the program's name, and a file, or none, at every
\* path that it, TPT_CONFIG or the search can name.
ASSUME StartAssumption ==
    \A start \in Starts :
        /\ start.args \in Seq(Range(start.args))
        /\ Len(start.args) > 1 => start.args[2] \in DOMAIN start.files
        /\ start.env \in {None} \cup DOMAIN start.files
        /\ start.files \in [DOMAIN start.files -> Configs \cup {Absent, NotYaml}]

VARIABLES
    args,      \* the command line
    env,       \* TPT_CONFIG, None if it is not set
    files,     \* the config files
    steady,    \* the paths that no deployment has touched
    step,      \* "parse", "find", "config", or "help", "usage"
    tried,     \* how many paths find_config() found missing
    path       \* config_path, None before it is chosen

startVars == <<args, env, files, steady, step, tried, path>>

StartInit ==
    /\ Init
    /\ \E start \in Starts :
          args = start.args /\ env = start.env /\ files = start.files
    /\ steady = DOMAIN files
    /\ step = "parse"
    /\ tried = 0
    /\ path = None

-----------------------------------------------------------------------------
(* parse_args. *)

HelpAsked == \E i \in DOMAIN args : args[i] \in {"--help", "-h"}

\* What follows the path is ignored.
NamesConfig == args # <<>> /\ args[1] \in {"--config", "-c"} /\ Len(args) > 1

ShowHelp ==
    /\ step = "parse"
    /\ HelpAsked
    /\ step' = "help"
    /\ UNCHANGED <<vars, args, env, files, steady, tried, path>>

\* An unknown argument, or --config without its path.
ShowUsage ==
    /\ step = "parse"
    /\ ~HelpAsked /\ args # <<>> /\ ~NamesConfig
    /\ step' = "usage"
    /\ UNCHANGED <<vars, args, env, files, steady, tried, path>>

TakeNamed ==
    /\ step = "parse"
    /\ ~HelpAsked /\ NamesConfig
    /\ path' = args[2]
    /\ step' = "config"
    /\ UNCHANGED <<vars, args, env, files, steady, tried>>

BeginSearch ==
    /\ step = "parse"
    /\ args = <<>>
    /\ step' = "find"
    /\ UNCHANGED <<vars, args, env, files, steady, tried, path>>

-----------------------------------------------------------------------------
(* find_config. *)

\* TPT_CONFIG, then the two names in /etc/tpt and in the working directory.
FromEnv == IF env = None THEN <<>> ELSE <<env>>
NamesFirst ==                                                       \* mutant
    FromEnv \o <<"/etc/tpt/tpt.yaml", "tpt.yaml", "/etc/tpt/config.yaml", "config.yaml">>
SearchPaths ==
    FromEnv \o <<"/etc/tpt/tpt.yaml", "/etc/tpt/config.yaml", "tpt.yaml", "config.yaml">>

Exists(p) == files[p] # Absent

Find ==
    /\ step = "find"
    /\ tried < Len(SearchPaths)
    /\ IF Exists(SearchPaths[tried + 1])
       THEN path' = SearchPaths[tried + 1] /\ step' = "config" /\ UNCHANGED tried
       ELSE tried' = tried + 1 /\ UNCHANGED <<path, step>>
    /\ UNCHANGED <<vars, args, env, files, steady>>

LastNotTried == tried + 1 >= Len(SearchPaths)                       \* mutant
AllTried == tried = Len(SearchPaths)

\* There are no arguments, so it is the help and a success (main.rs 105); the
\* error below it is for arguments that never lead to a search.
NothingFound ==
    /\ step = "find"
    /\ AllTried
    /\ step' = "help"
    /\ UNCHANGED <<vars, args, env, files, steady, tried, path>>

-----------------------------------------------------------------------------
(* run(): Config::new, Server::from, and the server that runs. *)

OpenConfig ==
    /\ step = "config" /\ phase = "open"
    /\ IF files[path] \in Configs THEN Open(files[path]) ELSE LoadFails
    /\ UNCHANGED startVars

LoadedStep ==
    /\ step = "config"
    /\ \/ LoadRejected \/ Load
       \/ \E s \in Servers : Verify(s)
       \/ Build
       \/ \E p \in proxies, hello \in Hellos : Route(p, hello)
    /\ UNCHANGED startVars

\* The file matters until it is read: what happens to it later, no one sees.
Deploy(p, file) ==
    /\ phase = "open" /\ step \notin {"help", "usage"}
    /\ files[p] # file
    /\ Cardinality(DOMAIN files \ (steady \ {p})) <= MaxDeploys
    /\ files' = [files EXCEPT ![p] = file]
    /\ steady' = steady \ {p}
    /\ UNCHANGED <<vars, args, env, step, tried, path>>

\* main() returned its exit code, or no one connects.
Rest ==
    /\ step \in {"help", "usage"} \/ Idle
    /\ UNCHANGED <<vars, startVars>>

StartNext ==
    \/ ShowHelp \/ ShowUsage \/ TakeNamed \/ BeginSearch
    \/ Find \/ NothingFound
    \/ OpenConfig \/ LoadedStep
    \/ \E p \in DOMAIN files, file \in Deployed : Deploy(p, file)
    \/ Rest

StartSpec == StartInit /\ [][StartNext]_<<vars, startVars>>

-----------------------------------------------------------------------------
(* Properties. *)

\* What main() returns: 0 without a server, and 1.
Succeeds == step = "help"
Fails == step = "usage" \/ phase \in {"unreadable", "rejected"}

\* There from the start on, whatever was deployed meanwhile.
Stayed(p) == p \in steady /\ files[p] # Absent

\* The order of README.md 70-74.
Documented ==
    (IF env = None THEN <<>> ELSE <<env>>)
        \o <<"/etc/tpt/tpt.yaml", "/etc/tpt/config.yaml", "tpt.yaml", "config.yaml">>

\* The config in use is the one of --config, or the first of the documented
\* order: a file that comes before it was missing at some time of the search
\* (main.rs 61-83; README.md 68-74).
FirstOfOrder ==
    step = "config" =>
        \/ NamesConfig /\ path = args[2]
        \/ /\ args = <<>>
           /\ \E i \in DOMAIN Documented :
                 /\ Documented[i] = path
                 /\ \A j \in 1 .. i - 1 : ~Stayed(Documented[j])

\* The exit code tells what happened: a success without a server only for one
\* that asked for help, or when no file of the search stayed in its place; a
\* failure only for a misused command line, a file that is not there or is not
\* YAML when it is opened, or one that is not sound (main.rs 85-146).
ExitTellsWhy ==
    /\ Succeeds =>
          \/ HelpAsked
          \/ args = <<>> /\ \A i \in DOMAIN Documented : ~Stayed(Documented[i])
    /\ Fails =>
          \/ ~HelpAsked /\ args # <<>> /\ ~NamesConfig
          \/ step = "config" /\ files[path] \notin Configs
          \/ step = "config" /\ config = files[path] /\ ~Sound
    /\ phase = "serve" => step = "config" /\ config = files[path] /\ Sound
=============================================================================
