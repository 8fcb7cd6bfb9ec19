--------------------------- MODULE StartupProofs ---------------------------
(***************************************************************************)
(* For every command line, TPT_CONFIG and set of files, and any number of  *)
(* deployments: what is searched, opened and reported.                     *)
(***************************************************************************)
EXTENDS Startup, RoutingProofs

\* What find_config() knows of the paths behind it, and run() of the file.
SInv ==
    /\ tried \in 0 .. Len(SearchPaths)
    /\ \A i \in 1 .. tried : ~Stayed(SearchPaths[i])
    /\ step = "find" => args = <<>>
    /\ step = "usage" => ~HelpAsked /\ args # <<>> /\ ~NamesConfig
    /\ phase # "open" => step = "config"
    /\ phase = "unreadable" => files[path] \notin Configs
    /\ phase \notin {"open", "unreadable"} => config = files[path]
    /\ step = "help" => HelpAsked \/ (args = <<>> /\ AllTried)
    /\ FirstOfOrder

-----------------------------------------------------------------------------
(* Lemmas. *)

\* The directories and names of find_config() make the documented order
\* (main.rs 68-72).
LEMMA SearchOrder ==
    /\ SearchPaths = Documented
    /\ DOMAIN SearchPaths = 1 .. Len(SearchPaths)
    /\ Len(SearchPaths) \in Nat
<1> DEFINE names == <<"/etc/tpt/tpt.yaml", "/etc/tpt/config.yaml", "tpt.yaml", "config.yaml">>
           all == {env, "/etc/tpt/tpt.yaml", "/etc/tpt/config.yaml", "tpt.yaml", "config.yaml"}
<1>1. FromEnv \in Seq(all)
  <2>1. <<>> \in Seq(all)
    OBVIOUS
  <2>2. <<env>> \in Seq(all)
    OBVIOUS
  <2> QED
    BY <2>1, <2>2 DEF FromEnv
<1>2. names \in Seq(all)
  OBVIOUS
<1>3. FromEnv \o names \in Seq(all)
  <2> HIDE DEF names, all
  <2> QED
    BY <1>1, <1>2
<1> QED
  BY <1>3 DEF SearchPaths, Documented, FromEnv

\* A step that leaves the command line, TPT_CONFIG, the files and the path
\* alone, and one that a deployment takes: no path comes to stay.
LEMMA StayedOnlyShrinks ==
    ASSUME \/ UNCHANGED <<files, steady>>
           \/ \E p \in DOMAIN files, file \in Deployed : Deploy(p, file),
           NEW q, Stayed(q)'
    PROVE  Stayed(q)
<1>1. CASE UNCHANGED <<files, steady>>
  BY <1>1 DEF Stayed
<1>2. ASSUME NEW p \in DOMAIN files, NEW file \in Deployed, Deploy(p, file)
      PROVE  Stayed(q)
  BY <1>2 DEF Stayed, Deploy
<1> QED
  BY <1>1, <1>2

-----------------------------------------------------------------------------
(* Startup takes the steps of Routing. *)

LEMMA StartStep == [StartNext]_<<vars, startVars>> => [Next]_vars
<1> SUFFICES ASSUME [StartNext]_<<vars, startVars>> PROVE [Next]_vars
  OBVIOUS
<1>1. CASE ShowHelp \/ ShowUsage \/ TakeNamed \/ BeginSearch \/ Find \/ NothingFound
  BY <1>1 DEF ShowHelp, ShowUsage, TakeNamed, BeginSearch, Find, NothingFound, vars
<1>2. CASE OpenConfig
  BY <1>2 DEF OpenConfig, Next
<1>3. CASE LoadedStep
  BY <1>3 DEF LoadedStep, Next
<1>4. CASE \E p \in DOMAIN files, file \in Deployed : Deploy(p, file)
  BY <1>4 DEF Deploy, vars
<1>5. CASE Rest \/ UNCHANGED <<vars, startVars>>
  BY <1>5 DEF Rest, vars
<1> QED
  BY <1>1, <1>2, <1>3, <1>4, <1>5 DEF StartNext

\* Whatever the command line and the files do, the config is loaded, verified
\* and routed as Routing has it (main.rs 85-138).
THEOREM StartRefinement == StartSpec => Spec
<1>1. StartInit => Init
  BY DEF StartInit
<1> QED
  BY <1>1, StartStep, PTL DEF StartSpec, Spec

\* So the process that main() starts routes by the file it opened as the order-free
\* promise says, whatever was deployed meanwhile (main.rs 61-146, tcp.rs 103-172).
THEOREM StartRoutes == StartSpec => ImplementsRouting
<1> QED
  BY StartRefinement, RouterRefinement, PTL

\* What is true of a config file once it is read is true of the one the search
\* found: its verdict, and routes that resolve and are never those of another
\* name (main.rs 117-146, loader.rs 153-198, tcp.rs 103-172).
THEOREM StartKeepsRouting == StartSpec => [](VerdictOfFile /\ NeverFallsBack /\ NoForeignRoute)
<1> QED
  BY StartRefinement, VerdictCorrect, EveryRouteResolves, NoForeignRouteCorrect, PTL

\* And so is what the documents promise where they are right: the first name of
\* a whole ClientHello, and the timeout of a via block (README.md 10, 118).
THEOREM StartPromises ==
    /\ ~Split => (StartSpec => [](FirstNameRouted /\ RoutedByName))
    /\ ViaGiven => (StartSpec => []TimeoutDefaults)
<1>1. ASSUME ~Split PROVE StartSpec => [](FirstNameRouted /\ RoutedByName)
  BY <1>1, StartRefinement, FirstNameWhere, RoutedByNameWhere, PTL
<1>2. ASSUME ViaGiven PROVE StartSpec => []TimeoutDefaults
  BY <1>2, StartRefinement, TimeoutDefaultsWhere, PTL
<1> QED
  BY <1>1, <1>2

-----------------------------------------------------------------------------
(* The invariant. *)

LEMMA SInvInit == StartInit => SInv
BY SearchOrder DEF StartInit, Init, SInv, FirstOfOrder

\* The steps that leave the files and the search alone.
LEMMA SInvParse ==
    ASSUME SInv, RInv, ShowHelp \/ ShowUsage \/ TakeNamed \/ BeginSearch \/ NothingFound
    PROVE  SInv'
<1>1. UNCHANGED <<vars, args, env, files, steady, tried>>
  BY DEF ShowHelp, ShowUsage, TakeNamed, BeginSearch, NothingFound
<1>2. /\ (tried \in 0 .. Len(SearchPaths))'
      /\ (\A i \in 1 .. tried : ~Stayed(SearchPaths[i]))'
      /\ SearchPaths' = SearchPaths
      /\ HelpAsked' = HelpAsked /\ NamesConfig' = NamesConfig /\ AllTried' = AllTried
  BY <1>1 DEF SInv, Stayed, SearchPaths, FromEnv, HelpAsked, NamesConfig, AllTried
<1>3. phase = "open" /\ phase' = "open"
  BY <1>1 DEF SInv, vars, ShowHelp, ShowUsage, TakeNamed, BeginSearch, NothingFound
<1>4. FirstOfOrder'
  BY <1>1, <1>2 DEF FirstOfOrder, ShowHelp, ShowUsage, TakeNamed, BeginSearch, NothingFound
<1> QED
  BY <1>1, <1>2, <1>3, <1>4
     DEF SInv, ShowHelp, ShowUsage, TakeNamed, BeginSearch, NothingFound

LEMMA SInvFind ==
    ASSUME SInv, Find
    PROVE  SInv'
<1> DEFINE p == SearchPaths[tried + 1]
<1>1. /\ step = "find" /\ tried < Len(SearchPaths)
      /\ UNCHANGED <<vars, args, env, files, steady>>
  BY DEF Find
<1>2. /\ SearchPaths' = SearchPaths /\ Documented' = Documented
      /\ HelpAsked' = HelpAsked /\ NamesConfig' = NamesConfig
      /\ \A q : Stayed(q)' = Stayed(q)
  BY <1>1 DEF SearchPaths, FromEnv, Documented, HelpAsked, NamesConfig, Stayed
<1>3. args = <<>> /\ args' = <<>> /\ phase = "open" /\ phase' = "open"
  BY <1>1 DEF SInv, vars
<1>4. CASE files[p] # Absent
  <2>1. path' = p /\ step' = "config" /\ tried' = tried
    BY <1>4 DEF Find, Exists
  <2>2. tried + 1 \in DOMAIN Documented /\ Documented[tried + 1] = p
    BY <1>1, SearchOrder DEF SInv
  <2>3. \A j \in 1 .. (tried + 1) - 1 : ~Stayed(Documented[j])
    BY SearchOrder DEF SInv
  <2>4. FirstOfOrder'
    BY <1>2, <1>3, <2>1, <2>2, <2>3 DEF FirstOfOrder
  <2> QED
    BY <1>2, <1>3, <2>1, <2>4 DEF SInv
<1>5. CASE files[p] = Absent
  <2>1. UNCHANGED <<path, step>> /\ tried' = tried + 1
    BY <1>5 DEF Find, Exists
  <2>2. ~Stayed(p)
    BY <1>5 DEF Stayed
  <2>3. tried' \in 0 .. Len(SearchPaths) /\ \A i \in 1 .. tried' : ~Stayed(SearchPaths[i])
    BY <1>1, <2>1, <2>2, SearchOrder DEF SInv
  <2>4. FirstOfOrder'
    BY <1>1, <2>1 DEF FirstOfOrder
  <2> QED
    BY <1>1, <1>2, <1>3, <2>1, <2>3, <2>4 DEF SInv
<1> QED
  BY <1>4, <1>5

\* Opening the file, and all that Routing does with what it holds.
LEMMA SInvConfig ==
    ASSUME SInv, RInv, OpenConfig \/ LoadedStep
    PROVE  SInv'
<1>1. step = "config" /\ UNCHANGED startVars
  BY DEF OpenConfig, LoadedStep
<1>2. /\ SearchPaths' = SearchPaths /\ Documented' = Documented
      /\ HelpAsked' = HelpAsked /\ NamesConfig' = NamesConfig
      /\ \A q : Stayed(q)' = Stayed(q)
  BY <1>1 DEF startVars, SearchPaths, FromEnv, Documented, HelpAsked, NamesConfig, Stayed
<1>3. FirstOfOrder'
  BY <1>1, <1>2 DEF startVars, SInv, FirstOfOrder
<1>4. /\ (phase = "unreadable" => files[path] \notin Configs)'
      /\ (phase \notin {"open", "unreadable"} => config = files[path])'
  <2>1. CASE OpenConfig
    BY <1>1, <2>1 DEF OpenConfig, Open, LoadFails, startVars
  <2>2. CASE LoadedStep
    <3>1. phase \notin {"open", "unreadable"} /\ phase' # "unreadable" /\ config' = config
      BY <2>2 DEF LoadedStep, LoadRejected, Load, Verify, Build, Route
    <3> QED
      BY <1>1, <3>1 DEF SInv, startVars
  <2> QED
    BY <2>1, <2>2
<1> QED
  BY <1>1, <1>2, <1>3, <1>4 DEF SInv, startVars

LEMMA SInvDeploy ==
    ASSUME SInv, NEW p \in DOMAIN files, NEW file \in Deployed, Deploy(p, file)
    PROVE  SInv'
<1>1. phase = "open" /\ UNCHANGED <<vars, args, env, step, tried, path>>
  BY DEF Deploy
<1>2. /\ SearchPaths' = SearchPaths /\ Documented' = Documented
      /\ HelpAsked' = HelpAsked /\ NamesConfig' = NamesConfig /\ AllTried' = AllTried
  BY <1>1 DEF SearchPaths, FromEnv, Documented, HelpAsked, NamesConfig, AllTried
<1>3. \A q : Stayed(q)' => Stayed(q)
  BY StayedOnlyShrinks
<1>4. FirstOfOrder'
  BY <1>1, <1>2, <1>3 DEF SInv, FirstOfOrder
<1> QED
  BY <1>1, <1>2, <1>3, <1>4 DEF SInv, vars

LEMMA SInvNext == SInv /\ RInv /\ [StartNext]_<<vars, startVars>> => SInv'
<1> SUFFICES ASSUME SInv, RInv, [StartNext]_<<vars, startVars>> PROVE SInv'
  OBVIOUS
<1>1. CASE Rest \/ UNCHANGED <<vars, startVars>>
  <2>1. UNCHANGED <<vars, args, env, files, steady, step, tried, path>>
    BY <1>1 DEF Rest, startVars
  <2>2. /\ SearchPaths' = SearchPaths /\ Documented' = Documented
        /\ HelpAsked' = HelpAsked /\ NamesConfig' = NamesConfig /\ AllTried' = AllTried
        /\ \A q : Stayed(q)' = Stayed(q)
    BY <2>1 DEF SearchPaths, FromEnv, Documented, HelpAsked, NamesConfig, AllTried, Stayed
  <2>3. FirstOfOrder'
    BY <2>1, <2>2 DEF SInv, FirstOfOrder
  <2> QED
    BY <2>1, <2>2, <2>3 DEF SInv, vars
<1> QED
  BY <1>1, SInvParse, SInvFind, SInvConfig, SInvDeploy DEF StartNext

-----------------------------------------------------------------------------
(* What follows. *)

\* What the search and the loading know holds throughout.
THEOREM StartInvariance == StartSpec => [](SInv /\ RInv)
<1>1. StartSpec => []RInv
  BY StartRefinement, RoutingInvariance, PTL
<1> QED
  BY <1>1, SInvInit, SInvNext, PTL DEF StartSpec

\* No file that stays is passed over for a later one (main.rs 61-83).
THEOREM FirstOfOrderCorrect == StartSpec => []FirstOfOrder
<1>1. SInv => FirstOfOrder
  BY DEF SInv
<1> QED
  BY <1>1, StartInvariance, PTL

\* The exit code tells why there is no server, and a server runs the sound
\* contents of the file chosen (main.rs 85-146).
THEOREM ExitTellsWhyCorrect == StartSpec => []ExitTellsWhy
<1>1. SInv /\ RInv => ExitTellsWhy
  <2> SUFFICES ASSUME SInv, RInv PROVE ExitTellsWhy
    OBVIOUS
  <2>1. VerdictOfFile
    BY InvariantVerdict
  <2>2. Succeeds => HelpAsked \/ (args = <<>> /\ \A i \in DOMAIN Documented : ~Stayed(Documented[i]))
    BY SearchOrder DEF SInv, Succeeds, AllTried
  <2> QED
    BY <2>1, <2>2 DEF SInv, ExitTellsWhy, VerdictOfFile, Fails
<1> QED
  BY <1>1, StartInvariance, PTL
=============================================================================
