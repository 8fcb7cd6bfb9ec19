----------------------------- MODULE MCStartup -----------------------------
(***************************************************************************)
(* An instance of Startup for TLC: every config of MCRouting named on the  *)
(* command line, and for one good config every command line and every      *)
(* place of the search.                                                    *)
(***************************************************************************)
EXTENDS MCRouting, Startup

Places == {"env", "/etc/tpt/tpt.yaml", "/etc/tpt/config.yaml", "tpt.yaml", "config.yaml"}

Good ==
    [version |-> 2, format |-> "json", urls |-> "p" :> "tcp" @@ "q" :> "tcp6",
     servers |-> "s1" :> [listen |-> <<a>>, tls |-> TRUE, sni |-> To(h1, "p", None),
                          default |-> None, via |-> UseSni]]

Named ==
    {[args |-> <<"-c", "named", "extra">>, env |-> None, files |-> "named" :> c] : c \in MCConfigs}

Searched ==
    {[args |-> <<>>, env |-> e, files |-> f] :
        e \in {None, "env"}, f \in [Places -> {Absent, Good}]}

Asked ==
    {[args |-> command, env |-> None, files |-> [p \in Places \cup {"-h"} |-> Good]] :
        command \in {<<"--help">>, <<"--config", "-h">>, <<"--config">>, <<"--unknown">>,
                     <<"--config", "tpt.yaml">>}}

MCStarts == Named \cup Searched \cup Asked
MCDeployed == {Absent, NotYaml, Good}
MCAllConfigs == MCConfigs \cup {Good}
=============================================================================
