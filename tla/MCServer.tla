------------------------------ MODULE MCServer ------------------------------
(***************************************************************************)
(* Instances of Server for TLC. Each gives the listeners, the connection   *)
(* slots that dial them, and the settings Server::from copied from the     *)
(* `servers:` entry; the .cfg files choose one.                            *)
(***************************************************************************)
EXTENDS Server, TLC

CONSTANTS
    relay, twin, check,    \* listeners: a relay, its second address, a health server
    r1, r2, r3, t1, h1     \* connection slots

\* Three clients for a TLS relay with two permits whose SNI map leads to every
\* kind of upstream, next to a health server.
BothListeners == {relay, check}
RelayAndCheckConns == {r1, r2, r3, h1}
BothSites == [c \in RelayAndCheckConns |-> IF c = h1 THEN check ELSE relay]
BothServers == [l \in BothListeners |-> IF l = check THEN "ops" ELSE "front"]
TwoClients == [l \in BothListeners |-> 2]
BothDefaults == [l \in BothListeners |-> IF l = check THEN "health" ELSE "proxy"]
BothRoutes == [l \in BothListeners |->
                  IF l = check THEN {"health"} ELSE {"proxy", "ban", "health"}]
RelaySymmetry == Permutations({r1, r2, r3})

\* The same with two clients for one permit.
FewConns == {r1, r2, h1}
FewSites == [c \in FewConns |-> BothSites[c]]
OneClient == [l \in BothListeners |-> 1]

\* One server that listens on two addresses.
TwinListeners == {relay, twin}
TwinConns == {r1, t1}
TwinSites == [c \in TwinConns |-> IF c = t1 THEN twin ELSE relay]
OneServer == [l \in TwinListeners |-> "front"]
OneClientEach == [l \in TwinListeners |-> 1]
TwinDefaults == [l \in TwinListeners |-> "proxy"]
TwinRoutes == [l \in TwinListeners |-> {"proxy"}]
=============================================================================
