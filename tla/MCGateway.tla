------------------------------ MODULE MCGateway ------------------------------
(***************************************************************************)
(* An instance of Gateway for TLC: two clients for the one permit of a TLS  *)
(* relay, whose SNI map leads to every kind of upstream, through a CONNECT *)
(* proxy or straight.                                                      *)
(***************************************************************************)
EXTENDS MCServer, Gateway

RelayAlone == {relay}
RelayConns == {r1, r2}
RelaySite == [c \in RelayConns |-> relay]
RelayServer == [l \in RelayAlone |-> "front"]
RelayClients == [l \in RelayAlone |-> 1]
RelayDefault == [l \in RelayAlone |-> "proxy"]
RelayRoutes == [l \in RelayAlone |-> Kinds]
EitherVia == [l \in RelayAlone |-> BOOLEAN]
=============================================================================
