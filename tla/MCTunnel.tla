------------------------------ MODULE MCTunnel ------------------------------
(***************************************************************************)
(* Instances of Tunnel for TLC: two chunks each way are enough for a gap,  *)
(* a swap, and a chunk that comes with the end of the response header.     *)
(***************************************************************************)
EXTENDS Tunnel

TwoEach == [d \in Directions |-> 2]

\* Every use but a destination that speaks first behind CONNECT.
QuietUses == {[via |-> "connect", serverFirst |-> FALSE],
              [via |-> "direct",  serverFirst |-> FALSE],
              [via |-> "direct",  serverFirst |-> TRUE]}

ServerFirstUse == {[via |-> "connect", serverFirst |-> TRUE]}
=============================================================================
