--------------------------- MODULE DrainingService ---------------------------
(***************************************************************************)
(* What the proxy promises about its clients, without tasks, permits or a  *)
(* tracker: sessions are admitted at open doors within the door's limit,   *)
(* a drain request is never withdrawn, and the service goes down only      *)
(* when every door is closed and every session has ended.                  *)
(***************************************************************************)
EXTENDS Naturals, FiniteSets

CONSTANTS
    Doors,       \* where clients come in
    Sessions,    \* client sessions (slots, reused)
    Door,        \* [Sessions -> Doors]
    Limited,     \* the doors that have a limit
    Limit        \* [Doors -> Nat], read only on Limited

VARIABLES
    phase,       \* "up" | "draining" | "down" | "killed"
    open,        \* the doors that may still admit
    active       \* the sessions in progress

vars == <<phase, open, active>>

ActiveAt(d) == {s \in active : Door[s] = d}
Running == phase \in {"up", "draining"}

TypeOK ==
    /\ phase \in {"up", "draining", "down", "killed"}
    /\ open \subseteq Doors
    /\ active \subseteq Sessions

Init ==
    /\ phase = "up"
    /\ open = Doors
    /\ active = {}

\* A door admits during the drain too, until it closes.
Admit(s) ==
    /\ Running
    /\ s \notin active
    /\ Door[s] \in open
    /\ Door[s] \in Limited => Cardinality(ActiveAt(Door[s])) < Limit[Door[s]]
    /\ active' = active \cup {s}
    /\ UNCHANGED <<phase, open>>

End(s) ==
    /\ Running
    /\ s \in active
    /\ active' = active \ {s}
    /\ UNCHANGED <<phase, open>>

Close(d) ==
    /\ Running
    /\ d \in open
    /\ open' = open \ {d}
    /\ UNCHANGED <<phase, active>>

Drain ==
    /\ phase = "up"
    /\ phase' = "draining"
    /\ UNCHANGED <<open, active>>

Stop ==
    /\ phase = "draining"
    /\ open = {}
    /\ active = {}
    /\ phase' = "down"
    /\ UNCHANGED <<open, active>>

Kill ==
    /\ Running
    /\ phase' = "killed"
    /\ UNCHANGED <<open, active>>

Next ==
    \/ \E s \in Sessions : Admit(s) \/ End(s)
    \/ \E d \in Doors : Close(d)
    \/ Drain
    \/ Stop
    \/ Kill

Fairness ==
    /\ \A s \in Sessions : WF_vars(End(s))
    /\ \A d \in Doors : WF_vars(phase = "draining" /\ Close(d))
    /\ WF_vars(Stop)

SafetySpec == Init /\ [][Next]_vars
Spec == SafetySpec /\ Fairness
=============================================================================
