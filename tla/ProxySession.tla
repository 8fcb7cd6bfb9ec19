----------------------------- MODULE ProxySession -----------------------------
(***************************************************************************)
(* What process() of a proxy upstream is to the task that awaits it: a     *)
(* session that resolves, connects, may have to be answered, and relays    *)
(* until an end is gone. A session that ends, from whichever step, leaves  *)
(* no upstream socket behind. It has no clock, no bytes and no buffers.    *)
(***************************************************************************)

CONSTANT Sessions    \* the connections whose upstream is a proxy

VARIABLES
    step,      \* "none", "resolve", "connect", "answer", "relay"
    gone,      \* the sessions whose client has finished or left
    remote     \* the upstream: "none", "silent", "agreed", or gone before it
               \* agreed ("gone") or after ("left")

vars == <<step, gone, remote>>

\* A session may be under way already.
Init ==
    /\ step \in [Sessions -> {"none", "resolve"}]
    /\ gone = {}
    /\ remote = [s \in Sessions |-> "none"]

\* The client may have left before its connection was routed.
Start(s) ==
    /\ step[s] = "none"
    /\ step' = [step EXCEPT ![s] = "resolve"]
    /\ gone' \in {gone, gone \cup {s}}
    /\ UNCHANGED remote

ClientLeaves(s) ==
    /\ step[s] # "none"
    /\ gone' = gone \cup {s}
    /\ UNCHANGED <<step, remote>>

RemoteAgrees(s) ==
    /\ step[s] = "answer" /\ remote[s] = "silent"
    /\ remote' = [remote EXCEPT ![s] = "agreed"]
    /\ UNCHANGED <<step, gone>>

RemoteLeaves(s) ==
    /\ \/ remote[s] = "silent" /\ remote' = [remote EXCEPT ![s] = "gone"]
       \/ remote[s] = "agreed" /\ remote' = [remote EXCEPT ![s] = "left"]
    /\ UNCHANGED <<step, gone>>

RemoteGone(s) == remote[s] \in {"gone", "left"}

Resolve(s) ==
    /\ step[s] = "resolve"
    /\ step' = [step EXCEPT ![s] = "connect"]
    /\ UNCHANGED <<gone, remote>>

\* Straight to the relay, or by way of a CONNECT.
Connect(s) ==
    /\ step[s] = "connect"
    /\ \E next \in {"answer", "relay"} : step' = [step EXCEPT ![s] = next]
    /\ remote' = [remote EXCEPT ![s] = "silent"]
    /\ UNCHANGED gone

\* The upstream's consent is read, even if it left right after it.
Agree(s) ==
    /\ step[s] = "answer" /\ remote[s] \in {"agreed", "left"}
    /\ step' = [step EXCEPT ![s] = "relay"]
    /\ UNCHANGED <<gone, remote>>

\* Before its relay a session can fail at any time; the relay takes an end that
\* is gone.
End(s) ==
    /\ \/ step[s] \in {"resolve", "connect", "answer"}
       \/ step[s] = "relay" /\ (s \in gone \/ RemoteGone(s))
    /\ step' = [step EXCEPT ![s] = "none"]
    /\ remote' = [remote EXCEPT ![s] = "none"]
    /\ gone' = gone \ {s}

Next ==
    \E s \in Sessions :
        \/ ClientLeaves(s) \/ RemoteAgrees(s) \/ RemoteLeaves(s)
        \/ Start(s) \/ Resolve(s) \/ Connect(s) \/ Agree(s) \/ End(s)

\* A connect has a timer, an answer that has come is read, and a relay ends once
\* both of its ends are gone.
Fairness ==
    \A s \in Sessions :
        /\ WF_vars(Connect(s) \/ (step[s] = "connect" /\ End(s)))
        /\ WF_vars(Agree(s) \/ (step[s] = "answer" /\ remote[s] # "silent" /\ End(s)))
        /\ WF_vars(step[s] = "relay" /\ s \in gone /\ RemoteGone(s) /\ End(s))

SafetySpec == Init /\ [][Next]_vars
=============================================================================
