-------------------------------- MODULE Pipe --------------------------------
(***************************************************************************)
(* What a tunnel promises to its two ends, without sockets, buffers or a   *)
(* handshake: once open, each direction is a queue of its own that ends    *)
(* with its source, and the pipe closes when both directions have ended.   *)
(***************************************************************************)
EXTENDS Naturals, Sequences

Directions == {"tx", "rx"}
Other(d) == IF d = "tx" THEN "rx" ELSE "tx"

VARIABLES
    stage,       \* "opening", "open", "closed"
    sent,        \* chunks the source of each direction has sent
    source,      \* what that end has done: "open", "eof", "reset"
    delivered,   \* the chunks of each direction that came out at the other end
    ended        \* the directions whose end was passed on

vars == <<stage, sent, source, delivered, ended>>

Init ==
    /\ stage = "opening"
    /\ sent = [d \in Directions |-> 0]
    /\ source = [d \in Directions |-> "open"]
    /\ delivered = [d \in Directions |-> <<>>]
    /\ ended = {}

Send(d) ==
    /\ source[d] = "open"
    /\ sent' = [sent EXCEPT ![d] = @ + 1]
    /\ UNCHANGED <<stage, source, delivered, ended>>

Finish(d) ==
    /\ \/ source[d] = "open" /\ source' = [source EXCEPT ![d] = "eof"]
       \/ source[d] # "reset" /\ source' = [source EXCEPT ![d] = "reset"]
    /\ UNCHANGED <<stage, sent, delivered, ended>>

Open ==
    /\ stage = "opening"
    /\ stage' = "open"
    /\ UNCHANGED <<sent, source, delivered, ended>>

Fail ==
    /\ stage = "opening"
    /\ stage' = "closed"
    /\ UNCHANGED <<sent, source, delivered, ended>>

\* The next chunk, and no other.
Deliver(d) ==
    /\ stage = "open"
    /\ d \notin ended
    /\ source[Other(d)] # "reset"
    /\ Len(delivered[d]) < sent[d]
    /\ delivered' = [delivered EXCEPT ![d] = Append(@, Len(@) + 1)]
    /\ UNCHANGED <<stage, sent, source, ended>>

\* The end of a source follows all it sent, unless an end is reset.
PassEnd(d) ==
    /\ stage = "open"
    /\ d \notin ended
    /\ \/ source[d] = "eof" /\ Len(delivered[d]) = sent[d]
       \/ \E e \in Directions : source[e] = "reset"
    /\ ended' = ended \cup {d}
    /\ UNCHANGED <<stage, sent, source, delivered>>

Close ==
    /\ stage = "open"
    /\ ended = Directions
    /\ stage' = "closed"
    /\ UNCHANGED <<sent, source, delivered, ended>>

Next ==
    \/ \E d \in Directions : Send(d) \/ Finish(d) \/ Deliver(d) \/ PassEnd(d)
    \/ Open
    \/ Fail
    \/ Close

SafetySpec == Init /\ [][Next]_vars
=============================================================================
