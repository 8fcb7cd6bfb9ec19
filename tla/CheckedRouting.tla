--------------------------- MODULE CheckedRouting ---------------------------
(***************************************************************************)
(* What starting with a config file and routing by it promise, without an  *)
(* order of checks, sets that grow, or a ClientHello seen in part: the     *)
(* file is sound or not, only a sound one is served, and then by its own   *)
(* table of routes.                                                        *)
(***************************************************************************)

VARIABLES
    stage,   \* "unread", "read", "serving", "refused"
    sound,   \* whether the file that was read is sound
    table,   \* the routes that the file allows
    last     \* the routes of the last connections

vars == <<stage, sound, table, last>>

Init ==
    /\ stage = "unread"
    /\ sound = FALSE
    /\ table = {}
    /\ last = {}

\* The table is whatever the file says.
Read ==
    /\ stage = "unread"
    /\ stage' = "read"
    /\ sound' \in BOOLEAN
    /\ UNCHANGED last

CannotRead ==
    /\ stage = "unread"
    /\ stage' = "refused"
    /\ UNCHANGED <<sound, table, last>>

Refuse ==
    /\ stage = "read" /\ ~sound
    /\ stage' = "refused"
    /\ UNCHANGED <<sound, table, last>>

Serve ==
    /\ stage = "read" /\ sound
    /\ stage' = "serving"
    /\ UNCHANGED <<sound, table, last>>

Forward ==
    /\ stage = "serving"
    /\ last' \subseteq table
    /\ UNCHANGED <<stage, sound, table>>

Next == Read \/ CannotRead \/ Refuse \/ Serve \/ Forward

SafetySpec == Init /\ [][Next]_vars
=============================================================================
