---------------------------- MODULE AddressCache ----------------------------
(***************************************************************************)
(* UpstreamAddress: the DNS cache shared by every connection of one        *)
(* upstream. Its three fields sit behind three RwLocks, each taken for one *)
(* read or write, so callers interleave between any two of the steps of    *)
(* resolve(). An Instant is kept as its age, in steps of the clock; ages   *)
(* that no ttl can tell apart are one.                                     *)
(***************************************************************************)
EXTENDS Integers

CONSTANTS
    Callers,      \* the connection tasks that call resolve()
    V4, V6,       \* the addresses of the upstream's name, by family
    Zones,        \* what the resolver may answer, over time
    Mode,         \* the upstream's scheme: "tcp", "tcp4" or "tcp6"
    GoodTtl,      \* ttl after a successful lookup (1 minute)
    BadTtl,       \* ttl after a failed one (3 seconds)
    LookupsFail,  \* BOOLEAN: may a lookup fail
    None          \* Option::None

ASSUME TtlAssumption ==
    /\ GoodTtl \in Nat
    /\ BadTtl \in Nat
    /\ BadTtl <= GoodTtl
    /\ None \notin Int

ASSUME ZoneAssumption == Zones \subseteq SUBSET (V4 \cup V6)

VARIABLES
    zone,      \* what the resolver answers now
    addrs,     \* resolved_addresses
    rtime,     \* resolved_time
    ttl,       \* ttl
    pc,        \* where each caller is in resolve()
    t,         \* each caller's copy of resolved_time, or the Instant it will store
    got,       \* the addresses its lookup returned, filtered by the mode
    written,   \* history: when addrs was last stored
    failed     \* history: when a lookup last failed

vars == <<zone, addrs, rtime, ttl, pc, t, got, written, failed>>

\* ResolutionMode: the addresses the upstream's scheme lets through.
Family == CASE Mode = "tcp4" -> V4
            [] Mode = "tcp6" -> V6
            [] OTHER         -> V4 \cup V6

Unfiltered(answer) == answer                                        \* mutant
Filtered(answer) == answer \cap Family

\* No ttl is longer than GoodTtl, so an Instant that old is expired for good.
Ages == 0 .. GoodTtl
Instants == Ages \cup {None}
Older(x) == IF x # None /\ x < GoodTtl THEN x + 1 ELSE x

TypeOK ==
    /\ zone \in Zones
    /\ addrs \subseteq Family
    /\ rtime \in Instants
    /\ ttl \in {GoodTtl, BadTtl, None}
    /\ pc \in [Callers -> {"idle", "time", "ttl", "hit", "lookup", "store",
                           "okTime", "okTtl", "errTime", "errTtl"}]
    /\ t \in [Callers -> Instants]
    /\ got \in [Callers -> SUBSET Family]
    /\ written \in Instants
    /\ failed \in Instants

Init ==
    /\ zone \in Zones
    /\ addrs = {}
    /\ rtime = None
    /\ ttl = None
    /\ pc = [c \in Callers |-> "idle"]
    /\ t = [c \in Callers |-> None]
    /\ got = [c \in Callers |-> {}]
    /\ written = None
    /\ failed = None

Goto(c, label) == pc' = [pc EXCEPT ![c] = label]

\* resolve() returns, and its locals are gone.
Return(c) ==
    /\ Goto(c, "idle")
    /\ t' = [t EXCEPT ![c] = None]
    /\ got' = [got EXCEPT ![c] = {}]

-----------------------------------------------------------------------------
(* The clock and the resolver. *)

Tick ==
    /\ rtime' = Older(rtime)
    /\ t' = [c \in Callers |-> Older(t[c])]
    /\ written' = Older(written)
    /\ failed' = Older(failed)
    /\ UNCHANGED <<zone, addrs, ttl, pc, got>>

Rezone ==
    /\ zone' \in Zones \ {zone}
    /\ UNCHANGED <<addrs, rtime, ttl, pc, t, got, written, failed>>

-----------------------------------------------------------------------------
(* resolve(). *)

\* is_resolved().
CheckResolved(c) ==
    /\ pc[c] = "idle"
    /\ Goto(c, IF addrs = {} THEN "lookup" ELSE "time")
    /\ UNCHANGED <<zone, addrs, rtime, ttl, t, got, written, failed>>

\* is_valid(), first read.
CheckTime(c) ==
    /\ pc[c] = "time"
    /\ t' = [t EXCEPT ![c] = rtime]
    /\ Goto(c, IF rtime = None THEN "lookup" ELSE "ttl")
    /\ UNCHANGED <<zone, addrs, rtime, ttl, got, written, failed>>

\* is_valid(), second read: the ttl may belong to another resolved_time.
ValidOnceSet(c) == ttl # None                                       \* mutant
StillValid(c) == ttl # None /\ t[c] < ttl

CheckTtl(c) ==
    /\ pc[c] = "ttl"
    /\ Goto(c, IF StillValid(c) THEN "hit" ELSE "lookup")
    /\ UNCHANGED <<zone, addrs, rtime, ttl, t, got, written, failed>>

\* A hit that makes the entry fresh again.
Slide == rtime' = 0                                                 \* mutant
KeepTime == UNCHANGED rtime

\* Answered from the cache, with what it holds by now.
Hit(c) ==
    /\ pc[c] = "hit"
    /\ Return(c)
    /\ KeepTime
    /\ UNCHANGED <<zone, addrs, ttl, written, failed>>

LookupOk(c) ==
    /\ pc[c] = "lookup"
    /\ got' = [got EXCEPT ![c] = Filtered(zone)]
    /\ Goto(c, "store")
    /\ UNCHANGED <<zone, addrs, rtime, ttl, t, written, failed>>

\* Instant::now() is evaluated before the write lock is awaited.
LookupErr(c) ==
    /\ pc[c] = "lookup"
    /\ LookupsFail
    /\ t' = [t EXCEPT ![c] = 0]
    /\ failed' = 0
    /\ Goto(c, "errTime")
    /\ UNCHANGED <<zone, addrs, rtime, ttl, got, written>>

Merged(c) == addrs \cup got[c]                                      \* mutant
Stored(c) == got[c]

StoreAddrs(c) ==
    /\ pc[c] = "store"
    /\ addrs' = Stored(c)
    /\ t' = [t EXCEPT ![c] = 0]
    /\ written' = 0
    /\ Goto(c, "okTime")
    /\ UNCHANGED <<zone, rtime, ttl, got, failed>>

Deadline(c) == t[c] - GoodTtl                                       \* mutant
Stamp(c) == t[c]

StoreTime(c) ==
    /\ pc[c] \in {"okTime", "errTime"}
    /\ rtime' = Stamp(c)
    /\ Goto(c, IF pc[c] = "okTime" THEN "okTtl" ELSE "errTtl")
    /\ UNCHANGED <<zone, addrs, ttl, t, got, written, failed>>

StoreTtl(c) ==
    /\ pc[c] \in {"okTtl", "errTtl"}
    /\ ttl' = IF pc[c] = "okTtl" THEN GoodTtl ELSE BadTtl
    /\ Return(c)
    /\ UNCHANGED <<zone, addrs, rtime, written, failed>>

\* What a caller does by itself, once it has called resolve().
Continue(c) ==
    \/ CheckTime(c) \/ CheckTtl(c) \/ Hit(c)
    \/ StoreAddrs(c) \/ StoreTime(c) \/ StoreTtl(c)

Resolve(c) == CheckResolved(c) \/ LookupOk(c) \/ LookupErr(c) \/ Continue(c)

Next == Tick \/ Rezone \/ \E c \in Callers : Resolve(c)

\* The clock and the callers go on; nothing makes a connection arrive, or the
\* resolver answer.
Fairness ==
    /\ WF_vars(Tick)
    /\ \A c \in Callers : WF_vars(Continue(c))

SafetySpec == Init /\ [][Next]_vars
Spec == SafetySpec /\ Fairness

-----------------------------------------------------------------------------
(* Properties. *)

\* x is no later than the last stored answer or the last failed lookup.
NotAfterLast(x) == \E y \in {written, failed} : y # None /\ y <= x

\* resolved_time, and every Instant on its way there, was taken at a store of
\* the addresses or at a failed lookup, and none of them is in the future
\* (is_valid, 36-43; resolve, 77-118).
StampsKnown ==
    /\ rtime # None => NotAfterLast(rtime)
    /\ \A c \in Callers :
          pc[c] \in {"ttl", "okTime", "errTime"} => t[c] # None /\ NotAfterLast(t[c])

\* However the three locks interleave, an answer from the cache was stored, or
\* the last lookup failed, less than GoodTtl before the check (resolve, 63-70):
\* no mix of one caller's time with another's ttl keeps an entry alive longer.
ServedWithinTtl ==
    [][\A c \in Callers : pc[c] = "ttl" /\ pc'[c] = "hit" =>
          \E y \in {written, failed} : y # None /\ y < GoodTtl]_vars

\* The answers of lookups that the zone has overtaken, not yet stored.
Overtaken == {c \in Callers : pc[c] = "store" /\ got[c] # Filtered(zone)}

\* While the zone stands still no answer in flight falls behind it, and the cache
\* goes out of date only by storing one that did: each spends itself, so addresses
\* that were replaced come back at most once per lookup in flight (resolve, 72-84).
OvertakenOnlySpent ==
    [][zone' = zone =>
          /\ Overtaken' \subseteq Overtaken
          /\ addrs' # addrs /\ addrs' # Filtered(zone) =>
                \E c \in Overtaken \ Overtaken' : addrs' = got[c]]_vars

\* Lookups that are tried again and again succeed again and again.
ResolverAnswers == \A c \in Callers : SF_vars(LookupOk(c))

\* Once the name's addresses no longer change, in the end every answer from the
\* cache is the current one, in whatever order the lookups in flight are stored,
\* however often lookups fail and stamp old addresses, and whatever was stored
\* between the check and the read of the addresses (README.md 11: periodic
\* re-resolution; resolve, 62-121).
Reresolved ==
    ResolverAnswers =>
        \A z \in Zones :
            <>[](zone = z) => <>[](\A c \in Callers : pc[c] = "hit" => addrs = Filtered(z))

\* upstream_address/mod.rs 11: the addresses are a DNS cache with a TTL, so one
\* that was stored GoodTtl ago is not served. It holds while no lookup fails.
ServedFresh ==
    [][\A c \in Callers : pc[c] = "ttl" /\ pc'[c] = "hit" =>
          written # None /\ written < GoodTtl]_vars
=============================================================================
