------------------------- MODULE AddressCacheProofs -------------------------
(***************************************************************************)
(* Proofs about AddressCache, for every number of callers, every ttl with  *)
(* BadTtl <= GoodTtl, every course of the zone, and every interleaving of  *)
(* the three locks.                                                        *)
(***************************************************************************)
EXTENDS AddressCache, TLAPS

\* What a cache hit relies on: types and known stamps.
CacheInv == TypeOK /\ StampsKnown

\* Ages keep their order while they grow, and stay what the ttls can tell apart.
LEMMA OlderKeepsOrder ==
    ASSUME NEW x \in Instants, NEW y \in Instants
    PROVE  /\ Older(x) \in Instants
           /\ Older(x) = None <=> x = None
           /\ x # None /\ y # None /\ y <= x => Older(y) <= Older(x)
BY TtlAssumption DEF Instants, Ages, Older

\* A stamp that is known stays known as the clock goes on.
LEMMA KnownGrowsOlder ==
    ASSUME written \in Instants, failed \in Instants, Tick,
           NEW x \in Instants, x # None, NotAfterLast(x)
    PROVE  \E y \in {written', failed'} : y # None /\ y <= Older(x)
<1>1. PICK y \in {written, failed} : y # None /\ y <= x BY DEF NotAfterLast
<1>2. Older(y) \in {written', failed'} BY <1>1 DEF Tick
<1>3. Older(y) # None /\ Older(y) <= Older(x) BY <1>1, OlderKeepsOrder
<1>. QED BY <1>2, <1>3

\* A new store or failed lookup leaves every known stamp known.
LEMMA KnownStaysKnown ==
    ASSUME written' \in {written, 0}, failed' \in {failed, 0},
           NEW x \in Ages, NotAfterLast(x)
    PROVE  \E y \in {written', failed'} : y # None /\ y <= x
<1>1. PICK y \in {written, failed} : y # None /\ y <= x BY DEF NotAfterLast
<1>2. y \in {written', failed'} \/ 0 \in {written', failed'} BY <1>1
<1>3. 0 # None /\ 0 <= x BY TtlAssumption DEF Ages
<1>. QED BY <1>1, <1>2, <1>3

\* The clock keeps CacheInv.
LEMMA TickInv == CacheInv /\ Tick => CacheInv'
<1>. SUFFICES ASSUME CacheInv, Tick PROVE CacheInv' OBVIOUS
<1>. USE DEF CacheInv
<1>1. TypeOK'
  <2>1. /\ Older(rtime) \in Instants /\ Older(written) \in Instants /\ Older(failed) \in Instants
        /\ \A c \in Callers : Older(t[c]) \in Instants
    BY OlderKeepsOrder DEF TypeOK
  <2>. QED BY <2>1 DEF Tick, TypeOK
<1>2. rtime' # None => NotAfterLast(rtime)'
  <2>. SUFFICES ASSUME rtime' # None PROVE NotAfterLast(rtime)' OBVIOUS
  <2>1. rtime \in Instants /\ rtime # None /\ rtime' = Older(rtime)
    BY DEF TypeOK, Tick, Older
  <2>. QED BY <2>1, KnownGrowsOlder DEF TypeOK, StampsKnown, NotAfterLast
<1>3. ASSUME NEW c \in Callers, pc'[c] \in {"ttl", "okTime", "errTime"}
      PROVE  t'[c] # None /\ NotAfterLast(t[c])'
  <2>1. t[c] \in Instants /\ t[c] # None /\ NotAfterLast(t[c]) /\ t'[c] = Older(t[c])
    BY <1>3 DEF TypeOK, Tick, StampsKnown
  <2>. QED BY <2>1, KnownGrowsOlder, OlderKeepsOrder DEF TypeOK, NotAfterLast
<1>. QED BY <1>1, <1>2, <1>3 DEF StampsKnown

\* Every step of resolve() keeps CacheInv.
LEMMA ResolveInv ==
    ASSUME CacheInv, NEW c \in Callers, Resolve(c)
    PROVE  CacheInv'
<1>. USE TtlAssumption DEF CacheInv, Instants, Ages, Goto
<1>1. CASE CheckResolved(c) \/ CheckTtl(c)
  BY <1>1 DEF CheckResolved, CheckTtl, TypeOK, StampsKnown, NotAfterLast
<1>2. CASE Hit(c) \/ StoreTtl(c)
  <2>1. TypeOK' BY <1>2 DEF Hit, KeepTime, StoreTtl, Return, TypeOK
  <2>2. StampsKnown'
    BY <1>2 DEF Hit, KeepTime, StoreTtl, Return, TypeOK, StampsKnown, NotAfterLast
  <2>. QED BY <2>1, <2>2
<1>3. CASE CheckTime(c)
  <2>1. TypeOK' BY <1>3 DEF CheckTime, TypeOK
  <2>2. StampsKnown' BY <1>3 DEF CheckTime, TypeOK, StampsKnown, NotAfterLast
  <2>. QED BY <2>1, <2>2
<1>4. CASE LookupOk(c)
  <2>1. TypeOK' BY <1>4 DEF LookupOk, TypeOK, Filtered
  <2>2. StampsKnown' BY <1>4 DEF LookupOk, TypeOK, StampsKnown, NotAfterLast
  <2>. QED BY <2>1, <2>2
<1>5. CASE LookupErr(c) \/ StoreAddrs(c)
  <2>1. /\ pc' \in {[pc EXCEPT ![c] = "errTime"], [pc EXCEPT ![c] = "okTime"]}
        /\ t' = [t EXCEPT ![c] = 0] /\ UNCHANGED rtime
        /\ written' \in {written, 0} /\ failed' \in {failed, 0}
        /\ 0 \in {written', failed'}
    BY <1>5 DEF LookupErr, StoreAddrs
  <2>2. TypeOK' BY <1>5 DEF LookupErr, StoreAddrs, Stored, TypeOK
  <2>3. rtime' # None => NotAfterLast(rtime)'
    BY <2>1, KnownStaysKnown DEF TypeOK, StampsKnown, NotAfterLast
  <2>4. ASSUME NEW d \in Callers, pc'[d] \in {"ttl", "okTime", "errTime"}
        PROVE  t'[d] # None /\ NotAfterLast(t[d])'
    <3>1. CASE d = c
      <4>1. t'[d] = 0 /\ 0 # None BY <2>1, <3>1 DEF TypeOK
      <4>. QED BY <2>1, <4>1 DEF NotAfterLast
    <3>2. CASE d # c
      <4>1. t'[d] = t[d] /\ t[d] # None /\ NotAfterLast(t[d]) /\ t[d] \in Ages
        BY <2>1, <2>4, <3>2 DEF TypeOK, StampsKnown
      <4>. QED BY <2>1, <4>1, KnownStaysKnown DEF NotAfterLast
    <3>. QED BY <3>1, <3>2
  <2>. QED BY <2>2, <2>3, <2>4 DEF StampsKnown
<1>6. CASE StoreTime(c)
  <2>1. TypeOK' BY <1>6 DEF StoreTime, Stamp, TypeOK
  <2>2. StampsKnown' BY <1>6 DEF StoreTime, Stamp, TypeOK, StampsKnown, NotAfterLast
  <2>. QED BY <2>1, <2>2
<1>. QED BY <1>1, <1>2, <1>3, <1>4, <1>5, <1>6 DEF Resolve, Continue

LEMMA StepInv == CacheInv /\ [Next]_vars => CacheInv'
<1>. SUFFICES ASSUME CacheInv, [Next]_vars PROVE CacheInv' OBVIOUS
<1>1. CASE Rezone \/ UNCHANGED vars
  BY <1>1 DEF Rezone, vars, CacheInv, TypeOK, StampsKnown, NotAfterLast
<1>. QED BY <1>1, TickInv, ResolveInv DEF Next

\* The invariant of the cache holds in every reachable state.
THEOREM CacheInvariance == SafetySpec => []CacheInv
<1>1. Init => CacheInv
  BY TtlAssumption DEF Init, CacheInv, TypeOK, StampsKnown, Instants
<1>. QED BY <1>1, StepInv, PTL DEF SafetySpec

\* Every variable keeps its type; the cache only ever holds addresses of the
\* family its scheme names (ResolutionMode).
THEOREM CacheTypeCorrect == SafetySpec => []TypeOK
BY CacheInvariance, PTL DEF CacheInv

\* No interleaving of callers leaves a stamp that no store and no failed lookup
\* accounts for (resolve, 77-118).
THEOREM StampsKnownCorrect == SafetySpec => []StampsKnown
BY CacheInvariance, PTL DEF CacheInv

\* A caller that sees a valid entry saw one that a store or a failed lookup less
\* than GoodTtl ago accounts for.
LEMMA HitIsRecent ==
    ASSUME CacheInv, NEW c \in Callers, pc[c] = "ttl", StillValid(c)
    PROVE  \E y \in {written, failed} : y # None /\ y < GoodTtl
<1>1. t[c] # None /\ t[c] \in Nat /\ NotAfterLast(t[c])
  BY DEF CacheInv, StampsKnown, TypeOK, Instants, Ages
<1>2. t[c] < GoodTtl
  BY <1>1, TtlAssumption DEF StillValid, CacheInv, TypeOK
<1>3. PICK y \in {written, failed} : y # None /\ y <= t[c] BY <1>1 DEF NotAfterLast
<1>4. y \in Nat BY <1>3 DEF CacheInv, TypeOK, Instants, Ages
<1>. QED BY <1>1, <1>2, <1>3, <1>4, TtlAssumption

\* A caller leaves "ttl" for "hit" only through a check that found the entry valid.
LEMMA HitMeansValid ==
    ASSUME CacheInv, [Next]_vars, NEW c \in Callers, pc[c] = "ttl", pc'[c] = "hit"
    PROVE  StillValid(c)
<1>1. PICK d \in Callers : Resolve(d)
  BY DEF Next, Tick, Rezone, vars
<1>. QED
  BY <1>1 DEF CacheInv, TypeOK, Resolve, Continue, CheckResolved, CheckTime, CheckTtl,
       Hit, LookupOk, LookupErr, StoreAddrs, StoreTime, StoreTtl, Goto, Return

\* No interleaving of callers makes the cache serve an entry that neither a
\* store nor a failed lookup of the last GoodTtl accounts for.
THEOREM ServedWithinTtlCorrect == SafetySpec => ServedWithinTtl
<1>. DEFINE Served(c) == pc[c] = "ttl" /\ pc'[c] = "hit"
            Recent == \E y \in {written, failed} : y # None /\ y < GoodTtl
<1>1. CacheInv /\ [Next]_vars => [\A c \in Callers : Served(c) => Recent]_vars
  <2>. SUFFICES ASSUME CacheInv, [Next]_vars, NEW c \in Callers, Served(c) PROVE Recent
    BY Zenon
  <2>. QED BY HitMeansValid, HitIsRecent
<1>. QED BY <1>1, CacheInvariance, PTL DEF SafetySpec, ServedWithinTtl

\* While no lookup fails, the cache is what its comment says: no address is
\* served GoodTtl or more after it was stored.
THEOREM FreshWithoutFailures == ~LookupsFail => (SafetySpec => ServedFresh)
<1>. SUFFICES ASSUME ~LookupsFail PROVE SafetySpec => ServedFresh OBVIOUS
<1>. DEFINE Served(c) == pc[c] = "ttl" /\ pc'[c] = "hit"
            Fresh == written # None /\ written < GoodTtl
            NoFailure == failed = None
<1>1. Init => NoFailure BY DEF Init
<1>2. NoFailure /\ [Next]_vars => NoFailure'
  BY DEF Next, Resolve, Continue, Tick, Older, Rezone, vars, CheckResolved, CheckTime,
         CheckTtl, Hit, LookupOk, LookupErr, StoreAddrs, StoreTime, StoreTtl
<1>3. CacheInv /\ NoFailure /\ [Next]_vars => [\A c \in Callers : Served(c) => Fresh]_vars
  <2>. SUFFICES ASSUME CacheInv, NoFailure, [Next]_vars, NEW c \in Callers, Served(c)
                PROVE  Fresh
    BY Zenon
  <2>. QED BY HitMeansValid, HitIsRecent
<1>. QED BY <1>1, <1>2, <1>3, CacheInvariance, PTL DEF SafetySpec, ServedFresh

\* A step of one caller spends at most that caller's own answer.
LEMMA OvertakenStep ==
    ASSUME CacheInv, NEW c \in Callers, Resolve(c)
    PROVE  /\ zone' = zone
           /\ Overtaken' \subseteq Overtaken
           /\ addrs' # addrs => pc[c] = "store" /\ addrs' = got[c] /\ c \notin Overtaken'
<1>. USE DEF CacheInv, TypeOK, Overtaken, Goto
<1>1. CASE LookupOk(c)
  BY <1>1 DEF LookupOk, Filtered
<1>2. CASE StoreAddrs(c)
  BY <1>2 DEF StoreAddrs, Stored, Filtered
<1>3. CASE Hit(c) \/ StoreTtl(c)
  BY <1>3 DEF Hit, StoreTtl, Return, Filtered
<1>4. CASE CheckResolved(c) \/ CheckTime(c) \/ CheckTtl(c) \/ LookupErr(c) \/ StoreTime(c)
  BY <1>4 DEF CheckResolved, CheckTime, CheckTtl, LookupErr, StoreTime, Filtered
<1>. QED BY <1>1, <1>2, <1>3, <1>4 DEF Resolve, Continue

\* Each answer that the zone has overtaken can put the cache out of date once, and
\* nothing else can: the step on which the convergence of the cache rests.
THEOREM OvertakenOnlySpentCorrect == SafetySpec => OvertakenOnlySpent
<1>. DEFINE Spends == \E c \in Overtaken \ Overtaken' : addrs' = got[c]
            Drains == zone' = zone =>
                         /\ Overtaken' \subseteq Overtaken
                         /\ addrs' # addrs /\ addrs' # Filtered(zone) => Spends
<1>1. CacheInv /\ [Next]_vars => [Drains]_vars
  <2>. SUFFICES ASSUME CacheInv, Next, zone' = zone PROVE Drains
    BY DEF Overtaken, Filtered, vars
  <2>1. CASE Tick \/ Rezone
    BY <2>1 DEF Tick, Rezone, Overtaken, Filtered
  <2>2. ASSUME NEW c \in Callers, Resolve(c) PROVE Drains
    <3>1. /\ Overtaken' \subseteq Overtaken
          /\ addrs' # addrs => pc[c] = "store" /\ addrs' = got[c] /\ c \notin Overtaken'
      BY <2>2, OvertakenStep
    <3>2. ASSUME addrs' # addrs, addrs' # Filtered(zone) PROVE Spends
      <4>1. c \in Overtaken \ Overtaken' /\ addrs' = got[c]
        BY <3>1, <3>2 DEF Overtaken
      <4>. QED BY <4>1
    <3>. QED BY <3>1, <3>2
  <2>. QED BY <2>1, <2>2 DEF Next
<1>. QED BY <1>1, CacheInvariance, PTL DEF SafetySpec, OvertakenOnlySpent
=============================================================================
