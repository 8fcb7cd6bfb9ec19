--------------------------- MODULE RoutingProofs ---------------------------
(***************************************************************************)
(* For every set of configuration files and every ClientHello: what        *)
(* verify_config accepts is sound, and what accept() routes it resolves.   *)
(***************************************************************************)
EXTENDS Routing, TLAPS

Listen(s) == config.servers[s].listen
Visited == Servers \ left

\* What the loop of verify_config knows of the servers it has visited.
VisitedDistinct ==
    \A s1, s2 \in Visited :
        \A i \in DOMAIN Listen(s1), j \in DOMAIN Listen(s2) :
            Listen(s1)[i] = Listen(s2)[j] => s1 = s2 /\ i = j

SeenVisited ==
    \A text \in DOMAIN Addr :
        text \in seen <=> \E s \in Visited : \E i \in DOMAIN Listen(s) : Listen(s)[i] = text

VisitedDefined == \A s \in Visited : UsedBy(config.servers[s]) \subseteq used

\* A listener is one its server's block asks for.
Built == \A p \in proxies : \E s \in Servers : p \in ProxiesOf(s)

RInv ==
    /\ phase \in {"open", "unreadable"} \/ config \in Configs
    /\ TypeOK
    /\ phase \in {"open", "load"} => upstream = {} /\ left = {} /\ seen = {} /\ used = {}
    /\ phase \in {"verify", "serve"} =>
          /\ HeaderOk
          /\ upstream = Builtins \cup Urls
          /\ VisitedDistinct /\ SeenVisited /\ VisitedDefined
    /\ phase = "serve" => left = {}
    /\ phase # "serve" => proxies = {} /\ routed = None
    /\ phase = "rejected" => ~Sound
    /\ Built
    /\ NeverFallsBack
    /\ NoForeignRoute

-----------------------------------------------------------------------------
(* Lemmas. *)

\* A listen list as the code walks it: its indices, and its texts as a set
\* (loader.rs 162-170).
LEMMA ListenFacts ==
    ASSUME config \in Configs, NEW s \in Servers
    PROVE  /\ Listen(s) \in Seq(DOMAIN Addr)
           /\ DOMAIN Listen(s) = 1 .. Len(Listen(s))
           /\ \A text : text \in Range(Listen(s)) <=>
                 \E i \in DOMAIN Listen(s) : Listen(s)[i] = text
<1>1. Listen(s) \in Seq(DOMAIN Addr)
  BY ConfigAssumption DEF Servers, Listen
<1>2. DOMAIN Listen(s) = 1 .. Len(Listen(s))
  BY <1>1
<1> QED
  BY <1>1, <1>2 DEF Range

\* A name that peek() saw whole is a name of the ClientHello (tls.rs 7-54).
LEMMA PeekedNames ==
    ASSUME NEW hello \in Hellos, NEW names \in Peeks(hello), NEW i \in DOMAIN names,
           names[i] # Garbled
    PROVE  i \in DOMAIN hello /\ names[i] = hello[i]
<1> DEFINE Names == UNION {Range(h) : h \in Hellos}
<1>1. hello \in Seq(Names)
  BY ConfigAssumption
<1> HIDE DEF Names
<1>2. CASE names = hello
  BY <1>2
<1>3. ASSUME NEW k \in 0 .. Len(hello) - 1
      PROVE  /\ SubSeq(hello, 1, k) \in Seq(Names)
             /\ Len(SubSeq(hello, 1, k)) = k
             /\ \A j \in 1 .. k : SubSeq(hello, 1, k)[j] = hello[j]
  BY <1>1
<1>4. ASSUME NEW k \in 0 .. Len(hello) - 1, names = SubSeq(hello, 1, k)
      PROVE  i \in DOMAIN hello /\ names[i] = hello[i]
  BY <1>1, <1>3, <1>4
<1>5. ASSUME NEW k \in 0 .. Len(hello) - 1, names = Append(SubSeq(hello, 1, k), Garbled)
      PROVE  i \in DOMAIN hello /\ names[i] = hello[i]
  <2>1. DOMAIN names = 1 .. k + 1
    BY <1>3, <1>5
  <2>2. names[k + 1] = Garbled
    BY <1>3, <1>5
  <2>3. i \in 1 .. k
    BY <2>1, <2>2
  <2>4. names[i] = SubSeq(hello, 1, k)[i]
    BY <1>3, <1>5, <2>3
  <2> QED
    BY <1>1, <1>3, <2>3, <2>4
<1> QED
  BY <1>2, <1>4, <1>5 DEF Peeks

\* A route is the listener's default or that of a name in the SNI map (tcp.rs
\* 113-131).
LEMMA RouteCases ==
    ASSUME NEW p, NEW names
    PROVE  \/ RouteName(p, names) = p.default
           \/ \E i \in DOMAIN names : /\ names[i] \in DOMAIN p.sni
                                      /\ RouteName(p, names) = p.sni[names[i]].upstream
<1>1. CASE ~Matched(p, names)
  BY <1>1 DEF RouteName
<1>2. CASE Matched(p, names)
  <2> DEFINE first == CHOOSE i \in DOMAIN names : IsMatch(p, names, i)
  <2>1. first \in DOMAIN names /\ IsMatch(p, names, first)
    BY <1>2 DEF Matched
  <2>2. RouteName(p, names) = p.sni[names[first]].upstream
    BY <1>2 DEF RouteName, Entry
  <2> QED
    BY <2>1, <2>2 DEF IsMatch
<1> QED
  BY <1>1, <1>2

-----------------------------------------------------------------------------
(* The invariant. *)

LEMMA RInvInit == Init => RInv
BY DEF Init, RInv, TypeOK, Servers, Urls, Built, NeverFallsBack, NoForeignRoute

\* One server visited without an error: the facts about the visited servers
\* extend to it.
LEMMA VerifyAccepts ==
    ASSUME RInv, phase = "verify", NEW s \in left, Verify(s), phase' = phase
    PROVE  RInv'
<1> DEFINE server == config.servers[s]
<1> USE DEF RInv
<1>1. /\ ~Duplicate(server)
      /\ used \cup UsedBy(server) \subseteq upstream
      /\ left' = left \ {s}
      /\ used' = used \cup UsedBy(server)
      /\ seen' = seen \cup Range(Listen(s))
  <2>1. phase' # "rejected"
    BY DEF TypeOK
  <2> QED
    BY <2>1 DEF Verify, Defined, Listen
<1>2. UNCHANGED <<config, upstream, proxies, routed, phase>>
  BY DEF Verify
<1>3. s \in Servers /\ s \notin Visited /\ Visited' = Visited \cup {s}
  BY <1>1, <1>2 DEF TypeOK, Visited, Servers
<1>4. \A r \in Servers : Listen(r)' = Listen(r)
  BY <1>2 DEF Listen
<1>5. TypeOK'
  BY <1>1, <1>2, <1>3, ListenFacts DEF TypeOK, Servers, Urls
<1>6. VisitedDistinct'
  <2>1. \A i \in DOMAIN Listen(s) : Listen(s)[i] \notin seen
    BY <1>1 DEF Duplicate, Listen
  <2>2. \A i, j \in DOMAIN Listen(s) : Listen(s)[i] = Listen(s)[j] => i = j
    <3> SUFFICES ASSUME NEW i \in DOMAIN Listen(s), NEW j \in DOMAIN Listen(s),
                        Listen(s)[i] = Listen(s)[j]
                 PROVE  ~(i < j) /\ ~(j < i)
      BY <1>3, ListenFacts
    <3> QED
      BY <1>1 DEF Duplicate, Listen
  <2>3. ASSUME NEW r \in Visited, NEW i \in DOMAIN Listen(r), NEW j \in DOMAIN Listen(s)
        PROVE  Listen(r)[i] # Listen(s)[j]
    <3>1. Listen(s)[j] \in DOMAIN Addr
      BY <1>3, ListenFacts
    <3> QED
      BY <2>1, <3>1 DEF SeenVisited
  <2>4. \A r \in Visited' : r \in Servers /\ Listen(r)' = Listen(r)
    BY <1>3, <1>4 DEF Visited
  <2> QED
    BY <1>3, <2>2, <2>3, <2>4 DEF VisitedDistinct
<1>7. SeenVisited'
  <2>1. ASSUME NEW text \in DOMAIN Addr
        PROVE  text \in seen' <=> \E r \in Visited' : \E i \in DOMAIN Listen(r) : Listen(r)[i] = text
    BY <1>1, <1>3, ListenFacts DEF SeenVisited
  <2>2. \A r \in Visited' : Listen(r)' = Listen(r)
    BY <1>3, <1>4 DEF Visited
  <2> QED
    BY <2>1, <2>2 DEF SeenVisited
<1>8. VisitedDefined'
  <2>1. \A r \in Visited' : UsedBy(config.servers[r]) \subseteq used'
    BY <1>1, <1>3 DEF VisitedDefined
  <2> QED
    BY <1>2, <2>1 DEF VisitedDefined, UsedBy, SniNames, DefaultNames
<1>9. HeaderOk' /\ (upstream = Builtins \cup Urls)'
  BY <1>2 DEF HeaderOk, Urls
<1>10. (phase = "serve" => left = {})' /\ (phase # "serve" => proxies = {} /\ routed = None)'
  BY <1>2
<1>11. Built' /\ NeverFallsBack' /\ NoForeignRoute'
  BY <1>2 DEF Built, NeverFallsBack, NoForeignRoute
<1> QED
  BY <1>2, <1>5, <1>6, <1>7, <1>8, <1>9, <1>10, <1>11

\* An error in verify_config has a cause in the file.
LEMMA VerifyRejects ==
    ASSUME RInv, phase = "verify", NEW s \in left, Verify(s), phase' = "rejected"
    PROVE  RInv'
<1> DEFINE server == config.servers[s]
<1> USE DEF RInv
<1>1. UNCHANGED <<config, upstream, proxies, routed, left, used, seen>>
  BY DEF Verify
<1>2. s \in Servers /\ s \notin Visited
  BY DEF TypeOK, Visited
<1>3. Duplicate(server) \/ ~(used \cup UsedBy(server) \subseteq upstream)
  BY DEF Verify, Defined
<1>4. ASSUME Duplicate(server) PROVE ~Sound
  <2>1. CASE \E i \in DOMAIN Listen(s) : Listen(s)[i] \in seen
    <3>1. PICK i \in DOMAIN Listen(s) : Listen(s)[i] \in seen
      BY <2>1
    <3>2. Listen(s)[i] \in DOMAIN Addr
      BY <1>2, ListenFacts
    <3>3. PICK r \in Visited : \E j \in DOMAIN Listen(r) : Listen(r)[j] = Listen(s)[i]
      BY <3>1, <3>2 DEF SeenVisited
    <3>4. r \in Servers /\ r # s
      BY <1>2 DEF Visited
    <3> QED
      BY <1>2, <3>3, <3>4 DEF Sound, Listen
  <2>2. CASE \E i, j \in DOMAIN Listen(s) : j < i /\ Listen(s)[j] = Listen(s)[i]
    <3>1. PICK i \in DOMAIN Listen(s), j \in DOMAIN Listen(s) :
             j < i /\ Listen(s)[j] = Listen(s)[i]
      BY <2>2
    <3>2. i # j
      BY <1>2, <3>1, ListenFacts
    <3> QED
      BY <1>2, <3>1, <3>2 DEF Sound, Listen
  <2> QED
    BY <1>4, <2>1, <2>2 DEF Duplicate, Listen
<1>5. ASSUME ~(UsedBy(server) \subseteq upstream) PROVE ~Sound
  <2>1. PICK name \in UsedBy(server) : name \notin Builtins \cup Urls
    BY <1>5
  <2>2. CASE name \in DefaultNames(server)
    BY <1>2, <2>1, <2>2 DEF Sound, DefaultNames
  <2>3. CASE server.tls /\ name \in SniNames(server)
    BY <1>2, <2>1, <2>3 DEF Sound, SniNames
  <2> QED
    BY <2>1, <2>2, <2>3 DEF UsedBy
<1>6. used \subseteq upstream
  BY DEF TypeOK
<1>7. ~Sound'
  <2>1. ~Sound
    BY <1>3, <1>4, <1>5, <1>6
  <2>2. Sound' <=> Sound
    BY <1>1 DEF Sound, HeaderOk, Servers, Urls
  <2> QED
    BY <2>1, <2>2
<1>8. TypeOK'
  BY <1>1 DEF TypeOK, Servers, Urls
<1>9. Built' /\ NeverFallsBack' /\ NoForeignRoute' /\ proxies' = {} /\ routed' = None
  BY <1>1 DEF Built, NeverFallsBack, NoForeignRoute
<1> QED
  BY <1>1, <1>7, <1>8, <1>9

\* A route of an accepted configuration.
LEMMA RouteResolves ==
    ASSUME RInv, NEW p \in proxies, NEW hello \in Hellos, Route(p, hello)
    PROVE  RInv'
<1> USE DEF RInv
<1>1. phase = "serve" /\ UNCHANGED <<config, phase, upstream, left, used, seen, proxies>>
  BY DEF Route
<1>2. PICK names \in IF p.tls THEN Peeks(hello) ELSE {<<>>} :
         routed' = [proxy  |-> p,
                    hello  |-> hello,
                    name   |-> RouteName(p, names),
                    via    |-> RouteVia(p, names),
                    target |-> Target(RouteVia(p, names), names),
                    chosen |-> Lookup(p, RouteName(p, names))]
  BY DEF Route
<1> DEFINE name == RouteName(p, names)
<1>3. /\ routed'.proxy = p /\ routed'.hello = hello
      /\ routed'.name = name /\ routed'.chosen = Lookup(p, name)
  BY <1>2
<1>4. PICK s \in Servers : p \in ProxiesOf(s)
  BY DEF Built
<1> DEFINE server == config.servers[s]
<1>5. /\ p.sni = server.sni /\ p.tls = server.tls
      /\ p.default = IF server.default = None THEN "ban" ELSE server.default
  BY <1>4 DEF ProxiesOf
<1>6. UsedBy(server) \subseteq upstream
  BY <1>1 DEF VisitedDefined, Visited, TypeOK
<1>7. p.default \in upstream
  BY <1>1, <1>5, <1>6 DEF UsedBy, DefaultNames, Builtins
<1>8. ASSUME NEW i \in DOMAIN names, names[i] \in DOMAIN p.sni
      PROVE  /\ p.tls
             /\ i \in DOMAIN hello /\ names[i] = hello[i]
             /\ p.sni[names[i]].upstream \in upstream
  <2>1. p.tls
    BY <1>8
  <2>2. names[i] # Garbled
    BY <1>5, <1>8, ConfigAssumption DEF Servers
  <2>3. i \in DOMAIN hello /\ names[i] = hello[i]
    BY <2>1, <2>2, PeekedNames
  <2>4. p.sni[names[i]].upstream \in upstream
    BY <1>5, <1>6, <1>8, <2>1 DEF UsedBy, SniNames
  <2> QED
    BY <2>1, <2>3, <2>4
<1>9. name \in upstream
  BY <1>7, <1>8, RouteCases
<1>10. NeverFallsBack'
  BY <1>1, <1>3, <1>9 DEF NeverFallsBack, Lookup
<1>11. NoForeignRoute'
  BY <1>3, <1>8, RouteCases DEF NoForeignRoute
<1>12. TypeOK' /\ Built'
  BY <1>1 DEF TypeOK, Built, Servers, ProxiesOf, Urls
<1>13. (HeaderOk /\ upstream = Builtins \cup Urls)'
  BY <1>1 DEF HeaderOk, Urls
<1>14. VisitedDistinct' /\ SeenVisited' /\ VisitedDefined'
  BY <1>1 DEF VisitedDistinct, SeenVisited, VisitedDefined, Visited, Servers, Listen,
              UsedBy, SniNames, DefaultNames
<1> QED
  BY <1>1, <1>10, <1>11, <1>12, <1>13, <1>14

LEMMA RInvNext == RInv /\ [Next]_vars => RInv'
<1> SUFFICES ASSUME RInv, [Next]_vars PROVE RInv'
  OBVIOUS
<1> USE DEF RInv
<1>1. CASE LoadFails
  BY <1>1 DEF LoadFails, TypeOK, Servers, Urls, Built, NeverFallsBack, NoForeignRoute
<1>8. ASSUME NEW contents \in Configs, Open(contents) PROVE RInv'
  <2>1. /\ phase' = "load" /\ config' \in Configs
        /\ upstream' = {} /\ left' = {} /\ used' = {} /\ seen' = {}
        /\ proxies' = {} /\ routed' = None
    BY <1>8 DEF Open
  <2>2. TypeOK'
    BY <2>1 DEF TypeOK
  <2>3. Built' /\ NeverFallsBack' /\ NoForeignRoute'
    BY <2>1 DEF Built, NeverFallsBack, NoForeignRoute
  <2> QED
    BY <2>1, <2>2, <2>3
<1>2. CASE LoadRejected
  <2>1. ~Sound'
    BY <1>2 DEF LoadRejected, Sound, HeaderOk
  <2> QED
    BY <1>2, <2>1 DEF LoadRejected, TypeOK, Servers, Built, NeverFallsBack, NoForeignRoute
<1>3. CASE Load
  <2>1. /\ phase = "load" /\ phase' = "verify" /\ HeaderOk /\ upstream' = Builtins \cup Urls
        /\ left' = Servers
        /\ UNCHANGED <<config, used, seen, proxies, routed>>
    BY <1>3 DEF Load
  <2>2. seen' = {} /\ used' = {} /\ Visited' = {} /\ proxies' = {} /\ routed' = None
    BY <1>3, <2>1 DEF Load, Visited, Servers
  <2>3. VisitedDistinct' /\ SeenVisited' /\ VisitedDefined'
    BY <2>2 DEF VisitedDistinct, SeenVisited, VisitedDefined
  <2>4. TypeOK'
    BY <2>1, <2>2 DEF TypeOK, Servers, Urls
  <2>5. Built' /\ NeverFallsBack' /\ NoForeignRoute'
    BY <2>2 DEF Built, NeverFallsBack, NoForeignRoute
  <2> QED
    BY <2>1, <2>3, <2>4, <2>5, <2>2 DEF HeaderOk, Urls
<1>4. ASSUME NEW s \in Servers, Verify(s) PROVE RInv'
  BY <1>4, VerifyAccepts, VerifyRejects DEF Verify
<1>5. CASE Build
  <2>1. /\ phase = "verify" /\ left = {} /\ phase' = "serve"
        /\ proxies' = UNION {ProxiesOf(s) : s \in Servers}
        /\ UNCHANGED <<config, upstream, left, used, seen, routed>>
    BY <1>5 DEF Build
  <2>2. ASSUME NEW s \in Servers, NEW p \in ProxiesOf(s)
        PROVE  p.server = s /\ p.listen # None
    BY DEF ProxiesOf
  <2>3. \A s \in Servers : ProxiesOf(s)' = ProxiesOf(s)
    BY <2>1 DEF ProxiesOf
  <2>4. Built' /\ TypeOK'
    BY <2>1, <2>2, <2>3 DEF Built, TypeOK, Servers, Urls
  <2>5. NeverFallsBack' /\ NoForeignRoute'
    BY <2>1 DEF NeverFallsBack, NoForeignRoute
  <2>6. VisitedDistinct' /\ SeenVisited' /\ VisitedDefined'
    BY <2>1 DEF VisitedDistinct, SeenVisited, VisitedDefined, Visited, Servers, Listen,
                UsedBy, SniNames, DefaultNames
  <2> QED
    BY <2>1, <2>4, <2>5, <2>6 DEF HeaderOk, Urls
<1>6. ASSUME NEW p \in proxies, NEW hello \in Hellos, Route(p, hello) PROVE RInv'
  BY <1>6, RouteResolves
<1>7. CASE UNCHANGED vars
  <2>1. VisitedDistinct /\ SeenVisited /\ VisitedDefined =>
           VisitedDistinct' /\ SeenVisited' /\ VisitedDefined'
    BY <1>7 DEF vars, VisitedDistinct, SeenVisited, VisitedDefined, Visited, Servers, Listen,
                UsedBy, SniNames, DefaultNames
  <2>2. TypeOK' /\ Built' /\ NeverFallsBack' /\ NoForeignRoute'
    BY <1>7 DEF vars, TypeOK, Built, Servers, Urls, ProxiesOf, NeverFallsBack, NoForeignRoute
  <2>3. (HeaderOk' <=> HeaderOk) /\ (Sound' <=> Sound)
    BY <1>7 DEF vars, HeaderOk, Sound, Servers, Urls
  <2> QED
    BY <1>7, <2>1, <2>2, <2>3 DEF vars, Urls
<1> QED
  BY <1>1, <1>2, <1>3, <1>4, <1>5, <1>6, <1>7, <1>8 DEF Next, Idle

-----------------------------------------------------------------------------
(* What follows. *)

\* What the loop knew of the visited servers is soundness once it visited all.
LEMMA InvariantVerdict == RInv => VerdictOfFile
<1> SUFFICES ASSUME RInv, phase = "serve" PROVE Sound
  BY DEF RInv, VerdictOfFile
<1>1. Visited = Servers /\ HeaderOk /\ upstream = Builtins \cup Urls
  BY DEF RInv, Visited
<1>2. \A s1, s2 \in Servers :
         \A i \in DOMAIN config.servers[s1].listen, j \in DOMAIN config.servers[s2].listen :
            config.servers[s1].listen[i] = config.servers[s2].listen[j] => s1 = s2 /\ i = j
  BY <1>1 DEF RInv, VisitedDistinct, Listen
<1>3. ASSUME NEW s \in Servers
      PROVE  /\ config.servers[s].default \in upstream \cup {None}
             /\ config.servers[s].tls => \A h \in DOMAIN config.servers[s].sni :
                   config.servers[s].sni[h].upstream \in upstream
  <2>1. UsedBy(config.servers[s]) \subseteq upstream
    BY <1>1 DEF RInv, VisitedDefined, TypeOK
  <2> QED
    BY <2>1 DEF UsedBy, SniNames, DefaultNames
<1> QED
  BY <1>1, <1>2, <1>3 DEF Sound

\* The invariant of loading and routing holds throughout.
THEOREM RoutingInvariance == Spec => []RInv
<1> QED
  BY RInvInit, RInvNext, PTL DEF Spec

\* Every variable keeps its type (config/types.rs 12-137).
THEOREM RoutingTypeCorrect == Spec => []TypeOK
<1>1. RInv => TypeOK
  BY DEF RInv
<1> QED
  BY <1>1, RoutingInvariance, PTL

\* The verdict of verify_config is that of the file, in whichever order it
\* visits the servers (loader.rs 153-198).
THEOREM VerdictCorrect == Spec => []VerdictOfFile
<1> QED
  BY InvariantVerdict, RoutingInvariance, PTL

\* No accepted configuration lets a connection miss its upstream (tcp.rs
\* 154-172).
THEOREM EveryRouteResolves == Spec => []NeverFallsBack
<1>1. RInv => NeverFallsBack
  BY DEF RInv
<1> QED
  BY <1>1, RoutingInvariance, PTL

\* A ClientHello that peek() saw in part never leads to the route of a name it
\* does not carry (tcp.rs 103-131).
THEOREM NoForeignRouteCorrect == Spec => []NoForeignRoute
<1>1. RInv => NoForeignRoute
  BY DEF RInv
<1> QED
  BY <1>1, RoutingInvariance, PTL

-----------------------------------------------------------------------------
(* Where the documents are right: what it takes for the promises that the  *)
(* runs refute in general.                                                 *)

\* A ClientHello under TLS takes the entry of its first name that has one, and
\* the default if none has.
FirstNameRouted ==
    routed # None /\ routed.proxy.tls =>
        /\ \A i \in DOMAIN routed.hello :
              IsMatch(routed.proxy, routed.hello, i) =>
                  routed.name = routed.proxy.sni[routed.hello[i]].upstream
        /\ ~Matched(routed.proxy, routed.hello) => routed.name = routed.proxy.default

\* One index is the first.
LEMMA MatchUnique ==
    ASSUME NEW hello \in Hellos, NEW p, NEW i \in DOMAIN hello, IsMatch(p, hello, i)
    PROVE  RouteName(p, hello) = p.sni[hello[i]].upstream
<1> DEFINE first == CHOOSE j \in DOMAIN hello : IsMatch(p, hello, j)
<1>1. first \in DOMAIN hello /\ IsMatch(p, hello, first) /\ Matched(p, hello)
  BY DEF Matched
<1>2. RouteName(p, hello) = p.sni[hello[first]].upstream
  BY <1>1 DEF RouteName, Entry
<1> HIDE DEF first
<1>3. DOMAIN hello = 1 .. Len(hello) /\ Len(hello) \in Nat
  <2> DEFINE Names == UNION {Range(h) : h \in Hellos}
  <2>1. hello \in Seq(Names)
    BY ConfigAssumption
  <2> HIDE DEF Names
  <2> QED
    BY <2>1
<1>4. ~(i < first) /\ ~(first < i)
  <2>1. \A j \in 1 .. i - 1 : hello[j] \notin DOMAIN p.sni
    BY DEF IsMatch
  <2>2. \A j \in 1 .. first - 1 : hello[j] \notin DOMAIN p.sni
    BY <1>1 DEF IsMatch
  <2>3. hello[i] \in DOMAIN p.sni /\ hello[first] \in DOMAIN p.sni
    BY <1>1 DEF IsMatch
  <2> QED
    BY <1>1, <1>3, <2>1, <2>2, <2>3
<1>5. i = first
  BY <1>1, <1>3, <1>4
<1> QED
  BY <1>2, <1>5

\* Once peek() sees a whole ClientHello, the order of its names decides, and
\* nothing else (tcp.rs 103-131, tls.rs 7-54).
THEOREM FirstNameWhere == ASSUME ~Split PROVE Spec => []FirstNameRouted
<1>1. Init => FirstNameRouted
  BY DEF Init, FirstNameRouted
<1>2. FirstNameRouted /\ [Next]_vars => FirstNameRouted'
  <2> SUFFICES ASSUME FirstNameRouted, [Next]_vars PROVE FirstNameRouted'
    OBVIOUS
  <2>1. ASSUME NEW p \in proxies, NEW hello \in Hellos, Route(p, hello)
        PROVE  FirstNameRouted'
    <3> SUFFICES ASSUME p.tls PROVE FirstNameRouted'
      BY <2>1 DEF Route, FirstNameRouted
    <3>1. Peeks(hello) = {hello}
      BY DEF Peeks
    <3>2. /\ routed'.proxy = p /\ routed'.hello = hello
          /\ routed'.name = RouteName(p, hello)
      BY <2>1, <3>1 DEF Route
    <3>3. ~Matched(p, hello) => RouteName(p, hello) = p.default
      BY DEF RouteName
    <3> QED
      BY <3>2, <3>3, MatchUnique DEF FirstNameRouted
  <2>2. CASE UNCHANGED routed
    BY <2>2 DEF FirstNameRouted
  <2> QED
    BY <2>1, <2>2 DEF Next, LoadFails, Open, LoadRejected, Load, Verify, Build, Idle, vars
<1> QED
  BY <1>1, <1>2, PTL DEF Spec

\* The SNI-based routing of README.md 10: a ClientHello that names an entry takes
\* it, if it arrives in one piece that fits the buffer.
THEOREM RoutedByNameWhere == ASSUME ~Split PROVE Spec => []RoutedByName
<1>1. FirstNameRouted => RoutedByName
  <2> SUFFICES ASSUME FirstNameRouted, routed # None,
                      NEW h \in DOMAIN routed.proxy.sni, routed.proxy.tls, routed.hello = <<h>>
               PROVE  routed.name = routed.proxy.sni[h].upstream
    BY DEF RoutedByName
  <2>1. 1 \in DOMAIN routed.hello /\ routed.hello[1] = h
    OBVIOUS
  <2>2. IsMatch(routed.proxy, routed.hello, 1)
    BY <2>1 DEF IsMatch
  <2> QED
    BY <2>1, <2>2 DEF FirstNameRouted
<1> QED
  BY <1>1, FirstNameWhere, PTL

\* Every server of the file has a via block.
ViaGiven == \A c \in Configs : \A s \in DOMAIN c.servers : c.servers[s].via # None

\* The connect timeout of README.md 118 is 30 s by default where a via block is
\* there to miss it: only a server without one has the derived Default
\* (types.rs 44-68, builder.rs 33-61).
THEOREM TimeoutDefaultsWhere == ASSUME ViaGiven PROVE Spec => []TimeoutDefaults
<1>1. RInv => TimeoutDefaults
  <2> SUFFICES ASSUME RInv, NEW p \in proxies,
                      \/ config.servers[p.server].via = None
                      \/ config.servers[p.server].via.timeout = None
               PROVE  p.via.timeout = DefaultTimeout
    BY DEF TimeoutDefaults
  <2>1. PICK s \in Servers : p \in ProxiesOf(s)
    BY DEF RInv, Built
  <2> DEFINE block == config.servers[s].via
  <2>2. p.server = s /\ p.via = ViaOf(block)
    BY <2>1 DEF ProxiesOf
  <2>3. config \in Configs /\ s \in DOMAIN config.servers
    BY <2>1 DEF RInv, Servers
  <2>4. block # None /\ "timeout" \in DOMAIN block
    BY <2>3, ConfigAssumption DEF ViaGiven
  <2>5. block.timeout = None
    BY <2>2, <2>4
  <2> QED
    BY <2>2, <2>4, <2>5 DEF ViaOf
<1> QED
  BY <1>1, RoutingInvariance, PTL

-----------------------------------------------------------------------------
(* The program is the order-free CheckedRouting. *)

\* The upstream and the via of a connection come from the same entry: that of a
\* name it carries, or the default (tcp.rs 113-138).
LEMMA ChoiceCases ==
    ASSUME NEW p, NEW names
    PROVE  \/ RouteName(p, names) = p.default /\ RouteVia(p, names) = p.via
           \/ \E i \in DOMAIN names :
                 /\ names[i] \in DOMAIN p.sni
                 /\ RouteName(p, names) = p.sni[names[i]].upstream
                 /\ RouteVia(p, names) = IF p.sni[names[i]].via = None THEN p.via
                                         ELSE ViaOf(p.sni[names[i]].via)
<1>1. CASE ~Matched(p, names)
  BY <1>1 DEF RouteName, RouteVia
<1>2. CASE Matched(p, names)
  <2> DEFINE first == CHOOSE i \in DOMAIN names : IsMatch(p, names, i)
  <2>1. first \in DOMAIN names /\ IsMatch(p, names, first)
    BY <1>2 DEF Matched
  <2>2. Entry(p, names) = p.sni[names[first]]
    BY DEF Entry
  <2> HIDE DEF first
  <2>3. /\ RouteName(p, names) = p.sni[names[first]].upstream
        /\ RouteVia(p, names) = IF p.sni[names[first]].via = None THEN p.via
                                ELSE ViaOf(p.sni[names[first]].via)
    BY <1>2, <2>2 DEF RouteName, RouteVia
  <2> QED
    BY <2>1, <2>3 DEF IsMatch
<1> QED
  BY <1>1, <1>2

\* The route of a connection is in the table of the file.
LEMMA RouteInTable ==
    ASSUME RInv, RInv', NEW p \in proxies, NEW hello \in Hellos, Route(p, hello), routed' # None
    PROVE  [listen |-> routed'.proxy.listen, hello |-> routed'.hello,
            choice |-> <<routed'.chosen, routed'.via>>] \in Table
<1>1. PICK names \in IF p.tls THEN Peeks(hello) ELSE {<<>>} :
         routed' = [proxy  |-> p,
                    hello  |-> hello,
                    name   |-> RouteName(p, names),
                    via    |-> RouteVia(p, names),
                    target |-> Target(RouteVia(p, names), names),
                    chosen |-> Lookup(p, RouteName(p, names))]
  BY DEF Route
<1> DEFINE name == RouteName(p, names)
           via == RouteVia(p, names)
<1>2. /\ routed'.proxy = p /\ routed'.hello = hello
      /\ routed'.chosen = name /\ routed'.via = via
  BY <1>1 DEF RInv, NeverFallsBack
<1>3. PICK s \in Servers : p \in ProxiesOf(s)
  BY DEF RInv, Built
<1> DEFINE server == config.servers[s]
<1>4. /\ p.sni = server.sni /\ p.tls = server.tls /\ p.via = ViaOf(server.via)
      /\ p.default = IF server.default = None THEN "ban" ELSE server.default
  BY <1>3 DEF ProxiesOf
<1>5. p.listen \in Listens(server)
  BY <1>3 DEF ProxiesOf, Listens
<1>6. ASSUME NEW i \in DOMAIN names, names[i] \in DOMAIN p.sni
      PROVE  p.tls /\ names[i] \in Range(hello)
  <2>1. p.tls
    BY <1>6
  <2>2. names[i] # Garbled
    BY <1>4, <1>6, ConfigAssumption DEF Servers, RInv, Route
  <2>3. i \in DOMAIN hello /\ names[i] = hello[i]
    BY <2>1, <2>2, PeekedNames
  <2> QED
    BY <2>1, <2>3 DEF Range
<1> HIDE DEF server, name, via
<1>7. <<name, via>> \in Choices(server, hello)
  <2>1. CASE name = p.default /\ via = p.via
    BY <1>4, <2>1 DEF Choices
  <2>2. ASSUME NEW i \in DOMAIN names, names[i] \in DOMAIN p.sni,
               name = p.sni[names[i]].upstream,
               via = IF p.sni[names[i]].via = None THEN p.via ELSE ViaOf(p.sni[names[i]].via)
        PROVE  <<name, via>> \in Choices(server, hello)
    <3>1. names[i] \in IF server.tls THEN Range(hello) \cap DOMAIN server.sni ELSE {}
      BY <1>4, <1>6, <2>2
    <3> QED
      BY <1>4, <2>2, <3>1 DEF Choices
  <2> QED
    BY <2>1, <2>2, ChoiceCases DEF name, via
<1> DEFINE route == [listen |-> p.listen, hello |-> hello, choice |-> <<name, via>>]
<1>8. route \in Routes(server, hello)
  <2>1. p.listen \in Listens(server) /\ hello \in {hello} /\ <<name, via>> \in Choices(server, hello)
    BY <1>5, <1>7 DEF server
  <2> QED
    BY <2>1 DEF Routes
<1> HIDE DEF route
<1>9. route \in Table
  BY <1>3, <1>8 DEF Table, server
<1> QED
  BY <1>2, <1>9 DEF route

\* The stages of the promise.
StageIs ==
    /\ phase = "open" => Stage = "unread"
    /\ phase \in {"load", "verify"} => Stage = "read"
    /\ phase = "serve" => Stage = "serving"
    /\ phase \in {"unreadable", "rejected"} => Stage = "refused"

LEMMA StageValues == StageIs /\ StageIs'
BY Zenon DEF StageIs, Stage

Last == {[listen |-> r.proxy.listen, hello |-> r.hello, choice |-> <<r.chosen, r.via>>] :
            r \in {routed} \ {None}}

LEMMA PromisedInit == Init => Promised!Init
<1> SUFFICES ASSUME Init PROVE Promised!Init
  OBVIOUS
<1>1. Servers = {} /\ config = None /\ phase = "open" /\ {routed} \ {None} = {}
  BY DEF Init, Servers
<1>2. Table = {} /\ Last = {}
  BY <1>1 DEF Table, Last
<1>3. Stage = "unread"
  BY <1>1, StageValues DEF StageIs
<1> QED
  BY <1>1, <1>2, <1>3 DEF Promised!Init, Last

\* What the config file says depends on nothing else.
LEMMA FileFixed ==
    ASSUME UNCHANGED config
    PROVE  (Sound' <=> Sound) /\ Table' = Table
BY DEF Sound, HeaderOk, Servers, Urls, Table

LEMMA VerdictThen == RInv' => VerdictOfFile'
BY InvariantVerdict, PTL

\* Every step of the program is a step of the promise, or none of it.
LEMMA PromisedNext ==
    RInv /\ RInv' /\ [Next]_vars => [Promised!Next]_(Promised!vars)
<1> SUFFICES ASSUME RInv, RInv', [Next]_vars
             PROVE  [Promised!Next]_(Promised!vars)
  OBVIOUS
<1> DEFINE sound == config # None /\ Sound
<1> USE StageValues DEF StageIs
<1>0. ASSUME UNCHANGED <<config, routed>>
      PROVE  (sound' <=> sound) /\ Table' = Table /\ Last' = Last
  BY <1>0, FileFixed DEF Last
<1>1. CASE LoadFails
  <2>1. Stage = "unread" /\ Stage' = "refused" /\ UNCHANGED <<config, routed>>
    BY <1>1 DEF LoadFails
  <2>2. Promised!CannotRead
    BY <1>0, <2>1 DEF Promised!CannotRead, Last
  <2> QED
    BY <2>2 DEF Promised!Next
<1>2. ASSUME NEW contents \in Configs, Open(contents)
      PROVE  [Promised!Next]_(Promised!vars)
  <2>1. Stage = "unread" /\ Stage' = "read" /\ UNCHANGED routed
    BY <1>2 DEF Open
  <2>2. Promised!Read
    BY <2>1 DEF Promised!Read
  <2> QED
    BY <2>2 DEF Promised!Next
<1>3. CASE LoadRejected
  <2>1. Stage = "read" /\ Stage' = "refused" /\ UNCHANGED <<config, routed>> /\ ~Sound
    BY <1>3 DEF LoadRejected, Sound
  <2>2. Promised!Refuse
    BY <1>0, <2>1 DEF Promised!Refuse, Last
  <2> QED
    BY <2>2 DEF Promised!Next
<1>4. CASE Load
  <2>1. Stage' = Stage /\ UNCHANGED <<config, routed>>
    BY <1>4 DEF Load
  <2> QED
    BY <1>0, <2>1 DEF Promised!vars, Last
<1>5. ASSUME NEW s \in Servers, Verify(s)
      PROVE  [Promised!Next]_(Promised!vars)
  <2>1. phase = "verify" /\ UNCHANGED <<config, routed>> /\ phase' \in {phase, "rejected"}
    BY <1>5 DEF Verify
  <2>2. CASE phase' = "verify"
    <3>1. Stage' = Stage
      BY <2>1, <2>2
    <3> QED
      BY <1>0, <2>1, <3>1 DEF Promised!vars, Last
  <2>3. CASE phase' = "rejected"
    <3>1. Stage = "read" /\ Stage' = "refused"
      BY <2>1, <2>3
    <3>2. ~sound
      BY <2>1, <2>3, FileFixed DEF RInv
    <3>3. Promised!Refuse
      BY <1>0, <2>1, <3>1, <3>2 DEF Promised!Refuse, Last
    <3> QED
      BY <3>3 DEF Promised!Next
  <2> QED
    BY <2>1, <2>2, <2>3
<1>6. CASE Build
  <2>1. Stage = "read" /\ Stage' = "serving" /\ UNCHANGED <<config, routed>>
    BY <1>6 DEF Build
  <2>2. phase' = "serve" /\ config \in Configs
    BY <1>6 DEF Build, RInv
  <2>3. VerdictOfFile'
    BY VerdictThen
  <2>4. sound
    BY <2>1, <2>2, <2>3, FileFixed, ConfigAssumption DEF VerdictOfFile
  <2>5. Promised!Serve
    BY <1>0, <2>1, <2>4 DEF Promised!Serve, Last
  <2> QED
    BY <2>5 DEF Promised!Next
<1>7. ASSUME NEW p \in proxies, NEW hello \in Hellos, Route(p, hello)
      PROVE  [Promised!Next]_(Promised!vars)
  <2>1. Stage = "serving" /\ Stage' = Stage /\ UNCHANGED config
    BY <1>7 DEF Route
  <2>2. Last' \subseteq Table
    BY <1>7, RouteInTable DEF Last
  <2>3. Promised!Forward
    BY <2>1, <2>2, FileFixed DEF Promised!Forward, Last
  <2> QED
    BY <2>3 DEF Promised!Next
<1>8. CASE UNCHANGED vars
  <2>1. Stage' = Stage /\ UNCHANGED <<config, routed>>
    BY <1>8 DEF vars, Stage
  <2> QED
    BY <1>0, <2>1 DEF Promised!vars, Last
<1> QED
  BY <1>1, <1>2, <1>3, <1>4, <1>5, <1>6, <1>7, <1>8 DEF Next, Idle

\* With its HashMaps visited in any order, and hellos seen in part, the program is
\* the order-free promise (loader.rs 69-198, builder.rs 22-61, tcp.rs 127-172).
THEOREM RouterRefinement == Spec => ImplementsRouting
<1> QED
  BY PromisedInit, PromisedNext, RoutingInvariance, PTL
     DEF Spec, ImplementsRouting, Promised!SafetySpec
=============================================================================
