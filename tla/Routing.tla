------------------------------ MODULE Routing ------------------------------
(***************************************************************************)
(* From the config file to the upstream of a connection: load_config,      *)
(* verify_config, Server::from and the routing half of accept(). The loops *)
(* over HashMaps visit the servers in any order. A ClientHello is the list *)
(* of the server names it carries; peek() may see only its beginning.      *)
(***************************************************************************)
EXTENDS Naturals, Sequences, Functions

CONSTANTS
    Configs,  \* what a config file can hold, as BaseConfig deserializes it
    Addr,     \* what each listen text parses to, None if it does not
    Hellos,   \* the lists of names a ClientHello can carry
    Split,    \* BOOLEAN: may peek() see only the beginning of a ClientHello
    Garbled,  \* a name that peek() cut, the rest of it zero bytes
    None      \* Option::None

Builtins == {"ban", "echo", "health"}

\* A cut name holds zero bytes, so no SNI map has it. A via block has its fields.
ASSUME ConfigAssumption ==
    /\ None \notin Configs
    /\ Hellos \subseteq Seq(UNION {Range(hello) : hello \in Hellos})
    /\ \A c \in Configs : \A s \in DOMAIN c.servers :
          /\ c.servers[s].listen \in Seq(DOMAIN Addr)
          /\ c.servers[s].tls \in BOOLEAN
          /\ Garbled \notin DOMAIN c.servers[s].sni
          /\ c.servers[s].via # None => "timeout" \in DOMAIN c.servers[s].via

DefaultTimeout == 30

VARIABLES
    config,    \* the contents of the file, None before it is read
    phase,     \* "open", "load", "verify", "serve", or "unreadable", "rejected"
    upstream,  \* ParsedConfig.upstream: the names it defines
    left,      \* verify_config: the servers not yet visited
    used,      \* verify_config: used_upstreams
    seen,      \* verify_config: listen_addresses
    proxies,   \* Server.proxies
    routed     \* the last connection routed, None before the first

vars == <<config, phase, upstream, left, used, seen, proxies, routed>>

Servers == IF config = None THEN {} ELSE DOMAIN config.servers
Urls == IF config = None THEN {} ELSE DOMAIN config.urls

Init ==
    /\ config = None
    /\ phase = "open"
    /\ upstream = {}
    /\ left = {}
    /\ used = {}
    /\ seen = {}
    /\ proxies = {}
    /\ routed = None

-----------------------------------------------------------------------------
(* load_config. *)

\* ProxyToUpstream::try_from: a URL with a host, a port and a known scheme.
UrlOk(url) == url \in {"tcp", "tcp4", "tcp6"}

HeaderOk ==
    /\ config.version \in {1, 2}
    /\ config.format \in {None, "txt", "text", "json"}
    /\ \A n \in DOMAIN config.urls : UrlOk(config.urls[n])

\* The file cannot be opened, or is not the YAML of a BaseConfig.
LoadFails ==
    /\ phase = "open"
    /\ phase' = "unreadable"
    /\ UNCHANGED <<config, upstream, left, used, seen, proxies, routed>>

Open(contents) ==
    /\ phase = "open"
    /\ config' = contents
    /\ phase' = "load"
    /\ UNCHANGED <<upstream, left, used, seen, proxies, routed>>

LoadRejected ==
    /\ phase = "load"
    /\ ~HeaderOk
    /\ phase' = "rejected"
    /\ UNCHANGED <<config, upstream, left, used, seen, proxies, routed>>

\* The builtins, and those of the file.
Load ==
    /\ phase = "load"
    /\ HeaderOk
    /\ phase' = "verify"
    /\ upstream' = Builtins \cup Urls
    /\ left' = Servers
    /\ UNCHANGED <<config, used, seen, proxies, routed>>

-----------------------------------------------------------------------------
(* verify_config. *)

\* A listen text the server repeats, or one that another server had before.
Repeats(server) ==                                                  \* mutant
    \E i, j \in DOMAIN server.listen : j < i /\ server.listen[j] = server.listen[i]
Duplicate(server) ==
    \/ \E i \in DOMAIN server.listen : server.listen[i] \in seen
    \/ \E i, j \in DOMAIN server.listen : j < i /\ server.listen[j] = server.listen[i]

\* The names verify_config collects; the SNI map only counts under TLS.
SniNames(server) == {server.sni[h].upstream : h \in DOMAIN server.sni}
DefaultNames(server) == {server.default} \ {None}

UsedByDefaults(server) == DefaultNames(server)                      \* mutant
UsedBy(server) == (IF server.tls THEN SniNames(server) ELSE {}) \cup DefaultNames(server)

AnyName(names) == TRUE                                              \* mutant
Defined(names) == names \subseteq upstream

Verify(s) ==
    /\ phase = "verify"
    /\ s \in left
    /\ LET server == config.servers[s]
           names == used \cup UsedBy(server)
       IN  IF Duplicate(server) \/ ~Defined(names)
           THEN /\ phase' = "rejected"
                /\ UNCHANGED <<left, used, seen>>
           ELSE /\ left' = left \ {s}
                /\ used' = names
                /\ seen' = seen \cup Range(server.listen)
                /\ UNCHANGED phase
    /\ UNCHANGED <<config, upstream, proxies, routed>>

-----------------------------------------------------------------------------
(* Server::from. *)

\* ViaUpstream: a field that is missing has its serde default, but a block
\* that is missing is Default::default(), whose timeout is zero.
ViaOf(block) ==
    IF block = None
    THEN [useSni |-> FALSE, target |-> None, timeout |-> 0]
    ELSE [block EXCEPT !.timeout = IF @ = None THEN DefaultTimeout ELSE @]

\* A listen text that does not parse is skipped.
ProxiesOf(s) ==
    LET server == config.servers[s]
        Listen(text) ==
            [server  |-> s,
             listen  |-> Addr[text],
             tls     |-> server.tls,
             sni     |-> server.sni,
             default |-> IF server.default = None THEN "ban" ELSE server.default,
             via     |-> ViaOf(server.via)]
    IN  {Listen(text) : text \in {x \in Range(server.listen) : Addr[x] # None}}

Build ==
    /\ phase = "verify"
    /\ left = {}
    /\ phase' = "serve"
    /\ proxies' = UNION {ProxiesOf(s) : s \in Servers}
    /\ UNCHANGED <<config, upstream, left, used, seen, routed>>

-----------------------------------------------------------------------------
(* accept(): what peek() sees, and where it leads. *)

\* get_sni() parses a buffer that is zero after what has arrived: the names
\* before the cut are found, and one that the cut falls into is garbled. A hello
\* longer than the buffer gives none.
\* The empty names that zeros may also give match no SNI key and are left out.
Peeks(hello) ==
    LET cuts == IF Split /\ hello # <<>> THEN 0 .. Len(hello) - 1 ELSE {}
    IN  {hello} \cup {SubSeq(hello, 1, k) : k \in cuts}
                \cup {Append(SubSeq(hello, 1, k), Garbled) : k \in cuts}

\* The first name that the SNI map has.
IsMatch(p, names, i) ==
    /\ names[i] \in DOMAIN p.sni
    /\ \A j \in 1 .. i - 1 : names[j] \notin DOMAIN p.sni

Matched(p, names) == \E i \in DOMAIN names : IsMatch(p, names, i)

SomeEntry(p, names) == p.sni[CHOOSE h \in DOMAIN p.sni : TRUE]       \* mutant
Entry(p, names) == p.sni[names[CHOOSE i \in DOMAIN names : IsMatch(p, names, i)]]

RouteName(p, names) == IF Matched(p, names) THEN Entry(p, names).upstream ELSE p.default

AlwaysOverrides(p, names) ==                                        \* mutant
    IF Matched(p, names) THEN ViaOf(Entry(p, names).via) ELSE p.via

\* The override of the SNI entry, or the server's own via.
RouteVia(p, names) ==
    IF Matched(p, names) /\ Entry(p, names).via # None
    THEN ViaOf(Entry(p, names).via)
    ELSE p.via

Target(via, names) ==
    IF via.useSni
    THEN IF names = <<>> THEN None ELSE names[1]
    ELSE via.target

\* The upstream found, the default in its place, or the error of neither.
Lookup(p, name) ==
    IF name \in upstream THEN name
    ELSE IF p.default \in upstream THEN p.default ELSE None

Route(p, hello) ==
    /\ phase = "serve"
    /\ p \in proxies
    /\ \E names \in IF p.tls THEN Peeks(hello) ELSE {<<>>} :
          routed' = [proxy  |-> p,
                     hello  |-> hello,
                     name   |-> RouteName(p, names),
                     via    |-> RouteVia(p, names),
                     target |-> Target(RouteVia(p, names), names),
                     chosen |-> Lookup(p, RouteName(p, names))]
    /\ UNCHANGED <<config, phase, upstream, left, used, seen, proxies>>

\* run() returns, or keeps listening on nothing.
Idle ==
    /\ \/ phase \in {"unreadable", "rejected"}
       \/ phase = "serve" /\ proxies = {}
    /\ UNCHANGED vars

Next ==
    \/ LoadFails
    \/ \E contents \in Configs : Open(contents)
    \/ LoadRejected \/ Load
    \/ \E s \in Servers : Verify(s)
    \/ Build
    \/ \E p \in proxies, hello \in Hellos : Route(p, hello)
    \/ Idle

Spec == Init /\ [][Next]_vars

-----------------------------------------------------------------------------
(* Properties. *)

\* What a configuration has to satisfy, without an order of its servers: its
\* header is good, no listen text comes twice, and every name is defined.
Sound ==
    /\ HeaderOk
    /\ \A s1, s2 \in Servers :
          \A i \in DOMAIN config.servers[s1].listen, j \in DOMAIN config.servers[s2].listen :
             config.servers[s1].listen[i] = config.servers[s2].listen[j] => s1 = s2 /\ i = j
    /\ \A s \in Servers :
          LET server == config.servers[s]
          IN  /\ server.default \in Builtins \cup Urls \cup {None}
              /\ server.tls => \A h \in DOMAIN server.sni :
                    server.sni[h].upstream \in Builtins \cup Urls

TypeOK ==
    /\ phase \in {"open", "load", "verify", "serve", "unreadable", "rejected"}
    /\ upstream \subseteq Builtins \cup Urls
    /\ left \subseteq Servers
    /\ used \subseteq upstream
    /\ seen \subseteq DOMAIN Addr
    /\ \A p \in proxies : p.server \in Servers /\ p.listen # None

\* The verdict is that of the file: whichever way the HashMaps are iterated, the
\* servers run under a sound configuration only, and only an unsound one is
\* refused (loader.rs 153-198, whose sets grow from server to server).
VerdictOfFile ==
    /\ phase = "serve" => Sound
    /\ phase = "rejected" => ~Sound

\* No connection of an accepted configuration falls back for want of its
\* upstream: what verify_config checked covers every route that accept() can
\* take (tcp.rs 154-172 is never reached).
NeverFallsBack ==
    routed # None => routed.name \in upstream /\ routed.chosen = routed.name

\* A connection reaches its listener's default, or the route of a name that is
\* in its ClientHello, even when peek() saw that hello only in part.
NoForeignRoute ==
    routed # None =>
        \/ routed.name = routed.proxy.default
        \/ \E i \in DOMAIN routed.hello :
              /\ routed.hello[i] \in DOMAIN routed.proxy.sni
              /\ routed.proxy.sni[routed.hello[i]].upstream = routed.name

-----------------------------------------------------------------------------
(* The checked file and its table of routes. *)

\* The upstream and the via that a server gives a ClientHello: those of its
\* default, or those of a name in it, both from the same entry.
Choices(server, hello) ==
    LET default == IF server.default = None THEN "ban" ELSE server.default
        via(block) == IF block = None THEN ViaOf(server.via) ELSE ViaOf(block)
        named == IF server.tls THEN Range(hello) \cap DOMAIN server.sni ELSE {}
    IN  {<<default, ViaOf(server.via)>>}
           \cup {<<server.sni[h].upstream, via(server.sni[h].via)>> : h \in named}

Listens(server) == {Addr[text] : text \in Range(server.listen)} \ {None}

Routes(server, hello) ==
    [listen : Listens(server), hello : {hello}, choice : Choices(server, hello)]

Table == UNION {Routes(config.servers[s], hello) : s \in Servers, hello \in Hellos}

Stage ==
    CASE phase = "open"                       -> "unread"
      [] phase \in {"load", "verify"}         -> "read"
      [] phase = "serve"                      -> "serving"
      [] phase \in {"unreadable", "rejected"} -> "refused"

Promised == INSTANCE CheckedRouting WITH
    stage <- Stage,
    sound <- config # None /\ Sound,
    table <- Table,
    last  <- {[listen |-> r.proxy.listen, hello |-> r.hello, choice |-> <<r.chosen, r.via>>] :
                 r \in {routed} \ {None}}

\* With its HashMaps visited in any order, and hellos seen in part, the program is
\* the order-free CheckedRouting: one verdict, that of the file, and every
\* connection goes where a block of the file for its listen address sends it,
\* with the via of the same entry (loader.rs 69-198, builder.rs 22-61,
\* tcp.rs 127-172).
ImplementsRouting == Promised!SafetySpec

-----------------------------------------------------------------------------
(* What comments and documents say, and the code does not keep. *)

\* README.md 10: SNI-based routing, so a ClientHello whose only name has an
\* entry takes that entry.
RoutedByName ==
    routed # None =>
        \A h \in DOMAIN routed.proxy.sni :
            routed.proxy.tls /\ routed.hello = <<h>> =>
                routed.name = routed.proxy.sni[h].upstream

\* README.md 118: connect_timeout is 30 s by default.
TimeoutDefaults ==
    \A p \in proxies :
        LET block == config.servers[p.server].via
        IN  block = None \/ block.timeout = None => p.via.timeout = DefaultTimeout
=============================================================================
