# tls-proxy-tunnel: models and proofs

`tls-proxy-tunnel` (`tpt`) is a layer-4 proxy. It listens on the addresses of its configuration, peeks at the name in a
TLS ClientHello, routes the connection to an upstream (`ban`, `echo`, `health`, or a TCP upstream reached directly or
through an HTTP CONNECT proxy) and relays bytes both ways. `maxclients` limits the connections of a listener, and a
signal starts a shutdown that drains the connections.

This directory holds TLA+ modules that model the program, TLC configurations that check them on small instances, and
proofs, checked by TLAPS, that the safety properties hold for every value of the constants. Paths below are relative to
the repository's `src/` unless they start with `README.md`.

## 1. The system

| Part | State it keeps | Operations | Talks to |
|---|---|---|---|
| run loop (`servers/mod.rs`) | cancellation token, task tracker, one task per signal | spawn, await token, close and await tracker | every task, through token and tracker |
| accept loop (`servers/protocol/tcp.rs` 13-81) | listener socket, the listener's semaphore | bind, `select!` of accept and token, take a permit or refuse, spawn | kernel queue, tracker, semaphore |
| connection task (`tcp.rs` 83-195) | client socket, permit | peek, route, process, drop permit | DNS cache and upstream through `Upstream::process` |
| built-in upstreams, metrics (`upstreams/mod.rs`) | none; the metrics are the semaphores themselves | close, echo, serve HTTP in a detached task | semaphores of all listeners |
| DNS cache (`servers/upstream_address/mod.rs`) | addresses, time, ttl under three `RwLock`s, shared by all connections of an upstream | `resolve` | resolver |
| tunnel (`upstreams/proxy_to_upstream/`) | two sockets, one copy buffer each way | connect with timeout, CONNECT handshake, two copies | upstream or upstream proxy |
| config (`config/loader.rs`, `config/types.rs`) | none after startup | parse, verify | builder |
| builder (`servers/builder.rs`) | none after startup | one `Proxy` and semaphore per listen address, shared metrics and upstream map | run loop |
| SNI extraction (`servers/protocol/tls.rs`) | none | names of a ClientHello | connection task |
| command line (`main.rs`) | the config path | arguments, config search, exit code | file system, config, run loop |

What is hard here is concurrency and its limits. Accepts race with tasks that return permits. `select!` picks a random
ready branch, also during the shutdown. Tasks end while `tracker.wait()` is counting them, and one kind of task is not
counted at all. Peers may stay silent for ever, and almost nothing in the
code has a timeout. Accept loops and tunnels take descriptors of one limit. Three locks make one cache entry, whose name
may move meanwhile. The upstream proxy's answer and the ClientHello arrive in any pieces, and the two ends of a tunnel
finish, reset, or stop reading in any order. Config files are looked for and opened in separate calls.
The `hazards` of `PROJECT.json` list these at their lines.

What makes each part correct:

* run loop: it returns only when every listener and connection task is finished, and after a signal only a silent peer
  keeps it from returning;
* accept loop: no permit is lost or returned twice, the limit holds, nobody is refused while a permit is free, nobody
  waits in the backlog for one;
* connection task: whichever way it ends, it leaves no permit and no upstream socket behind, and only a silent peer keeps
  it from ending;
* metrics: on a limited listener the gauge tells the connections in progress, give or take the one the accept loop has in hand,
  whatever it races with;
* DNS cache: no answer is served beyond its ttl, only addresses of the upstream's family are, and when the name moves the
  answers follow;
* tunnel: each end receives what the other sent, in order, nothing passes before the proxy agreed, one direction's end
  does not cut the other nor its stall block it, and the relay returns when both are finished;
* config and routing: what `verify_config` accepts is exactly what `accept()` can resolve, in any order of the HashMaps;
* startup: the first config file of the documented order is used, and the exit code tells why there is no server.

## 2. Modules

| Module | What it is |
|---|---|
| `DrainingService` | abstract: sessions at doors with limits, a drain that is never withdrawn, down only when all is closed |
| `Server`, `ServerProofs` | the running process: signal tasks, listener tasks, connection tasks, detached health tasks, drain; its theorems |
| `Gateway`, `GatewayProofs` | `Server` composed with what its tasks wait for: clients, resolver, upstream sockets, descriptors; it implements `Server`, `DrainingService` and `ProxySession` |
| `AddressCache`, `AddressCacheProofs` | `UpstreamAddress::resolve`, one action per lock operation, and its theorems |
| `Pipe` | abstract: two independent ordered streams that open and close together |
| `ProxySession` | abstract: what `process()` of a proxy upstream is to the connection task that awaits it, without bytes and buffers |
| `Tunnel`, `TunnelProofs` | one proxied connection: connect, CONNECT, relay; it implements `Pipe` and `ProxySession` |
| `CheckedRouting` | abstract: a file is sound or not, only a sound one is served, and then by its own table of routes |
| `Routing`, `RoutingProofs` | config file, verification, building, and the route of a connection, and its theorems; it implements `CheckedRouting` |
| `Startup`, `StartupProofs` | command line, config search and exit code around `Routing`, with files that come and go |
| `MCServer`, `MCGateway`, `MCAddressCache`, `MCRouting`, `MCStartup`, `MCTunnel` | the instances TLC checks |

An operator whose line ends in `\* mutant` is a deliberately wrong version of the definition that follows it. The model
never uses it; with it in place of the right one, the named property has to fail (`mutants` in `PROJECT.json`).

### Server

`main` is `Server::run`: `awaiting` the token, `draining` in `tracker.wait()`, `exited`, or `killed` by a signal whose
handler task had not run yet. `sig` is the task of each signal, `lst` each listener task, `tracked` what the `TaskTracker`
counts, `readable` the listening sockets tokio takes for ready, `permits` and `holds` each semaphore and who owns from it,
`stream` the client's socket (`backlog` while the kernel queues it, `accepted` while the accept loop has it in hand, `open`
once a task has it), `task` the connection task, `detached` the clients handed to a bare `tokio::task::spawn`.

| Code | Action |
|---|---|
| `mod.rs` 60-73 | `Register`, `Signal`, `Kill` |
| `tcp.rs` 18, `mod.rs` 82-93 | `Bind`, `BindFails` |
| `tcp.rs` 31-44 | `Selects` (guard), `Accept`, `WouldBlock`, `AcceptError`, `StopListening` |
| `tcp.rs` 46-79 | `AdmitClient` (`try_acquire_owned`), `RejectClient`, `SpawnConn` (`tracker.spawn`), `ReleasePermit`, `EndTask` |
| `tcp.rs` 83-195, `upstreams/mod.rs` 52-90 | `Route`, `RouteToHealth`, `AcceptFails`, `ProcessEnds`, `HealthDone` |
| `mod.rs` 96-107 | `StartDrain`, `FinishDrain` |

The runtime has several worker threads, and the semaphores, the tracker's count and the token are shared atomics. An
action therefore changes at most one of them, also where the code between the changes does not await: a request for
`/metrics` can see a permit taken before the task exists that it is for. Actions of different tasks interleave. An
accept loop is one task, so it passes a connection on (`PassOn`) before it is at its `select!` again (`OneInHand`). A
connection slot is reused once its task and socket are gone, so long histories of connections are covered by few slots.
`Routes` gives the kinds a listener can route to; which one is chosen is `Routing`'s subject.

Abstractions. An accept error other than `WouldBlock` ends the listener (`LoopFails`). It comes from one bad connection
in the queue (`TransientErrors`), or from a lack of descriptors: the kernel allocates one before it looks at its queue,
and tokio tries `accept()` again after each client until the kernel says `WouldBlock`, so a socket that is `readable`
can fail so with an empty queue. `MostFds` leaves `Server` alone to guess how many of them upstream sockets hold;
`Gateway` counts them. A panic of a task, and the few descriptors the process has besides connections, are left out.

### Gateway

`Server` says that a connection task ends in the end (`Serving(c)`). `Gateway` takes that assumption away. It adds to each
connection where `process()` is (`step`), what the client did (`client`) and the upstream's socket (`remote`), extends
every action of `Server` by them, and assumes nothing of clients, upstreams and resolver.

| Code | Action |
|---|---|
| `tcp.rs` 85-97, 103-109 | `AcceptBreaks`, `Peeked` |
| `upstreams/mod.rs` 52-108 | `Routed`, `BanEnds`, `EchoEnds`, `HealthEnds` |
| `connect.rs` 11-45 | `Resolved`, `Connects` (takes a descriptor), `ConnectEnds` |
| `http.rs` 53-106 | `Agrees`, `Refused` |
| `relay.rs` 53-64 | `RelayEnds` |
| `proxy_to_upstream/mod.rs` 45-91 | `DropRemote` in `Ended`: both streams are dropped on every way out |

A client `finished` when it shut its sending half down; it may go on reading, or stop and so hold an echo or a relay as long as
it likes. It is `gone` when it closed or reset the connection. The actions `EchoEnds` and `RelayEnds` are possible from
`finished` on, but the fairness makes them happen only for a client, and in the relay an upstream, that left for good.
`HealthEnds` needs a client that did something: it left, or sent a request after which `hyper` closes by itself.

The details of connect, handshake and relay are `Tunnel`'s; here they are one step each, with what they wait for. `remote`
tells an upstream that left before it agreed to a CONNECT (`gone`) from one that left afterwards (`left`): the answer of the
second is still read. A handshake can fail without any answer, for a header that names an unset environment variable or an
answer that fills its buffer, so `Refused` needs none.

`ProxySession` is the seam between the two modules. `Tunnel` implements it for one connection, its bytes and buffers hidden;
`Gateway`'s `step`, `client` and `remote` implement it for all of them, its permits, sockets and accept loops hidden. What
one session does in `Gateway` and what `Tunnel` does in detail are so steps of the same abstract session: it relays only
after its upstream agreed, and ends with its upstream socket. `Place` is the position of a connection task, `StepsFrom`
the steps it has at most from there.

### AddressCache

Each of the three fields sits behind its own lock, so `resolve` is cut at every lock operation: `CheckResolved`,
`CheckTime`, `CheckTtl`, `Hit`, a lookup that succeeds or fails, and `StoreAddrs`, `StoreTime`, `StoreTtl`.
`Instant::now()` is evaluated before the lock of its store is awaited, so a caller carries the stamp in `t` and may store
it later. An `Instant` is kept as its age, and ages from `GoodTtl` on are one, because no ttl tells them apart: so the clock
needs no bound. `zone` is what the resolver answers, and `Rezone` moves the name. `written` and `failed` are history
variables. `Overtaken` is the set of callers that carry an answer which is not the current one any more. Left out:
`time_remaining`, which only feeds a log line.

### Routing

`config` is the deserialized file. `Open`, `LoadFails`, `LoadRejected`, `Load` are `load_config`; `Verify(s)` is one
turn of the loop of `verify_config`, in any order; `Build` is `Server::from`; `Route(p, hello)` is the routing half of
`accept()`. A ClientHello is the list of its names, and `Peeks` gives what `get_sni` can find: all names, those before a
cut, or those and one mangled name, because the buffer behind the cut is zero bytes that the parser takes for data. The
empty names that zero bytes may also give match no entry, unless the file has an empty SNI key, and are left out.
`ViaOf` has both defaults of `ViaUpstream`: the field defaults of serde for a field that is missing, and the derived
`Default` for a missing block.

Left out as data no property tells apart: headers, `target_port`, `stats_interval`, `maxclients` (in `Server`),
the protocol string (`BindFails` in `Server`), the set-up of the logger, the warning about unused upstreams.

`CheckedRouting` has no loops, sets that grow, or partial hellos. `Promised == INSTANCE CheckedRouting` reads `Table` off the
file: for each listen address and ClientHello the pairs of upstream and `via` that the default or a name of the hello
gives, both from the same entry. The program implements it: a route outside the table, or a `via` of another entry, is no
step of it.

### Startup

`ShowHelp`, `ShowUsage`, `TakeNamed` and `BeginSearch` are the four results of `parse_args`. `Find` is one turn of the loop of
`find_config`, `NothingFound` its end, `OpenConfig` the opening in `load_config`, and `LoadedStep` the steps of `Routing`
on what was read. `Deploy` puts a file in its place or takes it away at any moment before it is read. `steady` remembers
the paths no deployment touched. The error of `main.rs` 109-115 cannot happen: only an empty command line leads to a
search, and then the branch above it applies.

### Tunnel

`phase` follows `ProxyToUpstream::proxy`. `use` says whether there is a CONNECT target and whether the destination speaks
before its client; it is chosen at the start. The request is written and the answer read in pieces of any size. Bytes are
numbered chunks: a chunk is `sent`, `taken` by a read, in `buf`, in `out` once the socket took it, and counted in `got` when
the end has read it. A socket holds `Window` chunks, so an end that does not read stops its direction (`HasRoom`). `shut` holds
the directions whose `copy_counted` is over. Ends may finish, reset or stop reading at any moment; a reset discards what
was not read. Left out: the byte counters and the stats task, which only log; `set_nodelay`, whose failure ends the
connection like a failed connect; and `try_write` returning 0, which a TCP socket does not do for a buffer that is not
empty.

`Pipe` is what the two ends may rely on: `EndToEnd == INSTANCE Pipe` reads `phase` as opening, open or closed, `out` as what was
delivered and `shut` as the ends passed on, and hides handshake, buffers and windows.

## 3. Runs

Passing runs:

| Run | Instance | What it shows |
|---|---|---|
| `server_safety` | a TLS relay with 2 permits and 3 clients whose SNI map leads to every kind of upstream, a health server, 2 signals, 3 descriptors, accept errors; 206,813 states | permits, limit, gauge, drain and rejection are right in every interleaving |
| `server_liveness` | `Gateway`: 2 clients for 1 permit of a peeking relay that leads to every kind of upstream, 1 signal, 2 descriptors; 10,797 states | only a silent peer keeps a task (`TaskHeldOnlyByPeers`) or a drain (`DrainHeldOnlyByPeers`); the backlog is answered; upstream sockets are owned; every step of a task brings it nearer to its end (`DrainShrinks`); the tasks are as many `ProxySession`s; with peers that act the process implements `Server` and `DrainingService`, their fairness included |
| `cache_safety` | 2 callers, an IPv4 upstream whose name moves between two addresses and none of its family, ttls 2 and 1; 106,113 states | no torn read keeps an entry beyond its ttl, replaced addresses come back only with a lookup that was in flight (`OvertakenOnlySpent`), and in the end every hit is the current answer (`Reresolved`) |
| `routing_safety` | `Startup`: 1,620 files, a server of every shape next to one it can clash with, under five headers, 4 ClientHellos; every place of the search, 6 command lines, 2 deployments; 58,200 states | the file is the first of the order that stays, the exit code tells why, the verdict is the file's, every route resolves, none is another name's, and the whole implements `CheckedRouting` |
| `tunnel_safety` | every use but a server-first destination behind CONNECT, 2 chunks each way, a window of 1, request and answer in 2 pieces; 46,746 states | order, handshake, half-close, the end of the relay, independent directions, no step that spins (`WorkShrinks`), and the refinements of `Pipe` and of `ProxySession`, its fairness included |

Runs that find a disagreement between the code and what it says of itself:

| Run | Disagreement |
|---|---|
| `routing_timeout` | a server without a `via` block gets the derived `Default`, a connect timeout of zero, not the documented 30 s; `example-config.yaml` has two such servers |
| `routing_split_hello` | `peek` is called once: a ClientHello in two segments, or longer than 4096 bytes, loses or mangles its name and takes the default route |
| `tunnel_server_first` | what a destination sends together with the end of the CONNECT response is dropped |
| `tunnel_slow_lookup` | the DNS lookup is outside the connect timeout |
| `server_limit` | every listen address has its own semaphore, so a server exceeds its `maxclients` |
| `health_under_load` | the load of a relay exhausts the descriptors and ends the health listener for good |
| `health_cut_at_exit` | the process exits while a detached health task still serves |

Read in the code on the way, not run:

* a server whose default is `health` takes no permit for any connection, so relays its SNI map reaches are unlimited
  (`tcp.rs` 48), and `tpt_active_connections` is 0 while they run (README.md 172: the number of active connections).
  `LimitHolds` and `GaugeCountsClients` speak of limited listeners only;
* a signal that comes before the task of its handler has run ends the process at once, without a drain (`servers/mod.rs`
  60-66). `Kill` is that step, and `DrainingService` allows it;
* `TaskTracker::close` does not refuse spawns, against the comment at `servers/mod.rs` 100: a listener may go on
  admitting until it sees the token. `DrainComplete` shows that those connections are drained too;
* a failed lookup stamps expired addresses as valid for three more seconds, and makes `is_valid()` true for a name never
  resolved, against the comment at `upstream_address/tests.rs` 94 (`mod.rs` 83-84);
* the CONNECT response has no timeout (`http.rs` 54), nor has `peek` (`tcp.rs` 105), nor the relay;
* with `use_sni_as_target` and no SNI, or one that `peek` did not see yet, the client's bytes go to the upstream proxy
  without CONNECT (`tcp.rs` 141);
* a resolver that goes on failing keeps the last addresses alive, three seconds at a time, for as long as it fails;
* a start that finds no config file exits with 0 (`main.rs` 105; README.md 76 says it prints the help);
* README.md 154 writes `log_format`, the key that is read is `log-format` (`config/types.rs` 31).

### Bounds, and why they are enough

* Server: one client more than permits is what a refusal at the limit needs; two free permits let one be taken while
  another is returned. The health listener has one client, its connections share nothing with each other. Two signals
  let one fire while another is still unregistered. The clients of the relay are symmetric in the safety run, which has
  no liveness property; the liveness run uses no symmetry. `health_under_load` has two descriptors, so that a connection of the
  relay is part of what exhausts them.
* Gateway: one listener with one permit makes every wait of a queued client, and its SNI map leads to every kind of upstream,
  `health` included. Two descriptors for two clients and their upstream sockets are few enough that an accept and a
  connect find none, and enough for a tunnel. A health server, whose accept loop differs only in that it asks for no
  permit, is in `server_safety` and in the proofs; a second listener would multiply the states of a liveness check.
* Cache: two callers make every torn read, because one reader and one writer do, and two lookups answered in the other
  order. `GoodTtl` 2 and `BadTtl` 1 are the smallest that differ. Nothing bounds the clock or the number of calls.
* Routing: two servers, two names, two lists of two names make every clash `verify_config` looks for, and every choice of
  `accept()`: first match, later match, none, override, no TLS.
* Startup: two deployments take the chosen file away while an earlier one appears. The theorems have no such bound.
* Tunnel: two chunks each way make a gap, a repetition, a swap, and a chunk that comes with the end of the header; with a
  window of one, the second is stuck behind the first. Two pieces of request and answer make an incomplete one. `MaxElapsed`
  bounds a lookup that is slower than the timeout.

`Server` stops only when the process has ended (`Terminated`), `Tunnel` when the connection is closed (`Closed`), and `Routing`
when startup failed or nothing is left to listen on (`Idle`): all three are explicit stuttering, and deadlock is checked
everywhere.

### Fairness

* Gateway: tokio runs every task that is ready, hence WF of each task's own steps, `PassedOn` among them. A loop is at
  its `select!` only between two connections, so what it does there is enabled again and again and not all the time,
  which takes SF. `accept` returns connections in the kernel's order, so a queued one is reached: SF per connection, for
  the accept that takes it or fails. A loop that is at its `select!` again and again while both branches are ready takes
  the cancelled token in the end: SF of `StopListening`. That is the random choice of `select!`, which `biased` would
  break; the mutant of `DrainHeldOnlyByPeers` is just that. A connect ends, because it has a timeout (`Connects` or
  `ConnectEnds`). An echo is made to end only once its client has left for good, a relay only once both of its ends
  have.
* Nothing is assumed of clients, upstreams, resolver, signals or detached health tasks. Where a property needs peers that
  act, it says so: `PeersAct` is the left side of the implications in `ImplementsService` and `ImplementsServer`. The second one
  shows that the fairness `Server` states, that of `Serving(c)` above all, follows from it.
* `TransientErrors` is off in the liveness run only: a failed accept ends its listener, and the liveness of a listener that is
  gone says nothing. Descriptor exhaustion stays on.
* Tunnel: WF of the proxy's own steps and of its timer. Nothing is assumed of the two ends, of the resolver, nor of the
  network a connect waits for. `RelayReturns` and `DirectionsIndependent` assume, in the formula, that the end concerned reads.
* AddressCache: WF of the clock and of the steps a caller does by itself. `Reresolved` assumes, in the formula, that lookups
  which are tried again and again succeed again and again (SF).
* Routing and Startup have safety properties only.

## 4. Proofs

The proofs hold for every value of the constants that meets the named `ASSUME`s: `ListenersAssumption`,
`ConnsAssumption`, `ServerAssumption` (finite sets of listeners and slots, settings shared by the listeners of a
server), `GatewayAssumption`, `TtlAssumption` (natural ttls, the failed one not longer), `ZoneAssumption`,
`ConfigAssumption` (lists of listen texts, no zero byte in an SNI key, a `via` block has its fields), `StartAssumption`
(there is a file or none at every path in question), `TunnelAssumption`.

* `ServerProofs`. Permit conservation is not inductive alone: that a task which returns gives back a permit it owns
  needs `Ownership` (who handles a stream of a limited listener owns a permit, an open stream has one owner) and
  `OneInHand`, and that the drain leaves nothing needs `TrackerExact` (the tracker counts exactly the tasks that exist)
  and `ExitEmpty`. `ServerInv` is their conjunction; `server_safety` checks it as an invariant too. From it follow
  `LimitHolds` (streams inject into permits), `GaugeCountsClients` (permits out are tasks alive and the one connection
  in hand), `DrainComplete`, and the action property `RejectOnlyAtCapacity`. `Refinement` maps each step to a step of
  `DrainingService` or a stutter: a session of a limited door lasts as long as its permit, one of a health door as long
  as its task. It is the safety part of `ImplementsService`.
* `GatewayProofs`. `ServerRefinement` shows that every step of the composition is one of `Server` or invisible to it, so
  all of `ServerProofs` carries over, and `ServiceRefinement` follows from `Refinement`. The descriptors are the one
  place where the map is not a projection: a failed accept of `Gateway` needs `Sockets >= FdLimit`, and `Server` allows
  it when `MostFds` is, which the ownership of upstream sockets bounds. `OutboundOwnedCorrect` adds to `ServerInv` that
  a socket exists exactly in the steps that use it; its limit is that of the permits. `GatewayKeepsServer` states the
  four invariants of `Server` of the composition. `SessionsRefinement` is the map to `ProxySession`: by it the
  interleaved tasks are independent sessions. `DrainShrinksCorrect` is the provable core of `TaskHeldOnlyByPeers` and
  `DrainHeldOnlyByPeers`: a connection takes at most nine steps from `accept()` on, whichever way it fails, and none
  starts once its listener is no longer tracked. `AcceptShrinks` and `PassShrinks` are the parts of the accept loop.
  That each step is taken in the end is left to TLC.
* `AddressCacheProofs`. The invariant says that `resolved_time` and every stamp a caller still carries were taken at a
  store or at a failed lookup (`StampsKnown`). `ServedWithinTtl` follows: the stamp a reader compares is no later than the
  last such event, and the ttl is at most `GoodTtl`, whichever lookup either came from. `FreshWithoutFailures` is the
  stronger property for lookups that do not fail. `OvertakenOnlySpentCorrect` is the step on which `Reresolved` rests: while the
  zone stands still, the answers in flight that it has overtaken only become fewer, and each can put the cache out of date once.
* `RoutingProofs`. The invariant describes the loop of `verify_config` by the servers visited so far: their texts are
  distinct, `seen` is exactly those, and the names they use are in `used`, which is defined. When none is left that is
  soundness of the whole file (`VerdictCorrect`, both directions) and covers every route (`EveryRouteResolves`).
  `NoForeignRouteCorrect` rests on the lemma that a name found whole is a name of the ClientHello. `RouterRefinement`
  maps every step to one of `CheckedRouting` or a stutter; it needs the verdict in both directions, that no route falls
  back, and the lemma `ChoiceCases`: upstream and `via` come from one entry.
* `StartupProofs`. `StartRefinement`: the steps of `Startup` are steps of `Routing`, so the theorems above hold of the
  process `main()` starts; `StartRoutes` says so of the refinement, `StartKeepsRouting` of the invariants. The invariant
  `SInv` says that each path behind the search was missing at some time and that the config is what the chosen path held
  when it was opened; with `VerdictCorrect` it gives `ExitTellsWhyCorrect`.
* `TunnelProofs`. `Whole(d)`: what was read is delivered or is the one chunk in the buffer. `HandshakeInv`: the relay
  phase implies the complete exchange. `InOrderCorrect`, `HalfCloseCorrect` and `PipeRefinement` assume `Quiet`, no
  server-first destination behind CONNECT; without it the run `tunnel_server_first` refutes them. The other theorems
  need no such assumption. Two of them are the provable core of the liveness properties: a direction that can copy still
  can after any step of the other one (`CopyKeepsTurnCorrect`), which is `DirectionsIndependent` without its fairness;
  and every step of the tunnel uses up work, to which only an end adds (`WorkShrinksCorrect`). `SessionRefinement` is
  the safety part of `ImplementsSession`.

Where the documents are right. A run that refutes a promise of the documents says that it fails somewhere; these
theorems say where it holds, and so how far the disagreement reaches. Each names its condition as a definition:

| Theorem | The promise | Holds where |
|---|---|---|
| `ServerLimitWhere` | `ServerLimitHolds` | each server has one listen address, and no route of a server with a limit leads to `health` |
| `ExitCutsWhere` | `ExitCutsNothing` | no route leads to `health` |
| `HealthStaysWhere` | `HealthListenerStays` | there are more than two descriptors for each connection, and `accept()` fails for nothing else |
| `RoutedByNameWhere` | `RoutedByName` | `peek` sees the whole ClientHello (`~Split`) |
| `TimeoutDefaultsWhere` | `TimeoutDefaults` | every server has a `via` block |
| `ConnectBoundedWhere` | `ConnectBounded` | the lookup takes no time (`InstantLookup`) |
| `InOrderCorrect` | `InOrder` | no server-first destination behind CONNECT (`Quiet`) |

`FirstNameWhere`, from which `RoutedByNameWhere` follows, is the rule for any list of names: the first that has an entry
decides, and the default if none has. `GatewayPromises` and `StartPromises` carry the first three and the next two over to the
compositions. The second half of the first condition matters: a connection routed to `health` gives its permit back while
its stream is still served (`DetachedRouted`).

Only model-checked: the liveness properties (`TaskHeldOnlyByPeers`, `DrainHeldOnlyByPeers`, `BacklogAnswered`, `Reresolved`,
`RelayReturns`, `DirectionsIndependent`, `HeldOnlyByPeers`) and the fairness parts of `ImplementsService`, `ImplementsServer`
and `Tunnel`'s `ImplementsSession`, which are out of the prover's reach (it has no ENABLED). Every invariant and every action
property of a passing run is a theorem.

## 5. Not modelled

The text of requests, metrics and logs and the set-up of the logger; the grammar of the ClientHello (`tls-parser`) and of
YAML (`serde`); HTTP on the health connection (`hyper`); the bytes the echo upstream copies; error types, which are
conversions and `Display`; tests and deployment files. The tokio runtime, the resolver, the kernel's queue, the file
system, the upstream proxy and the peers are modelled from how the code uses them.

Hazards without a property are listed in `PROJECT.json` with their reason: a panic or a skipped listen address at startup,
which no document speaks about; the load of parallel lookups; and, named above, the forward without CONNECT, the listener
of a health server that neither limits nor counts its relays, and the signal before its handler.

## 6. Plan

Done, in this order: `DrainingService` and `Server` with proofs, because permits and drain are what a restart under load
depends on; `AddressCache`; `Tunnel`; `Routing`; then `Pipe`, the composition of tasks and peers in `Gateway`, moving names in
`AddressCache`, and `Startup`; each with its proofs.

Then `ProxySession` and `CheckedRouting`, with the refinements from both sides of the first, and the action properties under
the liveness results; and last the theorems that say where the promises refuted by a run hold.

To come:

1. proofs about the abstract specifications themselves (`Pipe`, `DrainingService`), so that what follows from them follows of the program
   by refinement;
2. `AddressCache` composed with the connecting half of `Tunnel`: the age of an address when the connect to it is over;
3. the server names that are no UTF-8 and that `get_sni` skips, so that the first name of `use_sni_as_target` is a later one.
