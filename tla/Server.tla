-------------------------------- MODULE Server --------------------------------
(***************************************************************************)
(* The running process: Server::run (signal tasks, listener tasks, drain), *)
(* the accept loop tcp::proxy of every listen address, the life of a       *)
(* connection task (accept, Upstream::process, return of its permit), and  *)
(* the detached task that serves a health check.                           *)
(*                                                                         *)
(* A tokio task runs on any worker thread, so the actions of different     *)
(* tasks interleave freely, whether there is an await between them or not. *)
(* The semaphores, the tracker's count and the token are shared atomics:   *)
(* an action changes at most one of them, so that what another worker      *)
(* can read between two of the changes is a state of the model.            *)
(***************************************************************************)
EXTENDS Naturals, FiniteSets

CONSTANTS
    Listeners,       \* one Proxy per valid listen address of the configuration
    Conns,           \* client connection slots; a slot is reused once it is free
    Site,            \* [Conns -> Listeners]: the address a slot's client dials
    Signals,         \* the handled signals: SIGINT, SIGTERM, SIGHUP, SIGQUIT
    ServerOf,        \* [Listeners -> server names]: the `servers:` entry it came from
    MaxClients,      \* [Listeners -> Nat]: maxclients of that entry
    Default,         \* [Listeners -> Kinds]: the kind of its default upstream
    Routes,          \* [Listeners -> SUBSET Kinds]: kinds its SNI map and default reach
    FdLimit,         \* connected sockets the process can hold (RLIMIT_NOFILE)
    TransientErrors  \* BOOLEAN: may accept() fail for one bad connection (ECONNABORTED)

Kinds == {"ban", "echo", "health", "proxy"}

IsHealth(l) == Default[l] = "health"
At(l) == {c \in Conns : Site[c] = l}

ASSUME ListenersAssumption ==
    /\ IsFiniteSet(Listeners)
    /\ Listeners \cap Conns = {}
    /\ MaxClients \in [Listeners -> Nat]
    /\ Default \in [Listeners -> Kinds]
    /\ Routes \in [Listeners -> SUBSET Kinds]
    /\ \A l \in Listeners : Default[l] \in Routes[l]

ASSUME ConnsAssumption ==
    /\ IsFiniteSet(Conns)
    /\ Site \in [Conns -> Listeners]

\* Every listen address of a server gets the server's settings (Server::from).
ASSUME ServerAssumption ==
    /\ FdLimit \in Nat
    /\ TransientErrors \in BOOLEAN
    /\ \A l, m \in Listeners : ServerOf[l] = ServerOf[m] =>
          /\ MaxClients[l] = MaxClients[m]
          /\ Default[l] = Default[m]
          /\ Routes[l] = Routes[m]

VARIABLES
    main,      \* Server::run: "awaiting" the token, "draining", "exited"; or "killed"
    sig,       \* the task of each signal: "unregistered", "armed", "fired"
    lst,       \* each listener task: "spawned", "select" (its loop), "stopped", "failed"
    readable,  \* the listening sockets tokio takes for ready, queued client or not
    tracked,   \* the tasks the TaskTracker counts: listeners and connections
    permits,   \* free permits of each listener's semaphore
    holds,     \* the connections that own a permit
    stream,    \* the client's socket: "none", "backlog" (kernel queue), "accepted"
               \* (in the hands of the accept loop), "open" (in those of a task)
    task,      \* the connection task: "none", "accept", the kind processed, "return"
    detached   \* the connections served by a detached health task

vars == <<main, sig, lst, readable, tracked, permits, holds, stream, task, detached>>

-----------------------------------------------------------------------------
(* Shared state as the code reads it. *)

Alive == main \in {"awaiting", "draining"}
Cancelled == \E s \in Signals : sig[s] = "fired"
OpenStreams(l) == {c \in At(l) : stream[c] = "open"}
OpenFds == Cardinality({c \in Conns : stream[c] \in {"accepted", "open"}})

\* A proxied connection may hold a second descriptor, for its upstream.
MostFds == OpenFds + Cardinality({c \in Conns : task[c] = "proxy"})
Handling == {"accept", "ban", "echo", "proxy"}

\* What /metrics reports as tpt_active_connections for l.
Gauge(l) == MaxClients[l] - permits[l]

\* The connections that the accept loop has accepted and not yet passed on.
InHand(l) == {c \in At(l) : stream[c] = "accepted"}

\* TcpListener dropped: the kernel resets what it still queued.
FlushBacklog(l) ==
    /\ readable' = readable \ {l}
    /\ stream' = [c \in Conns |-> IF Site[c] = l /\ stream[c] = "backlog"
                                  THEN "none" ELSE stream[c]]

TypeOK ==
    /\ main \in {"awaiting", "draining", "exited", "killed"}
    /\ sig \in [Signals -> {"unregistered", "armed", "fired"}]
    /\ lst \in [Listeners -> {"spawned", "select", "stopped", "failed"}]
    /\ readable \subseteq Listeners
    /\ tracked \subseteq Listeners \cup Conns
    /\ permits \in [Listeners -> Nat]
    /\ holds \subseteq Conns
    /\ stream \in [Conns -> {"none", "backlog", "accepted", "open"}]
    /\ task \in [Conns -> {"none", "return"} \cup Handling]
    /\ detached \subseteq Conns

\* Both spawn loops of run() are done; none of the tasks has run yet.
Init ==
    /\ main = "awaiting"
    /\ sig = [s \in Signals |-> "unregistered"]
    /\ lst = [l \in Listeners |-> "spawned"]
    /\ readable = {}
    /\ tracked = Listeners
    /\ permits = MaxClients
    /\ holds = {}
    /\ stream = [c \in Conns |-> "none"]
    /\ task = [c \in Conns |-> "none"]
    /\ detached = {}

-----------------------------------------------------------------------------
(* Signals. *)

Register(s) ==
    /\ Alive
    /\ sig[s] = "unregistered"
    /\ sig' = [sig EXCEPT ![s] = "armed"]
    /\ UNCHANGED <<main, lst, readable, tracked, permits, holds, stream, task, detached>>

\* The first signal of a kind ends its task; later ones are swallowed, because
\* the handler stays installed and nobody reads it.
Signal(s) ==
    /\ Alive
    /\ sig[s] = "armed"
    /\ sig' = [sig EXCEPT ![s] = "fired"]
    /\ UNCHANGED <<main, lst, readable, tracked, permits, holds, stream, task, detached>>

\* Before its task has run, a signal still has the default action of the OS.
Kill(s) ==
    /\ Alive
    /\ sig[s] = "unregistered"
    /\ main' = "killed"
    /\ UNCHANGED <<sig, lst, readable, tracked, permits, holds, stream, task, detached>>

-----------------------------------------------------------------------------
(* The accept loop of a listener. *)

Bind(l) ==
    /\ Alive
    /\ lst[l] = "spawned"
    /\ lst' = [lst EXCEPT ![l] = "select"]
    /\ UNCHANGED <<main, sig, readable, tracked, permits, holds, stream, task, detached>>

\* bind() failed or the protocol is unknown: logged, and the task is over.
BindFails(l) ==
    /\ Alive
    /\ lst[l] = "spawned"
    /\ lst' = [lst EXCEPT ![l] = "failed"]
    /\ tracked' = tracked \ {l}
    /\ UNCHANGED <<main, sig, readable, permits, holds, stream, task, detached>>

\* The kernel completes a handshake; a slot is free when nothing serves it.
Arrive(c) ==
    /\ Alive
    /\ lst[Site[c]] = "select"
    /\ stream[c] = "none" /\ task[c] = "none"
    /\ stream' = [stream EXCEPT ![c] = "backlog"]
    /\ readable' = readable \cup {Site[c]}
    /\ UNCHANGED <<main, sig, lst, tracked, permits, holds, task, detached>>

\* The loop is at its select!, with no accepted connection left to pass on.
Selects(l) ==
    /\ Alive
    /\ lst[l] = "select"
    /\ InHand(l) = {}

\* The accept branch: accept() is tried on a socket that is ready, and takes a
\* descriptor. Once the token is cancelled the other branch may be taken as well.
Accept(c) ==
    /\ Selects(Site[c])
    /\ Site[c] \in readable
    /\ stream[c] = "backlog"
    /\ OpenFds < FdLimit
    /\ stream' = [stream EXCEPT ![c] = "accepted"]
    /\ UNCHANGED <<main, sig, lst, readable, tracked, permits, holds, task, detached>>

\* After a client the socket counts as ready still: accept() is tried again, and
\* only WouldBlock makes the loop wait for the kernel's next notice.
WouldBlock(l) ==
    /\ Selects(l)
    /\ l \in readable
    /\ \A c \in At(l) : stream[c] # "backlog"
    /\ OpenFds < FdLimit
    /\ readable' = readable \ {l}
    /\ UNCHANGED <<main, sig, lst, tracked, permits, holds, stream, task, detached>>

\* try_acquire_owned(): the answer, and what it changes.
HasPermitUnchecked(l) == TRUE                                       \* mutant
HasPermitToSpare(l) == permits[l] > 1                               \* mutant
HasPermit(l) == permits[l] > 0

TakePermit(c) ==
    /\ permits' = [permits EXCEPT ![Site[c]] = @ - 1]
    /\ holds' = holds \cup {c}

ForgetPermit(c) == holds' = holds \ {c} /\ UNCHANGED permits        \* mutant
GivePermit(c) ==
    /\ permits' = [permits EXCEPT ![Site[c]] = @ + 1]
    /\ holds' = holds \ {c}

\* An accepted connection that counts, before its permit is asked for.
AsksPermit(c) ==
    /\ Alive
    /\ stream[c] = "accepted"
    /\ ~IsHealth(Site[c])
    /\ c \notin holds

\* The permit is taken; the task it is for does not exist yet.
AdmitClient(c) ==
    /\ AsksPermit(c)
    /\ HasPermit(Site[c])
    /\ TakePermit(c)
    /\ UNCHANGED <<main, sig, lst, readable, tracked, stream, task, detached>>

\* acquire_owned().await instead: nobody is ever turned away.
RejectNobody(c) == AsksPermit(c) /\ FALSE /\ UNCHANGED vars          \* mutant

\* try_acquire_owned failed: the stream is dropped and the loop goes on.
RejectClient(c) ==
    /\ AsksPermit(c)
    /\ ~HasPermit(Site[c])
    /\ stream' = [stream EXCEPT ![c] = "none"]
    /\ UNCHANGED <<main, sig, lst, readable, tracked, permits, holds, task, detached>>

\* tracker.spawn of accept(stream, proxy).
TrackNothing(c) == UNCHANGED tracked                                \* mutant
Track(c) == tracked' = tracked \cup {c}

\* With its permit, or without one on a health listener, the stream gets a task.
SpawnConn(c) ==
    /\ Alive
    /\ stream[c] = "accepted"
    /\ IsHealth(Site[c]) \/ c \in holds
    /\ Track(c)
    /\ task' = [task EXCEPT ![c] = "accept"]
    /\ stream' = [stream EXCEPT ![c] = "open"]
    /\ UNCHANGED <<main, sig, lst, readable, permits, holds, detached>>

\* accept() failed with anything but WouldBlock: the accept loop returns.
LoopFails(l) ==
    /\ Selects(l)
    /\ lst' = [lst EXCEPT ![l] = "failed"]
    /\ tracked' = tracked \ {l}
    /\ FlushBacklog(l)
    /\ UNCHANGED <<main, sig, permits, holds, task, detached>>

\* It does for one bad connection, or on a ready socket when no descriptor may be
\* left: the kernel allocates one before it looks for a client.
AcceptError(l) ==
    /\ \/ TransientErrors /\ \E c \in At(l) : stream[c] = "backlog"
       \/ l \in readable /\ MostFds >= FdLimit
    /\ LoopFails(l)

\* select! sees the cancelled token; a biased select! would look at the queue first.
SeesTokenWhenIdle(l) ==                                             \* mutant
    Cancelled /\ \A c \in At(l) : stream[c] # "backlog"
SeesToken(l) == Cancelled

StopListening(l) ==
    /\ Selects(l)
    /\ SeesToken(l)
    /\ lst' = [lst EXCEPT ![l] = "stopped"]
    /\ tracked' = tracked \ {l}
    /\ FlushBacklog(l)
    /\ UNCHANGED <<main, sig, permits, holds, task, detached>>

-----------------------------------------------------------------------------
(* A connection task: accept() routes it, Upstream::process serves it. *)

\* ban, echo and proxy own the stream until process returns.
Route(c) ==
    /\ Alive
    /\ task[c] = "accept"
    /\ \E k \in Routes[Site[c]] \ {"health"} : task' = [task EXCEPT ![c] = k]
    /\ UNCHANGED <<main, sig, lst, readable, tracked, permits, holds, stream, detached>>

\* health hands the stream to a task of its own and returns at once.
RouteToHealth(c) ==
    /\ Alive
    /\ task[c] = "accept"
    /\ "health" \in Routes[Site[c]]
    /\ task' = [task EXCEPT ![c] = "return"]
    /\ detached' = detached \cup {c}
    /\ UNCHANGED <<main, sig, lst, readable, tracked, permits, holds, stream>>

\* peer_addr or peek failed: accept returns early and drops the stream.
AcceptFails(c) ==
    /\ Alive
    /\ task[c] = "accept"
    /\ task' = [task EXCEPT ![c] = "return"]
    /\ stream' = [stream EXCEPT ![c] = "none"]
    /\ UNCHANGED <<main, sig, lst, readable, tracked, permits, holds, detached>>

\* process returned, Ok or Err: the stream is gone before the permit is.
ProcessEnds(c) ==
    /\ Alive
    /\ task[c] \in {"ban", "echo", "proxy"}
    /\ task' = [task EXCEPT ![c] = "return"]
    /\ stream' = [stream EXCEPT ![c] = "none"]
    /\ UNCHANGED <<main, sig, lst, readable, tracked, permits, holds, detached>>

\* drop(permit). A permit that is not moved into the task is dropped before.
ReleaseBeforeReturn(c) ==                                           \* mutant
    /\ Alive
    /\ task[c] # "none"
    /\ c \in holds
    /\ GivePermit(c)
    /\ UNCHANGED <<main, sig, lst, readable, tracked, stream, task, detached>>
ReleasePermit(c) ==
    /\ Alive
    /\ task[c] = "return"
    /\ c \in holds
    /\ GivePermit(c)
    /\ UNCHANGED <<main, sig, lst, readable, tracked, stream, task, detached>>

\* The task is finished and the tracker forgets it.
EndTask(c) ==
    /\ Alive
    /\ task[c] = "return"
    /\ c \notin holds
    /\ task' = [task EXCEPT ![c] = "none"]
    /\ tracked' = tracked \ {c}
    /\ UNCHANGED <<main, sig, lst, readable, permits, holds, stream, detached>>

\* The HTTP connection of a health check is over.
HealthDone(c) ==
    /\ Alive
    /\ c \in detached
    /\ detached' = detached \ {c}
    /\ stream' = [stream EXCEPT ![c] = "none"]
    /\ UNCHANGED <<main, sig, lst, readable, tracked, permits, holds, task>>

-----------------------------------------------------------------------------
(* Shutdown. *)

\* token.cancelled() resolved: tracker.close(), then tracker.wait().
StartDrain ==
    /\ main = "awaiting"
    /\ Cancelled
    /\ main' = "draining"
    /\ UNCHANGED <<sig, lst, readable, tracked, permits, holds, stream, task, detached>>

\* What tracker.wait() waits for.
ListenersGone == tracked \cap Listeners = {}                        \* mutant
TrackerEmpty == tracked = {}

\* run returns and the runtime drops every detached task with its stream.
FinishDrain ==
    /\ main = "draining"
    /\ TrackerEmpty
    /\ main' = "exited"
    /\ UNCHANGED <<sig, lst, readable, tracked, permits, holds, stream, task, detached>>

\* The process is gone.
Terminated ==
    /\ ~Alive
    /\ UNCHANGED vars

Listener(l) == Bind(l) \/ BindFails(l) \/ WouldBlock(l) \/ AcceptError(l) \/ StopListening(l)
PassOn(c) == AdmitClient(c) \/ RejectClient(c) \/ SpawnConn(c)
AcceptLoop(c) == Accept(c) \/ PassOn(c)
Serving(c) == Route(c) \/ RouteToHealth(c) \/ AcceptFails(c) \/ ProcessEnds(c)
Returning(c) == ReleasePermit(c) \/ EndTask(c)

Next ==
    \/ \E s \in Signals : Register(s) \/ Signal(s) \/ Kill(s)
    \/ \E l \in Listeners : Listener(l)
    \/ \E c \in Conns : Arrive(c) \/ AcceptLoop(c) \/ Serving(c)
                           \/ Returning(c) \/ HealthDone(c)
    \/ StartDrain
    \/ FinishDrain
    \/ Terminated

(* The scheduler runs every ready task (WF). A loop comes back to its      *)
(* select! between two connections only, so what it does there is enabled  *)
(* again and again, not all the time (SF): the kernel's accept queue is    *)
(* FIFO, so a queued connection is reached, and select! chooses among the  *)
(* ready branches at random, so a cancelled token is seen. WF of           *)
(* Serving(c) is about the client and the upstream, not the proxy: a peer  *)
(* sends, answers or closes at last; no idle timeout would make it so.     *)
Fairness ==
    /\ \A l \in Listeners : /\ WF_vars(Bind(l) \/ BindFails(l))
                            /\ SF_vars(StopListening(l))
    /\ \A c \in Conns : /\ SF_vars(stream[c] = "backlog" /\ (Accept(c) \/ AcceptError(Site[c])))
                        /\ WF_vars(PassOn(c))
                        /\ WF_vars(Serving(c))
                        /\ WF_vars(Returning(c))
    /\ WF_vars(StartDrain)
    /\ WF_vars(FinishDrain)

SafetySpec == Init /\ [][Next]_vars
Spec == SafetySpec /\ Fairness

-----------------------------------------------------------------------------
(* Invariants. *)

Holding(l) == {c \in holds : Site[c] = l}

\* Every permit is free or owned by exactly one live task of a limited listener,
\* or by a connection that its accept loop is about to spawn: none is lost on an
\* early return, none is returned twice (tcp.rs, try_acquire_owned to drop(permit)).
PermitConservation ==
    /\ \A l \in Listeners : permits[l] + Cardinality(Holding(l)) = MaxClients[l]
    /\ \A c \in holds : ~IsHealth(Site[c]) /\ (task[c] # "none" \/ stream[c] = "accepted")

\* A limited listener never has more client streams in the hands of its
\* connection tasks than maxclients (tcp.rs 58-79). Streams its routes gave to
\* a detached health task are outside the limit.
LimitHolds ==
    \A l \in Listeners : ~IsHealth(l) =>
        Cardinality(OpenStreams(l) \ detached) <= MaxClients[l]

\* On a limited listener tpt_active_connections is no less than the connections
\* being handled, and no more than the connection tasks alive and the one that
\* its accept loop has in hand, whenever it is read (upstreams/mod.rs 123-132).
GaugeCountsClients ==
    \A l \in Listeners : ~IsHealth(l) =>
        /\ Cardinality({c \in At(l) : task[c] \in Handling}) <= Gauge(l)
        /\ Gauge(l) <= Cardinality({c \in At(l) : task[c] # "none"})
                          + (IF InHand(l) = {} THEN 0 ELSE 1)

\* When run() has returned, no listener accepts, no permit is out, no client is
\* left in a queue or in the hands of a loop, and every stream was closed by its
\* own task; only a detached health task can still have one (servers/mod.rs 100-103).
DrainComplete ==
    main = "exited" =>
        /\ \A l \in Listeners : lst[l] \in {"stopped", "failed"}
        /\ holds = {}
        /\ \A c \in Conns : stream[c] # "none" => stream[c] = "open" /\ c \in detached

\* A connection is dropped by the accept loop only on a limited listener all of
\* whose permits are owned by live tasks (tcp.rs 58-72).
RejectOnlyAtCapacity ==
    [][\A c \in Conns :
          (stream[c] \in {"backlog", "accepted"} /\ stream'[c] = "none" /\ lst' = lst) =>
              /\ ~IsHealth(Site[c])
              /\ Cardinality({d \in Holding(Site[c]) : task[d] # "none"})
                    = MaxClients[Site[c]]]_vars

-----------------------------------------------------------------------------
(* Liveness. *)

\* No connection waits for a permit, in the kernel's queue or in the hands of the
\* accept loop: it is served, refused, or reset by a closing listener (tcp.rs 58-61).
BacklogAnswered ==
    \A c \in Conns :
        stream[c] \in {"backlog", "accepted"} ~> (stream[c] \in {"none", "open"} \/ ~Alive)

-----------------------------------------------------------------------------
(* The inductive invariant behind the safety properties. *)

\* The tracker counts exactly the tasks that exist.
TrackerExact ==
    tracked = {l \in Listeners : lst[l] \in {"spawned", "select"}}
                 \cup {c \in Conns : task[c] # "none"}

\* A task that handles a stream of a limited listener owns a permit, an open
\* stream has exactly one owner, and one on its way to a task belongs to a loop
\* that will look for it.
Ownership ==
    \A c \in Conns :
        /\ task[c] \in Handling => stream[c] = "open" /\ c \notin detached
        /\ task[c] \in Handling /\ ~IsHealth(Site[c]) => c \in holds
        /\ stream[c] = "open" => task[c] \in Handling \/ c \in detached
        /\ c \in detached => stream[c] = "open"
        /\ stream[c] \in {"backlog", "accepted"} => task[c] = "none" /\ lst[Site[c]] = "select"
        /\ stream[c] = "backlog" => Site[c] \in readable

\* An accept loop passes a connection on before it accepts the next one.
OneInHand ==
    \A c, d \in Conns :
        stream[c] = "accepted" /\ stream[d] = "accepted" /\ Site[c] = Site[d] => c = d

\* run() returns only when the tracker is empty.
ExitEmpty == main = "exited" => tracked = {}

ServerInv ==
    /\ TypeOK
    /\ PermitConservation
    /\ TrackerExact
    /\ Ownership
    /\ OneInHand
    /\ ExitEmpty

-----------------------------------------------------------------------------
(* The process implements the service it promises to be. *)

Phase ==
    CASE main = "killed"             -> "killed"
      [] main = "exited"             -> "down"
      [] main = "awaiting" /\ ~Cancelled -> "up"
      [] OTHER                       -> "draining"

OpenDoors == {l \in Listeners : lst[l] \in {"spawned", "select"}}

\* A session of a limited door lasts as long as its permit, a session of a
\* health door as long as its task.
ActiveSessions == holds \cup {c \in Conns : IsHealth(Site[c]) /\ task[c] # "none"}

Service == INSTANCE DrainingService WITH
    Doors    <- Listeners,
    Sessions <- Conns,
    Door     <- Site,
    Limited  <- {l \in Listeners : ~IsHealth(l)},
    Limit    <- MaxClients,
    phase    <- Phase,
    open     <- OpenDoors,
    active   <- ActiveSessions

-----------------------------------------------------------------------------
(* What comments and documents say, and the code does not keep. *)

\* README.md 14: maxclients limits the connections of a server.
ServerLimitHolds ==
    \A l \in Listeners : ~IsHealth(l) =>
        Cardinality({c \in Conns : /\ ServerOf[Site[c]] = ServerOf[l]
                                  /\ stream[c] = "open"}) <= MaxClients[l]

\* servers/mod.rs 58-59: active connections drain before the process exits.
ExitCutsNothing == main = "exited" => \A c \in Conns : stream[c] # "open"

\* tcp.rs 25-26: health checks succeed regardless of connection load, so only
\* a shutdown ends a health listener that is bound.
HealthListenerStays ==
    [][\A l \in Listeners : IsHealth(l) /\ lst[l] = "select" /\ ~Cancelled
                               => lst'[l] = "select"]_vars

=============================================================================
