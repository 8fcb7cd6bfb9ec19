------------------------------- MODULE Gateway -------------------------------
(***************************************************************************)
(* Server composed with what its connection tasks wait for: the client's   *)
(* first bytes, the resolver, the upstream's connect and CONNECT answer,   *)
(* and both ends of a relay. Every step of a task here is a step of Server *)
(* or invisible to it; in exchange nothing is assumed of a peer, and the   *)
(* upstream sockets count against the descriptors of the accept loops.     *)
(***************************************************************************)
EXTENDS Server

CONSTANTS
    Tls,       \* the listeners that peek at the ClientHello
    Via        \* [Listeners -> SUBSET BOOLEAN]: may a route have a CONNECT target

ASSUME GatewayAssumption ==
    /\ Tls \subseteq Listeners
    /\ Via \in [Listeners -> (SUBSET BOOLEAN) \ {{}}]

VARIABLES
    step,      \* where process() is: "none", "resolve", "connect", "answer", "relay"
    client,    \* what the client did: "silent", "spoke", "finished" (it sends no more,
               \* and may read no more), "gone" for good; "none" without one
    remote     \* the upstream's socket: "none", "silent", "agreed", or gone, before
               \* it agreed ("gone") or after ("left")

peers == <<step, client, remote>>
allVars == <<vars, step, client, remote>>

GatewayTypeOK ==
    /\ step \in [Conns -> {"none", "resolve", "connect", "answer", "relay"}]
    /\ client \in [Conns -> {"none", "silent", "spoke", "finished", "gone"}]
    /\ \A c \in Conns : client[c] = "none" <=> stream[c] = "none"
    /\ remote \in [Conns -> {"none", "silent", "agreed", "gone", "left"}]

GatewayInit ==
    /\ Init
    /\ step = [c \in Conns |-> "none"]
    /\ client = [c \in Conns |-> "none"]
    /\ remote = [c \in Conns |-> "none"]

\* The descriptors the connections use, upstream sockets included.
Sockets == OpenFds + Cardinality({c \in Conns : remote[c] # "none"})

\* A client whose socket is closed is forgotten with it.
ForgetClosed ==
    client' = [c \in Conns |-> IF stream'[c] = "none" THEN "none" ELSE client[c]]

-----------------------------------------------------------------------------
(* The peers, of whom nothing is assumed. *)

ClientArrives(c) ==
    /\ Arrive(c)
    /\ client' = [client EXCEPT ![c] = "silent"]
    /\ UNCHANGED <<step, remote>>

ClientSpeaks(c) ==
    /\ Alive
    /\ client[c] = "silent"
    /\ client' = [client EXCEPT ![c] = "spoke"]
    /\ UNCHANGED <<vars, step, remote>>

\* It shuts its sending half down, and goes on reading or not.
ClientFinishes(c) ==
    /\ Alive
    /\ client[c] \in {"silent", "spoke"}
    /\ client' = [client EXCEPT ![c] = "finished"]
    /\ UNCHANGED <<vars, step, remote>>

\* It closes or resets the connection.
ClientLeaves(c) ==
    /\ Alive
    /\ client[c] \in {"silent", "spoke", "finished"}
    /\ client' = [client EXCEPT ![c] = "gone"]
    /\ UNCHANGED <<vars, step, remote>>

\* The upstream answers a CONNECT with a complete 2xx header.
RemoteAgrees(c) ==
    /\ Alive
    /\ step[c] = "answer" /\ remote[c] = "silent"
    /\ remote' = [remote EXCEPT ![c] = "agreed"]
    /\ UNCHANGED <<vars, step, client>>

\* It refuses, closes, or resets.
RemoteLeaves(c) ==
    /\ Alive
    /\ remote[c] \in {"silent", "agreed"}
    /\ remote' = [remote EXCEPT ![c] = IF @ = "agreed" THEN "left" ELSE "gone"]
    /\ UNCHANGED <<vars, step, client>>

Finished(c) == client[c] \in {"finished", "gone"}
RemoteGone(c) == remote[c] \in {"gone", "left"}

-----------------------------------------------------------------------------
(* The accept loops and the process, as in Server. *)

HasDescriptor == Sockets < FdLimit

Accepted(c) ==
    /\ HasDescriptor
    /\ Accept(c)
    /\ UNCHANGED peers

PassedOn(c) ==
    /\ PassOn(c)
    /\ ForgetClosed
    /\ UNCHANGED <<step, remote>>

AcceptBlocks(l) ==
    /\ HasDescriptor
    /\ WouldBlock(l)
    /\ UNCHANGED peers

AcceptBroken(l) ==
    /\ \/ TransientErrors /\ \E c \in At(l) : stream[c] = "backlog"
       \/ l \in readable /\ ~HasDescriptor
    /\ LoopFails(l)
    /\ ForgetClosed
    /\ UNCHANGED <<step, remote>>

ListenerStep(l) ==
    /\ Bind(l) \/ BindFails(l) \/ StopListening(l)
    /\ ForgetClosed
    /\ UNCHANGED <<step, remote>>

ProcessStep ==
    /\ \/ \E s \in Signals : Register(s) \/ Signal(s) \/ Kill(s)
       \/ StartDrain
       \/ FinishDrain
       \/ Terminated
    /\ UNCHANGED peers

\* A detached health task ends with its client, or ends the connection itself
\* after a request that asks for it or that it cannot parse.
HealthEnds(c) ==
    /\ client[c] # "silent"
    /\ HealthDone(c)
    /\ ForgetClosed
    /\ UNCHANGED <<step, remote>>

-----------------------------------------------------------------------------
(* A connection task: tcp.rs accept(), then the process() of its upstream. *)

\* peek() has returned: the client's first bytes are there, or it is gone.
PeeksToEof(c) == Site[c] \notin Tls \/ Finished(c)                  \* mutant
Peeked(c) == Site[c] \notin Tls \/ client[c] # "silent"

Routed(c) ==
    /\ Peeked(c)
    /\ Route(c) \/ RouteToHealth(c)
    /\ step' = [step EXCEPT ![c] = IF task'[c] = "proxy" THEN "resolve" ELSE "none"]
    /\ UNCHANGED <<client, remote>>

\* peer_addr() or peek() fails on a connection that is gone; a health listener
\* asks for no peer_addr().
AcceptBreaks(c) ==
    /\ client[c] = "gone"
    /\ ~IsHealth(Site[c]) \/ Site[c] \in Tls
    /\ AcceptFails(c)
    /\ ForgetClosed
    /\ UNCHANGED <<step, remote>>

\* process() returns: both of its streams are dropped.
KeepRemote(c) == UNCHANGED remote                                   \* mutant
DropRemote(c) == remote' = [remote EXCEPT ![c] = "none"]

Ended(c) ==
    /\ ProcessEnds(c)
    /\ step' = [step EXCEPT ![c] = "none"]
    /\ DropRemote(c)
    /\ ForgetClosed

BanEnds(c) == task[c] = "ban" /\ Ended(c)

\* echo copies until the client's end of file, or an error; before it ends, the
\* client has to read what it is still sent, or to leave.
EchoEnds(c) == task[c] = "echo" /\ Finished(c) /\ Ended(c)

\* resolve() answers, from the cache or the resolver; or fails.
Resolved(c) ==
    /\ Alive
    /\ step[c] = "resolve"
    /\ \/ step' = [step EXCEPT ![c] = "connect"] /\ UNCHANGED <<vars, client, remote>>
       \/ Ended(c)

\* The socket of the connect is a descriptor of its own. With a CONNECT target
\* the relay waits for the upstream's answer.
Connects(c) ==
    /\ Alive
    /\ step[c] = "connect"
    /\ HasDescriptor
    /\ remote' = [remote EXCEPT ![c] = "silent"]
    /\ \E via \in Via[Site[c]] : step' = [step EXCEPT ![c] = IF via THEN "answer" ELSE "relay"]
    /\ UNCHANGED <<vars, client>>

\* Refused, timed out, or no descriptor left.
ConnectNever(c) == step[c] = "connect" /\ FALSE /\ Ended(c)         \* mutant
ConnectEnds(c) == step[c] = "connect" /\ Ended(c)

\* A complete 2xx header is read, though the upstream may have closed after it.
AnyAnswer(c) == remote[c] # "silent"                                \* mutant
GoodAnswer(c) == remote[c] \in {"agreed", "left"}

Agrees(c) ==
    /\ Alive
    /\ step[c] = "answer" /\ GoodAnswer(c)
    /\ step' = [step EXCEPT ![c] = "relay"]
    /\ UNCHANGED <<vars, client, remote>>

\* It needs no answer to fail: a header of the request may name an unset
\* environment variable, or what has come of the reply may fill its buffer.
RefusedThenRetries(c) ==                                             \* mutant
    /\ Alive
    /\ step[c] = "answer"
    /\ step' = [step EXCEPT ![c] = "connect"]
    /\ DropRemote(c)
    /\ UNCHANGED <<vars, client>>
Refused(c) == step[c] = "answer" /\ Ended(c)

\* The relay ends once both ends have finished and read what was left, or have
\* left for good; one that left is enough if the other one still sends, which
\* fails the write. That the upstream only finished is not told apart.
BothGone(c) == client[c] = "gone" /\ RemoteGone(c)
RelayEnds(c) ==
    /\ step[c] = "relay"
    /\ Finished(c) \/ RemoteGone(c)
    /\ Ended(c)

Returns(c) ==
    /\ Returning(c)
    /\ UNCHANGED peers

-----------------------------------------------------------------------------

Peer(c) == ClientArrives(c) \/ ClientSpeaks(c) \/ ClientFinishes(c) \/ ClientLeaves(c)
              \/ RemoteAgrees(c) \/ RemoteLeaves(c)
Tunnels(c) == Resolved(c) \/ Connects(c) \/ ConnectEnds(c)
                 \/ Agrees(c) \/ Refused(c) \/ RelayEnds(c)
TaskOf(c) == Routed(c) \/ AcceptBreaks(c) \/ BanEnds(c) \/ EchoEnds(c)
                \/ Tunnels(c) \/ Returns(c)

GatewayNext ==
    \/ \E c \in Conns : Peer(c) \/ Accepted(c) \/ PassedOn(c) \/ TaskOf(c) \/ HealthEnds(c)
    \/ \E l \in Listeners : AcceptBlocks(l) \/ AcceptBroken(l) \/ ListenerStep(l)
    \/ ProcessStep

\* The scheduler, the kernel's queue and the random select!, as in Server, and the
\* timer of the connect. An answer is only read once it has come; echo is only made
\* to end once its client has left for good, and the relay once both ends have.
GatewayFairness ==
    /\ \A l \in Listeners : /\ WF_allVars(ListenerStep(l) /\ (Bind(l) \/ BindFails(l)))
                            /\ SF_allVars(ListenerStep(l) /\ StopListening(l))
    /\ \A c \in Conns : /\ SF_allVars(stream[c] = "backlog" /\ (Accepted(c) \/ AcceptBroken(Site[c])))
                        /\ WF_allVars(PassedOn(c))
                        /\ WF_allVars(Routed(c) \/ AcceptBreaks(c))
                        /\ WF_allVars(BanEnds(c) \/ (client[c] = "gone" /\ EchoEnds(c)))
                        /\ WF_allVars(Connects(c) \/ ConnectEnds(c))
                        /\ WF_allVars(Agrees(c) \/ (remote[c] # "silent" /\ Refused(c)))
                        /\ WF_allVars(RelayEnds(c) /\ BothGone(c))
                        /\ WF_allVars(Returns(c))
    /\ WF_allVars(ProcessStep /\ StartDrain)
    /\ WF_allVars(ProcessStep /\ FinishDrain)

GatewaySafety == GatewayInit /\ [][GatewayNext]_allVars
GatewaySpec == GatewaySafety /\ GatewayFairness

-----------------------------------------------------------------------------
(* Properties. *)

\* Every upstream socket belongs to a connection task in its relay or on the way
\* there, so they are within maxclients too, whatever way process() returns and
\* whenever it does (proxy_to_upstream/mod.rs 45-91, tcp.rs 74-79).
OutboundOwned ==
    /\ \A c \in Conns : (remote[c] # "none") <=> (step[c] \in {"answer", "relay"})
    /\ \A c \in Conns : step[c] # "none" <=> task[c] = "proxy"
    /\ \A l \in Listeners : ~IsHealth(l) =>
          Cardinality({c \in At(l) : remote[c] # "none"}) <= MaxClients[l]

\* Where an accepted connection is, and the steps it has at most before it is over.
Place(c) ==
    IF stream[c] = "accepted" THEN IF c \in holds THEN "admitted" ELSE "accepted"
    ELSE IF task[c] = "proxy" THEN step[c]
    ELSE IF task[c] = "return" THEN IF c \in holds THEN "release" ELSE "end"
    ELSE task[c]

StepsFrom == [accepted |-> 9, admitted |-> 8, accept |-> 7, resolve |-> 6, connect |-> 5,
              answer |-> 4, relay |-> 3, ban |-> 3, echo |-> 3, release |-> 2, end |-> 1,
              none |-> 0]

\* The drain only shrinks: every step of an accept loop with a connection, and of
\* its task, whichever way it fails, brings that one nearer to its end, and only a
\* listener that is still tracked accepts another. No task retries, waits for its
\* permit again, or comes back (tcp.rs 29-96, proxy_to_upstream/mod.rs 45-91,
\* servers/mod.rs 100-103).
DrainShrinks ==
    [][/\ \A c \in Conns : Place(c)' # Place(c) =>
             IF Place(c) = "none" THEN Site[c] \in tracked
             ELSE StepsFrom[Place(c)'] < StepsFrom[Place(c)]
       /\ tracked' \cap Listeners \subseteq tracked]_allVars

\* The next step of a connection is a peer's: the code has no timeout for it.
WaitsForPeer(c) ==
    \/ task[c] = "accept" /\ Site[c] \in Tls /\ client[c] = "silent"
    \/ task[c] = "echo" /\ client[c] # "gone"
    \/ step[c] = "resolve"
    \/ step[c] = "answer" /\ remote[c] = "silent"
    \/ step[c] = "relay" /\ ~BothGone(c)

\* A connection task, and the permit it owns, lasts for ever only if a peer stays
\* silent for ever; never for want of a permit, of a descriptor, of a turn in the
\* accept loop, or in a connect (tcp.rs 105, connect.rs 26, http.rs 54, relay.rs 79).
TaskHeldOnlyByPeers ==
    \A c \in Conns : <>[](Alive /\ task[c] # "none") => <>[]WaitsForPeer(c)

\* A shutdown that does not end is held up by a connection whose peer stays silent
\* for ever: nothing else keeps run() in tracker.wait(), and without such a peer
\* one signal is enough (servers/mod.rs 69, 96-106).
DrainHeldOnlyByPeers ==
    <>[](Alive /\ Cancelled) => \E c \in Conns : <>[](c \in tracked /\ WaitsForPeer(c))

\* Peers that leave in the end, and a resolver that answers.
PeersAct ==
    \A c \in Conns : /\ WF_allVars(ClientLeaves(c))
                     /\ WF_allVars(RemoteLeaves(c))
                     /\ WF_allVars(Resolved(c))

\* With such peers the process is the DrainingService, liveness included: every
\* session and every door ends (servers/mod.rs 51-108, tcp.rs 29-81).
ImplementsService == Service!SafetySpec /\ (PeersAct => Service!Fairness)

\* Server is a correct abstraction of the tasks: with the fairness it assumes,
\* once peers act; that a connection is served in the end, above all
\* (tcp.rs 83-195, upstreams/mod.rs 52-108).
ImplementsServer == SafetySpec /\ (PeersAct => Fairness)

\* process() as Tunnel implements it too.
Awaited == INSTANCE ProxySession WITH
    Sessions <- Conns,
    step     <- step,
    gone     <- {c \in Conns : step[c] # "none" /\ Finished(c)},
    remote   <- remote

\* The steps of the tasks that await a tunnel, interleaved, are those of as many
\* ProxySessions, each of its own: one that ends in whichever step takes its
\* upstream socket along and touches no other (proxy_to_upstream/mod.rs 45-91).
ImplementsSession == Awaited!SafetySpec
=============================================================================
