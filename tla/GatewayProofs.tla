---------------------------- MODULE GatewayProofs ----------------------------
(***************************************************************************)
(* For every set of listeners, clients and routes, every limit and every   *)
(* number of descriptors: a connection task with its peers is the task of  *)
(* Server, so what ServerProofs proves of Server holds of Gateway too, and *)
(* its upstream sockets stay within the permits.                           *)
(***************************************************************************)
EXTENDS Gateway, ServerProofs

\* A task is in process() of a proxy upstream exactly while it has a step there,
\* and has an upstream socket exactly in the steps that use one.
StepsOwned ==
    \A c \in Conns :
        /\ (remote[c] # "none") <=> (step[c] \in {"answer", "relay"})
        /\ step[c] # "none" <=> task[c] = "proxy"

GatewayInv ==
    /\ ServerInv
    /\ GatewayTypeOK
    /\ StepsOwned

-----------------------------------------------------------------------------
(* Descriptors. *)

\* What Server takes for the most descriptors in use is no less than what is.
LEMMA SocketsBound ==
    ASSUME StepsOwned
    PROVE  /\ OpenFds \in Nat /\ Sockets \in Nat /\ MostFds \in Nat
           /\ OpenFds <= Sockets /\ Sockets <= MostFds
<1>. DEFINE Streams == {c \in Conns : stream[c] \in {"accepted", "open"}}
            Remotes == {c \in Conns : remote[c] # "none"}
            Proxied == {c \in Conns : task[c] = "proxy"}
<1>1. Remotes \subseteq Proxied BY DEF StepsOwned
<1>2. IsFiniteSet(Streams) /\ IsFiniteSet(Remotes) /\ IsFiniteSet(Proxied)
  <2>1. Streams \subseteq Conns /\ Remotes \subseteq Conns /\ Proxied \subseteq Conns OBVIOUS
  <2>. QED BY <2>1, FS_Subset, ConnsAssumption
<1>3. /\ Cardinality(Streams) \in Nat /\ Cardinality(Remotes) \in Nat
      /\ Cardinality(Proxied) \in Nat
  BY <1>2, FS_CardinalityType
<1>4. Cardinality(Remotes) <= Cardinality(Proxied) BY <1>1, <1>2, FS_Subset
<1>. QED BY <1>3, <1>4 DEF OpenFds, Sockets, MostFds

-----------------------------------------------------------------------------
(* Every step is a step of Server, or invisible to it. *)

LEMMA LoopIsServers ==
    ASSUME NEW c \in Conns, Accepted(c) \/ PassedOn(c) PROVE AcceptLoop(c)
BY DEF Accepted, PassedOn, AcceptLoop

LEMMA BrokenIsServers ==
    ASSUME StepsOwned, NEW l \in Listeners, AcceptBroken(l) PROVE AcceptError(l)
<1>1. ~HasDescriptor => MostFds >= FdLimit
  BY SocketsBound, ServerAssumption DEF HasDescriptor
<1>. QED BY <1>1 DEF AcceptBroken, AcceptError

LEMMA TaskIsServers ==
    ASSUME NEW c \in Conns, TaskOf(c)
    PROVE  Serving(c) \/ Returning(c) \/ UNCHANGED vars
BY DEF TaskOf, Routed, AcceptBreaks, BanEnds, EchoEnds, Tunnels, Resolved, Connects,
       ConnectEnds, Agrees, Refused, RelayEnds, Returns, Ended, Serving

LEMMA PeerIsServers ==
    ASSUME NEW c \in Conns, Peer(c) \/ HealthEnds(c)
    PROVE  Arrive(c) \/ HealthDone(c) \/ UNCHANGED vars
BY DEF Peer, HealthEnds, ClientArrives, ClientSpeaks, ClientFinishes, ClientLeaves,
       RemoteAgrees, RemoteLeaves

LEMMA NextIsServers ==
    StepsOwned /\ [GatewayNext]_allVars => [Next]_vars
<1>. SUFFICES ASSUME StepsOwned, GatewayNext PROVE [Next]_vars BY DEF allVars
<1>1. ASSUME NEW c \in Conns, Peer(c) \/ Accepted(c) \/ PassedOn(c) \/ TaskOf(c) \/ HealthEnds(c)
      PROVE  [Next]_vars
  BY <1>1, LoopIsServers, TaskIsServers, PeerIsServers DEF Next
<1>2. ASSUME NEW l \in Listeners, AcceptBlocks(l) \/ AcceptBroken(l) \/ ListenerStep(l)
      PROVE  [Next]_vars
  BY <1>2, BrokenIsServers DEF AcceptBlocks, ListenerStep, Listener, Next
<1>3. CASE ProcessStep BY <1>3 DEF ProcessStep, Next
<1>. QED BY <1>1, <1>2, <1>3 DEF GatewayNext

-----------------------------------------------------------------------------
(* The invariant. *)

\* A socket that is closed takes its client along; none is opened meanwhile.
LEMMA ForgetKeepsType ==
    ASSUME GatewayTypeOK, TypeOK', ForgetClosed,
           \A c \in Conns : stream'[c] # "none" => stream[c] # "none",
           step' \in [Conns -> {"none", "resolve", "connect", "answer", "relay"}],
           remote' \in [Conns -> {"none", "silent", "agreed", "gone", "left"}]
    PROVE  GatewayTypeOK'
BY DEF GatewayTypeOK, ForgetClosed, TypeOK

\* process() that returns leaves neither a step nor an upstream socket behind.
LEMMA EndedInv ==
    ASSUME GatewayInv, ServerInv', NEW c \in Conns, Ended(c)
    PROVE  GatewayTypeOK' /\ StepsOwned'
<1>1. /\ stream' = [stream EXCEPT ![c] = "none"]
      /\ task' = [task EXCEPT ![c] = "return"]
      /\ step' = [step EXCEPT ![c] = "none"]
      /\ remote' = [remote EXCEPT ![c] = "none"]
      /\ ForgetClosed
  BY DEF Ended, ProcessEnds, DropRemote
<1>2. GatewayTypeOK'
  BY <1>1, ForgetKeepsType DEF GatewayInv, ServerInv, TypeOK, GatewayTypeOK
<1>3. StepsOwned'
  BY <1>1 DEF GatewayInv, ServerInv, TypeOK, GatewayTypeOK, StepsOwned
<1>. QED BY <1>2, <1>3

LEMMA TaskInv ==
    ASSUME GatewayInv, ServerInv', NEW c \in Conns, TaskOf(c)
    PROVE  GatewayTypeOK' /\ StepsOwned'
<1>. USE DEF GatewayInv, ServerInv
<1>1. CASE Routed(c)
  <2>1. /\ task[c] = "accept" /\ UNCHANGED <<stream, client, remote>>
        /\ \E k \in (Kinds \ {"health"}) \cup {"return"} : task' = [task EXCEPT ![c] = k]
        /\ step' = [step EXCEPT ![c] = IF task'[c] = "proxy" THEN "resolve" ELSE "none"]
    BY <1>1, ListenersAssumption, ConnsAssumption DEF Routed, Route, RouteToHealth
  <2>2. GatewayTypeOK' BY <2>1 DEF GatewayTypeOK
  <2>3. StepsOwned' BY <2>1 DEF GatewayTypeOK, StepsOwned, TypeOK
  <2>. QED BY <2>2, <2>3
<1>2. CASE AcceptBreaks(c)
  <2>1. /\ task[c] = "accept" /\ task' = [task EXCEPT ![c] = "return"]
        /\ stream' = [stream EXCEPT ![c] = "none"]
        /\ ForgetClosed /\ UNCHANGED <<step, remote>>
    BY <1>2 DEF AcceptBreaks, AcceptFails
  <2>2. GatewayTypeOK' BY <2>1, ForgetKeepsType DEF GatewayTypeOK, TypeOK
  <2>3. StepsOwned' BY <2>1 DEF StepsOwned, TypeOK
  <2>. QED BY <2>2, <2>3
<1>3. CASE Ended(c) BY <1>3, EndedInv
<1>4. ASSUME step[c] # "none", UNCHANGED <<vars, client>>,
             \/ step' = [step EXCEPT ![c] = "connect"] /\ step[c] = "resolve" /\ UNCHANGED remote
             \/ step' = [step EXCEPT ![c] = "relay"] /\ step[c] = "answer" /\ UNCHANGED remote
             \/ /\ remote' = [remote EXCEPT ![c] = "silent"]
                /\ \E k \in {"answer", "relay"} : step' = [step EXCEPT ![c] = k]
      PROVE  GatewayTypeOK' /\ StepsOwned'
  BY <1>4 DEF vars, GatewayTypeOK, StepsOwned
<1>5. CASE Resolved(c) /\ ~Ended(c) BY <1>4, <1>5 DEF Resolved
<1>6. CASE Connects(c) BY <1>4, <1>6 DEF Connects
<1>7. CASE Agrees(c) BY <1>4, <1>7 DEF Agrees
<1>8. CASE Returns(c)
  <2>1. /\ task[c] = "return" /\ UNCHANGED <<stream, peers>>
        /\ task' = task \/ task' = [task EXCEPT ![c] = "none"]
    BY <1>8 DEF Returns, Returning, ReleasePermit, EndTask
  <2>2. GatewayTypeOK' BY <2>1 DEF GatewayTypeOK, peers
  <2>3. StepsOwned' BY <2>1 DEF StepsOwned, peers, TypeOK
  <2>. QED BY <2>2, <2>3
<1>. QED
  BY <1>1, <1>2, <1>3, <1>5, <1>6, <1>7, <1>8
     DEF TaskOf, BanEnds, EchoEnds, Tunnels, ConnectEnds, Refused, RelayEnds

LEMMA PeerInv ==
    ASSUME GatewayInv, ServerInv', NEW c \in Conns, Peer(c) \/ HealthEnds(c)
    PROVE  GatewayTypeOK' /\ StepsOwned'
<1>. USE DEF GatewayInv, ServerInv
<1>1. CASE ClientArrives(c)
  <2>1. /\ stream' = [stream EXCEPT ![c] = "backlog"]
        /\ client' = [client EXCEPT ![c] = "silent"] /\ UNCHANGED <<task, step, remote>>
    BY <1>1 DEF ClientArrives, Arrive
  <2>. QED BY <2>1 DEF GatewayTypeOK, StepsOwned, TypeOK
<1>2. CASE ClientSpeaks(c) \/ ClientFinishes(c) \/ ClientLeaves(c)
  BY <1>2 DEF ClientSpeaks, ClientFinishes, ClientLeaves, vars, GatewayTypeOK, StepsOwned
<1>3. CASE RemoteAgrees(c) \/ RemoteLeaves(c)
  BY <1>3 DEF RemoteAgrees, RemoteLeaves, vars, GatewayTypeOK, StepsOwned
<1>4. CASE HealthEnds(c)
  <2>1. /\ stream' = [stream EXCEPT ![c] = "none"]
        /\ ForgetClosed /\ UNCHANGED <<task, step, remote>>
    BY <1>4 DEF HealthEnds, HealthDone
  <2>2. GatewayTypeOK' BY <2>1, ForgetKeepsType DEF GatewayTypeOK, TypeOK
  <2>. QED BY <2>1, <2>2 DEF StepsOwned
<1>. QED BY <1>1, <1>2, <1>3, <1>4 DEF Peer

LEMMA LoopInv ==
    ASSUME GatewayInv, ServerInv',
           \/ \E c \in Conns : Accepted(c) \/ PassedOn(c)
           \/ \E l \in Listeners : AcceptBlocks(l) \/ AcceptBroken(l) \/ ListenerStep(l)
    PROVE  GatewayTypeOK' /\ StepsOwned'
<1>. USE DEF GatewayInv, ServerInv
<1>1. ASSUME NEW c \in Conns, Accepted(c) PROVE GatewayTypeOK' /\ StepsOwned'
  <2>1. /\ stream[c] = "backlog" /\ stream' = [stream EXCEPT ![c] = "accepted"]
        /\ UNCHANGED <<task, step, client, remote>>
    BY <1>1 DEF Accepted, Accept, peers
  <2>. QED BY <2>1 DEF GatewayTypeOK, StepsOwned, TypeOK
<1>2. ASSUME NEW l \in Listeners, AcceptBlocks(l) PROVE GatewayTypeOK' /\ StepsOwned'
  BY <1>2 DEF AcceptBlocks, WouldBlock, peers, GatewayTypeOK, StepsOwned
<1>3. ASSUME NEW c \in Conns, PassedOn(c) PROVE GatewayTypeOK' /\ StepsOwned'
  <2>1. /\ ForgetClosed /\ UNCHANGED <<step, remote>> /\ task[c] = "none" /\ stream[c] = "accepted"
        /\ stream' = stream \/ (\E k \in {"none", "open"} : stream' = [stream EXCEPT ![c] = k])
        /\ task' = task \/ task' = [task EXCEPT ![c] = "accept"]
    BY <1>3 DEF PassedOn, PassOn, AsksPermit, AdmitClient, RejectClient, SpawnConn, Ownership
  <2>2. \A d \in Conns : stream'[d] # "none" => stream[d] # "none" BY <2>1 DEF TypeOK
  <2>3. GatewayTypeOK' BY <2>1, <2>2, ForgetKeepsType DEF GatewayTypeOK
  <2>4. StepsOwned' BY <2>1 DEF StepsOwned, TypeOK
  <2>. QED BY <2>3, <2>4
<1>4. ASSUME NEW l \in Listeners, AcceptBroken(l) \/ ListenerStep(l)
      PROVE  GatewayTypeOK' /\ StepsOwned'
  <2>1. /\ ForgetClosed /\ UNCHANGED <<task, step, remote>>
        /\ FlushBacklog(l) \/ UNCHANGED stream
    BY <1>4 DEF AcceptBroken, LoopFails, ListenerStep, Bind, BindFails, StopListening
  <2>2. \A d \in Conns : stream'[d] # "none" => stream[d] # "none"
    BY <2>1 DEF FlushBacklog, TypeOK
  <2>3. GatewayTypeOK' BY <2>1, <2>2, ForgetKeepsType DEF GatewayTypeOK
  <2>4. StepsOwned' BY <2>1 DEF StepsOwned
  <2>. QED BY <2>3, <2>4
<1>. QED BY <1>1, <1>2, <1>3, <1>4

LEMMA GatewayStepInv == GatewayInv /\ [GatewayNext]_allVars => GatewayInv'
<1>. SUFFICES ASSUME GatewayInv, [GatewayNext]_allVars PROVE GatewayInv' OBVIOUS
<1>1. [Next]_vars BY NextIsServers DEF GatewayInv
<1>2. ServerInv'
  BY <1>1, ListenerInv, AcceptLoopInv, ServingInv, ReturningInv, ClientInv, MainInv
     DEF GatewayInv, Next, Terminated
<1>3. CASE ProcessStep
  <2>1. UNCHANGED <<stream, task, step, client, remote>>
    BY <1>3 DEF ProcessStep, peers, Register, Signal, Kill, StartDrain, FinishDrain,
                Terminated, vars
  <2>. QED BY <1>2, <2>1 DEF GatewayInv, GatewayTypeOK, StepsOwned
<1>4. CASE UNCHANGED allVars
  BY <1>2, <1>4 DEF allVars, vars, GatewayInv, GatewayTypeOK, StepsOwned
<1>5. ASSUME NEW c \in Conns, Peer(c) \/ Accepted(c) \/ PassedOn(c) \/ TaskOf(c) \/ HealthEnds(c)
      PROVE  GatewayInv'
  BY <1>2, <1>5, PeerInv, TaskInv, LoopInv DEF GatewayInv
<1>6. ASSUME NEW l \in Listeners, AcceptBlocks(l) \/ AcceptBroken(l) \/ ListenerStep(l)
      PROVE  GatewayInv'
  BY <1>2, <1>6, LoopInv DEF GatewayInv
<1>. QED BY <1>3, <1>4, <1>5, <1>6 DEF GatewayNext

LEMMA GatewayInvariance == GatewaySafety => []GatewayInv
<1>1. GatewayInit => GatewayInv
  BY InitInv DEF GatewayInit, Init, GatewayInv, GatewayTypeOK, StepsOwned
<1>. QED BY <1>1, GatewayStepInv, PTL DEF GatewaySafety

-----------------------------------------------------------------------------
(* The results. *)

\* With its peers, and with upstream sockets that use up descriptors, the process
\* is still what Server says: permits, limit, gauge and drain as proved there
\* (tcp.rs 29-195, upstreams/mod.rs 52-108).
THEOREM ServerRefinement == GatewaySafety => SafetySpec
<1>1. GatewayInit => Init BY DEF GatewayInit
<1>2. GatewayInv /\ [GatewayNext]_allVars => [Next]_vars
  BY NextIsServers DEF GatewayInv
<1>. QED BY <1>1, <1>2, GatewayInvariance, PTL DEF GatewaySafety, SafetySpec

\* It implements the safety part of DrainingService (servers/mod.rs 51-108).
THEOREM ServiceRefinement == GatewaySafety => Service!SafetySpec
BY ServerRefinement, Refinement, PTL

\* No path out of process() leaves an upstream socket, and no listener has more
\* of them than maxclients (proxy_to_upstream/mod.rs 45-91, tcp.rs 74-79).
THEOREM OutboundOwnedCorrect == GatewaySafety => []OutboundOwned
<1>1. GatewayInv => OutboundOwned
  <2>. SUFFICES ASSUME GatewayInv PROVE OutboundOwned OBVIOUS
  <2>1. ASSUME NEW l \in Listeners, ~IsHealth(l)
        PROVE  Cardinality({c \in At(l) : remote[c] # "none"}) <= MaxClients[l]
    <3>. DEFINE Remotes == {c \in At(l) : remote[c] # "none"}
    <3>1. Remotes \subseteq Holding(l)
      BY <2>1 DEF GatewayInv, StepsOwned, ServerInv, Ownership, Handling, At, Holding
    <3>2. IsFiniteSet(Holding(l)) /\ Cardinality(Holding(l)) \in Nat
      BY HoldingFinite DEF GatewayInv, ServerInv, TypeOK
    <3>3. Cardinality(Remotes) <= Cardinality(Holding(l)) /\ Cardinality(Remotes) \in Nat
      BY <3>1, <3>2, FS_Subset, FS_CardinalityType
    <3>4. Cardinality(Holding(l)) <= MaxClients[l]
      BY <3>2, ListenersAssumption DEF GatewayInv, ServerInv, PermitConservation, TypeOK
    <3>. QED BY <3>2, <3>3, <3>4, ListenersAssumption
  <2>. QED BY <2>1 DEF OutboundOwned, GatewayInv, StepsOwned
<1>. QED BY <1>1, GatewayInvariance, PTL

\* What ServerProofs proves of Server holds of the process with its peers: permits
\* are conserved, the limit holds, the gauge of a limited listener counts its
\* connections, but for the one in the hands of the accept loop, and the drain is
\* complete (tcp.rs 48-79, upstreams/mod.rs 123-132, servers/mod.rs 100-103).
THEOREM GatewayKeepsServer ==
    GatewaySafety => [](PermitConservation /\ LimitHolds /\ GaugeCountsClients /\ DrainComplete)
BY ServerRefinement, PermitsConserved, LimitCorrect, GaugeCorrect, DrainCorrect, PTL

-----------------------------------------------------------------------------
(* The connection tasks are as many ProxySessions. *)

LEMMA SessionsInit == GatewayInit => Awaited!Init
BY DEF GatewayInit, Init, Awaited!Init

\* Who is gone for a session: a client that has finished while process() runs.
Gone == {c \in Conns : step[c] # "none" /\ Finished(c)}

\* A session that has not moved keeps its client: only closed sockets forget theirs.
LEMMA ForgetKeepsGone ==
    ASSUME GatewayInv', ForgetClosed, NEW c \in Conns, step'[c] = step[c]
    PROVE  c \in Gone' <=> c \in Gone
<1>1. step'[c] # "none" => stream'[c] = "open"
  BY DEF GatewayInv, StepsOwned, ServerInv, Ownership, Handling
<1>. QED BY <1>1 DEF Gone, Finished, ForgetClosed

\* process() that returns is a session that ends, or one of ban or echo.
LEMMA EndedIsEnd ==
    ASSUME GatewayInv, GatewayInv', NEW c \in Conns, Ended(c),
           step[c] = "relay" => Finished(c) \/ RemoteGone(c)
    PROVE  Awaited!End(c) \/ UNCHANGED <<step, Gone, remote>>
<1>1. step' = [step EXCEPT ![c] = "none"] /\ remote' = [remote EXCEPT ![c] = "none"] /\ ForgetClosed
  BY DEF Ended, DropRemote
<1>2. /\ step \in [Conns -> {"none", "resolve", "connect", "answer", "relay"}]
      /\ remote \in [Conns -> {"none", "silent", "agreed", "gone", "left"}]
  BY DEF GatewayInv, GatewayTypeOK
<1>3. Gone' = Gone \ {c}
  <2>1. \A d \in Conns : d # c => (d \in Gone' <=> d \in Gone)
    BY <1>1, <1>2, ForgetKeepsGone
  <2>2. c \notin Gone' BY <1>1, <1>2 DEF Gone
  <2>. QED BY <2>1, <2>2 DEF Gone
<1>4. CASE step[c] = "none"
  <2>1. remote[c] = "none" /\ c \notin Gone BY <1>4 DEF GatewayInv, StepsOwned, Gone
  <2>2. step' = step /\ remote' = remote /\ Gone' = Gone BY <1>1, <1>2, <1>3, <1>4, <2>1
  <2>. QED BY <2>2
<1>5. CASE step[c] # "none"
  <2>1. step[c] = "relay" => c \in Gone \/ RemoteGone(c) BY DEF Gone
  <2>. QED BY <1>1, <1>2, <1>3, <1>5, <2>1 DEF Awaited!End, Awaited!RemoteGone, RemoteGone, Gone
<1>. QED BY <1>4, <1>5

LEMMA TaskIsSession ==
    ASSUME GatewayInv, GatewayInv', NEW c \in Conns, TaskOf(c)
    PROVE  \/ Awaited!Start(c) \/ Awaited!Resolve(c) \/ Awaited!Connect(c)
           \/ Awaited!Agree(c) \/ Awaited!End(c)
           \/ UNCHANGED <<step, Gone, remote>>
<1>. USE DEF GatewayInv, GatewayTypeOK
<1>1. CASE Routed(c)
  <2>1. /\ step[c] = "none" /\ UNCHANGED <<client, remote>>
        /\ step' = [step EXCEPT ![c] = "resolve"] \/ step' = step
    <3>1. /\ task[c] = "accept" /\ UNCHANGED <<client, remote>>
          /\ \E k \in {"resolve", "none"} : step' = [step EXCEPT ![c] = k]
      BY <1>1 DEF Routed, Route, RouteToHealth
    <3>2. step[c] = "none" BY <3>1 DEF StepsOwned
    <3>3. step \in [Conns -> {"none", "resolve", "connect", "answer", "relay"}] OBVIOUS
    <3>4. [step EXCEPT ![c] = "none"] = step BY <3>2, <3>3
    <3>. QED BY <3>1, <3>2, <3>4
  <2>2. CASE step' = step BY <2>1, <2>2 DEF Gone, Finished
  <2>3. CASE step' = [step EXCEPT ![c] = "resolve"]
    <3>1. Gone' = Gone \/ Gone' = Gone \cup {c} BY <2>1, <2>3 DEF Gone, Finished
    <3>. QED BY <2>1, <2>3, <3>1 DEF Awaited!Start, Gone
  <2>. QED BY <2>1, <2>2, <2>3
<1>2. CASE AcceptBreaks(c)
  <2>1. ForgetClosed /\ UNCHANGED <<step, remote>> BY <1>2 DEF AcceptBreaks
  <2>2. Gone' = Gone BY <2>1, ForgetKeepsGone DEF Gone, Finished
  <2>. QED BY <2>1, <2>2
<1>3. CASE Ended(c) /\ (step[c] = "relay" => Finished(c) \/ RemoteGone(c))
  BY <1>3, EndedIsEnd
<1>4. CASE Resolved(c) /\ ~Ended(c)
  <2>1. step[c] = "resolve" /\ step' = [step EXCEPT ![c] = "connect"] /\ UNCHANGED <<client, remote>>
    BY <1>4 DEF Resolved
  <2>2. Gone' = Gone BY <2>1 DEF Gone, Finished
  <2>. QED BY <2>1, <2>2 DEF Awaited!Resolve, Gone
<1>5. CASE Connects(c)
  <2>1. /\ step[c] = "connect" /\ remote' = [remote EXCEPT ![c] = "silent"] /\ UNCHANGED client
        /\ \E k \in {"answer", "relay"} : step' = [step EXCEPT ![c] = k]
    BY <1>5 DEF Connects
  <2>2. Gone' = Gone BY <2>1 DEF Gone, Finished
  <2>. QED BY <2>1, <2>2 DEF Awaited!Connect, Gone
<1>6. CASE Agrees(c)
  <2>1. /\ step[c] = "answer" /\ remote[c] \in {"agreed", "left"}
        /\ step' = [step EXCEPT ![c] = "relay"] /\ UNCHANGED <<client, remote>>
    BY <1>6 DEF Agrees, GoodAnswer
  <2>2. Gone' = Gone BY <2>1 DEF Gone, Finished
  <2>. QED BY <2>1, <2>2 DEF Awaited!Agree, Gone
<1>7. CASE Returns(c) BY <1>7 DEF Returns, peers, Gone, Finished
<1>8. (BanEnds(c) \/ EchoEnds(c)) => Ended(c) /\ step[c] = "none"
  BY DEF BanEnds, EchoEnds, StepsOwned
<1>. QED
  BY <1>1, <1>2, <1>3, <1>4, <1>5, <1>6, <1>7, <1>8
     DEF TaskOf, Tunnels, Resolved, ConnectEnds, Refused, RelayEnds

LEMMA PeerIsSession ==
    ASSUME GatewayInv, GatewayInv', NEW c \in Conns, Peer(c) \/ HealthEnds(c)
    PROVE  \/ Awaited!ClientLeaves(c) \/ Awaited!RemoteAgrees(c) \/ Awaited!RemoteLeaves(c)
           \/ UNCHANGED <<step, Gone, remote>>
<1>. USE DEF GatewayInv, GatewayTypeOK
<1>1. CASE ClientArrives(c)
  <2>1. task[c] = "none" /\ step[c] = "none"
    BY <1>1 DEF ClientArrives, Arrive, StepsOwned
  <2>. QED BY <1>1, <2>1 DEF ClientArrives, Gone, Finished
<1>2. CASE ClientSpeaks(c) BY <1>2 DEF ClientSpeaks, Gone, Finished
<1>3. CASE ClientFinishes(c) \/ ClientLeaves(c)
  <2>1. /\ \E k \in {"finished", "gone"} : client' = [client EXCEPT ![c] = k]
        /\ UNCHANGED <<step, remote>>
    BY <1>3 DEF ClientFinishes, ClientLeaves
  <2>2. Gone' = IF step[c] = "none" THEN Gone ELSE Gone \cup {c}
    BY <2>1 DEF Gone, Finished
  <2>3. Gone' = Gone \/ (step[c] # "none" /\ c \notin Gone /\ Gone' = Gone \cup {c})
    BY <2>2
  <2>. QED BY <2>1, <2>3 DEF Awaited!ClientLeaves, Gone
<1>4. CASE RemoteAgrees(c) BY <1>4 DEF RemoteAgrees, Awaited!RemoteAgrees, Gone, Finished
<1>5. CASE RemoteLeaves(c) BY <1>5 DEF RemoteLeaves, Awaited!RemoteLeaves, Gone, Finished
<1>6. CASE HealthEnds(c)
  <2>1. ForgetClosed /\ UNCHANGED <<step, remote>> BY <1>6 DEF HealthEnds
  <2>2. Gone' = Gone BY <2>1, ForgetKeepsGone DEF Gone, Finished
  <2>. QED BY <2>1, <2>2
<1>. QED BY <1>1, <1>2, <1>3, <1>4, <1>5, <1>6 DEF Peer

LEMMA LoopIsNoSession ==
    ASSUME GatewayInv',
           \/ \E c \in Conns : Accepted(c) \/ PassedOn(c)
           \/ \E l \in Listeners : AcceptBlocks(l) \/ AcceptBroken(l) \/ ListenerStep(l)
           \/ ProcessStep \/ UNCHANGED allVars
    PROVE  UNCHANGED <<step, Gone, remote>>
<1>1. UNCHANGED <<step, remote>> /\ (ForgetClosed \/ UNCHANGED client)
  BY DEF Accepted, PassedOn, AcceptBlocks, AcceptBroken, ListenerStep, ProcessStep, peers, allVars
<1>2. Gone' = Gone BY <1>1, ForgetKeepsGone DEF Gone, Finished
<1>. QED BY <1>1, <1>2

\* The tasks interleaved are the sessions interleaved: process() relays only with
\* an upstream that agreed, and from whichever step it returns it takes its own
\* upstream socket along and no other (proxy_to_upstream/mod.rs 45-91).
THEOREM SessionsRefinement == GatewaySafety => ImplementsSession
<1>1. GatewayInv /\ GatewayInv' /\ [GatewayNext]_allVars => [Awaited!Next]_(Awaited!vars)
  <2>. SUFFICES ASSUME GatewayInv, GatewayInv', [GatewayNext]_allVars
                PROVE  Awaited!Next \/ UNCHANGED <<step, Gone, remote>>
    BY DEF Awaited!vars, Gone
  <2>1. ASSUME NEW c \in Conns, TaskOf(c)
        PROVE  Awaited!Next \/ UNCHANGED <<step, Gone, remote>>
    BY <2>1, TaskIsSession DEF Awaited!Next
  <2>2. ASSUME NEW c \in Conns, Peer(c) \/ HealthEnds(c)
        PROVE  Awaited!Next \/ UNCHANGED <<step, Gone, remote>>
    BY <2>2, PeerIsSession DEF Awaited!Next
  <2>. QED BY <2>1, <2>2, LoopIsNoSession DEF GatewayNext
<1>. QED
  BY <1>1, SessionsInit, GatewayInvariance, PTL DEF GatewaySafety, ImplementsSession, Awaited!SafetySpec

-----------------------------------------------------------------------------
(* The drain only shrinks. *)

LEMMA StepsFromValues ==
    /\ StepsFrom["accepted"] = 9 /\ StepsFrom["admitted"] = 8
    /\ StepsFrom["accept"] = 7 /\ StepsFrom["resolve"] = 6 /\ StepsFrom["connect"] = 5
    /\ StepsFrom["answer"] = 4 /\ StepsFrom["relay"] = 3 /\ StepsFrom["ban"] = 3
    /\ StepsFrom["echo"] = 3 /\ StepsFrom["release"] = 2 /\ StepsFrom["end"] = 1
    /\ StepsFrom["none"] = 0
BY DEF StepsFrom

\* The others stay where they are.
LEMMA PlacesFixed ==
    ASSUME NEW d \in Conns, task'[d] = task[d], step'[d] = step[d], d \in holds' <=> d \in holds,
           stream'[d] = "accepted" <=> stream[d] = "accepted"
    PROVE  Place(d)' = Place(d)
BY DEF Place

\* A step of a connection task moves that task only, and nearer to its end.
LEMMA TaskShrinks ==
    ASSUME GatewayInv, NEW c \in Conns, TaskOf(c)
    PROVE  /\ tracked' \cap Listeners \subseteq tracked
           /\ \A d \in Conns : Place(d)' # Place(d) =>
                 Place(d) # "none" /\ StepsFrom[Place(d)'] < StepsFrom[Place(d)]
<1>. DEFINE Nearer(from, to) == from # "none" /\ StepsFrom[to] < StepsFrom[from]
            Others == \A d \in Conns \ {c} :
                         task'[d] = task[d] /\ step'[d] = step[d] /\ (d \in holds' <=> d \in holds)
            Result == /\ tracked' \cap Listeners \subseteq tracked
                      /\ Others
                      /\ Nearer(Place(c), Place(c)')
<1>. USE DEF GatewayInv, ServerInv, TypeOK, GatewayTypeOK
<1>0. \A d \in Conns : stream'[d] = "accepted" <=> stream[d] = "accepted"
  <2>1. \/ stream' = stream
        \/ task[c] # "none" /\ stream' = [stream EXCEPT ![c] = "none"]
    BY DEF TaskOf, Routed, AcceptBreaks, BanEnds, EchoEnds, Tunnels, Resolved, Connects,
           ConnectEnds, Agrees, Refused, RelayEnds, Returns, Ended, Route, RouteToHealth,
           AcceptFails, ProcessEnds, Returning, ReleasePermit, EndTask, vars
  <2>. QED BY <2>1 DEF Ownership
<1>a. task[c] # "none" /\ stream[c] # "accepted" /\ stream'[c] # "accepted"
  <2>1. task[c] # "none"
    BY DEF TaskOf, Routed, AcceptBreaks, BanEnds, EchoEnds, Tunnels, Resolved, Connects,
           ConnectEnds, Agrees, Refused, RelayEnds, Returns, Ended, Route, RouteToHealth,
           AcceptFails, ProcessEnds, Returning, ReleasePermit, EndTask, StepsOwned
  <2>. QED BY <2>1, <1>0 DEF Ownership
<1>. SUFFICES Result BY <1>0, PlacesFixed
<1>1. CASE Routed(c)
  <2>1. /\ task[c] = "accept" /\ UNCHANGED <<tracked, holds>>
        /\ \E k \in (Kinds \ {"health"}) \cup {"return"} : task' = [task EXCEPT ![c] = k]
        /\ step' = [step EXCEPT ![c] = IF task'[c] = "proxy" THEN "resolve" ELSE "none"]
    BY <1>1, ListenersAssumption, ConnsAssumption DEF Routed, Route, RouteToHealth
  <2>2. /\ task'[c] \in {"ban", "echo", "proxy", "return"}
        /\ step'[c] = IF task'[c] = "proxy" THEN "resolve" ELSE "none"
    BY <2>1 DEF Kinds
  <2>3. Place(c)' \in {"ban", "echo", "resolve", "release", "end"}
    BY <1>a, <2>2 DEF Place
  <2>4. Place(c) = "accept"
    BY <1>a, <2>1 DEF Place
  <2>. QED BY <2>1, <2>3, <2>4, StepsFromValues
<1>2. CASE AcceptBreaks(c)
  <2>1. /\ task[c] = "accept" /\ task' = [task EXCEPT ![c] = "return"]
        /\ UNCHANGED <<tracked, holds, step>>
    BY <1>2 DEF AcceptBreaks, AcceptFails
  <2>2. Place(c) = "accept" /\ Place(c)' \in {"release", "end"}
    BY <1>a, <2>1 DEF Place
  <2>. QED BY <2>1, <2>2, StepsFromValues
<1>3. CASE Ended(c)
  <2>1. /\ task[c] \in {"ban", "echo", "proxy"} /\ task' = [task EXCEPT ![c] = "return"]
        /\ step' = [step EXCEPT ![c] = "none"] /\ UNCHANGED <<tracked, holds>>
    BY <1>3 DEF Ended, ProcessEnds
  <2>2. /\ Place(c) \in {"ban", "echo", "resolve", "connect", "answer", "relay"}
        /\ Place(c)' \in {"release", "end"}
    BY <1>a, <2>1 DEF Place, StepsOwned
  <2>. QED BY <2>1, <2>2, StepsFromValues
<1>4. ASSUME UNCHANGED vars,
             \/ step[c] = "resolve" /\ step' = [step EXCEPT ![c] = "connect"]
             \/ step[c] = "answer" /\ step' = [step EXCEPT ![c] = "relay"]
             \/ /\ step[c] = "connect"
                /\ \E k \in {"answer", "relay"} : step' = [step EXCEPT ![c] = k]
      PROVE  Result
  <2>1. task[c] = "proxy" /\ task'[c] = "proxy" BY <1>4 DEF StepsOwned, vars
  <2>2. Place(c) = step[c] /\ Place(c)' = step'[c] BY <1>a, <2>1 DEF Place
  <2>3. Nearer(step[c], step'[c]) BY <1>4, StepsFromValues
  <2>. QED BY <1>4, <2>1, <2>2, <2>3 DEF vars
<1>5. CASE Resolved(c) /\ ~Ended(c) BY <1>4, <1>5 DEF Resolved
<1>6. CASE Connects(c) BY <1>4, <1>6 DEF Connects
<1>7. CASE Agrees(c) BY <1>4, <1>7 DEF Agrees
<1>8. CASE Returns(c) /\ ReleasePermit(c)
  <2>1. /\ task[c] = "return" /\ c \in holds /\ holds' = holds \ {c}
        /\ UNCHANGED <<tracked, task, step>>
    BY <1>8 DEF Returns, peers, ReleasePermit, GivePermit
  <2>2. Place(c) = "release" /\ Place(c)' = "end" BY <1>a, <2>1 DEF Place
  <2>. QED BY <2>1, <2>2, StepsFromValues
<1>9. CASE Returns(c) /\ EndTask(c)
  <2>1. /\ task[c] = "return" /\ c \notin holds /\ task' = [task EXCEPT ![c] = "none"]
        /\ tracked' = tracked \ {c} /\ UNCHANGED <<holds, step>>
    BY <1>9 DEF Returns, peers, EndTask
  <2>2. Place(c) = "end" /\ Place(c)' = "none" BY <1>a, <2>1 DEF Place
  <2>. QED BY <2>1, <2>2, StepsFromValues
<1>. QED
  BY <1>1, <1>2, <1>3, <1>5, <1>6, <1>7, <1>8, <1>9
     DEF TaskOf, BanEnds, EchoEnds, Tunnels, ConnectEnds, Refused, RelayEnds, Returns, Returning

\* An accept loop accepts only while it is tracked.
LEMMA AcceptShrinks ==
    ASSUME GatewayInv, NEW c \in Conns, Accepted(c)
    PROVE  /\ tracked' = tracked
           /\ \A d \in Conns : Place(d)' # Place(d) => Place(d) = "none" /\ Site[d] \in tracked
<1>. USE DEF GatewayInv, ServerInv, TypeOK
<1>1. /\ lst[Site[c]] = "select" /\ stream[c] = "backlog"
      /\ stream' = [stream EXCEPT ![c] = "accepted"]
      /\ UNCHANGED <<tracked, holds, task, step>>
  BY DEF Accepted, Accept, Selects, peers
<1>2. task[c] = "none" /\ Site[c] \in tracked
  BY <1>1, ConnsAssumption DEF Ownership, TrackerExact
<1>3. Place(c) = "none" BY <1>1, <1>2 DEF Place
<1>4. \A d \in Conns \ {c} : Place(d)' = Place(d)
  BY <1>1, PlacesFixed
<1>. QED BY <1>1, <1>2, <1>3, <1>4

\* A connection in its hands, it brings nearer to its end, and touches no other.
LEMMA PassShrinks ==
    ASSUME GatewayInv, NEW c \in Conns, PassedOn(c)
    PROVE  /\ tracked' \cap Listeners \subseteq tracked
           /\ \A d \in Conns : Place(d)' # Place(d) =>
                 Place(d) # "none" /\ StepsFrom[Place(d)'] < StepsFrom[Place(d)]
<1>. USE DEF GatewayInv, ServerInv, TypeOK
<1>1. /\ stream[c] = "accepted" /\ task[c] = "none" /\ step' = step
      /\ tracked' \subseteq tracked \cup {c}
      /\ task' = task \/ task' = [task EXCEPT ![c] = "accept"]
      /\ holds' = holds \/ holds' = holds \cup {c}
      /\ stream' = stream \/ (\E k \in {"none", "open"} : stream' = [stream EXCEPT ![c] = k])
  BY DEF PassedOn, PassOn, AsksPermit, AdmitClient, RejectClient, SpawnConn, Track, TakePermit,
         Ownership
<1>2. \A d \in Conns \ {c} : Place(d)' = Place(d)
  BY <1>1, PlacesFixed
<1>3. \/ Place(c) = "accepted" /\ Place(c)' \in {"admitted", "none", "accept"}
      \/ Place(c) = "admitted" /\ Place(c)' = "accept"
  <2>1. Place(c) = IF c \in holds THEN "admitted" ELSE "accepted" BY <1>1 DEF Place
  <2>2. CASE AdmitClient(c)
    <3>1. c \notin holds /\ c \in holds' /\ stream'[c] = "accepted"
      BY <1>1, <2>2 DEF AdmitClient, AsksPermit, TakePermit
    <3>. QED BY <2>1, <3>1 DEF Place
  <2>3. CASE RejectClient(c)
    <3>1. c \notin holds /\ task'[c] = "none" /\ stream'[c] = "none"
      BY <1>1, <2>3 DEF RejectClient, AsksPermit
    <3>. QED BY <2>1, <3>1 DEF Place
  <2>4. CASE SpawnConn(c)
    <3>1. task'[c] = "accept" /\ stream'[c] = "open" BY <2>4 DEF SpawnConn
    <3>2. Place(c)' = "accept" BY <3>1 DEF Place
    <3>. QED BY <2>1, <3>2
  <2>. QED BY <2>2, <2>3, <2>4 DEF PassedOn, PassOn
<1>4. StepsFrom[Place(c)'] < StepsFrom[Place(c)] BY <1>3, StepsFromValues
<1>. QED BY <1>1, <1>2, <1>3, <1>4, ListenersAssumption

\* Every other step leaves the connections where they are.
LEMMA OthersShrink ==
    ASSUME GatewayInv,
           \/ \E c \in Conns : Peer(c) \/ HealthEnds(c)
           \/ \E l \in Listeners : AcceptBlocks(l) \/ AcceptBroken(l) \/ ListenerStep(l)
           \/ ProcessStep
           \/ UNCHANGED allVars
    PROVE  /\ tracked' \cap Listeners \subseteq tracked
           /\ \A d \in Conns : Place(d)' = Place(d)
<1>. USE DEF GatewayInv, ServerInv, TypeOK
<1>1. UNCHANGED <<task, step, holds>> /\ tracked' \subseteq tracked
  BY DEF Peer, HealthEnds, ClientArrives, Arrive, ClientSpeaks, ClientFinishes, ClientLeaves,
         RemoteAgrees, RemoteLeaves, HealthDone, AcceptBlocks, WouldBlock, AcceptBroken, LoopFails,
         ListenerStep, Bind, BindFails, StopListening, ProcessStep, Register, Signal, Kill,
         StartDrain, FinishDrain, Terminated, peers, vars, allVars
<1>2. \/ UNCHANGED stream
      \/ \E l \in Listeners : FlushBacklog(l)
      \/ \E c \in Conns : /\ stream[c] # "accepted"
                          /\ \E k \in {"none", "backlog"} : stream' = [stream EXCEPT ![c] = k]
  BY DEF Peer, HealthEnds, ClientArrives, Arrive, ClientSpeaks, ClientFinishes, ClientLeaves,
         RemoteAgrees, RemoteLeaves, HealthDone, AcceptBlocks, WouldBlock, AcceptBroken, LoopFails,
         ListenerStep, Bind, BindFails, StopListening, ProcessStep, Register, Signal, Kill,
         StartDrain, FinishDrain, Terminated, peers, vars, allVars, Ownership
<1>3. \A d \in Conns : stream'[d] = "accepted" <=> stream[d] = "accepted"
  BY <1>2 DEF FlushBacklog
<1>. QED BY <1>1, <1>3, PlacesFixed

\* With any peers, every step of an accept loop with a connection and of its task is
\* one of at most nine, whichever way it fails, and none is accepted once its
\* listener is gone: the provable half of a drain that ends (tcp.rs 29-96,
\* proxy_to_upstream/mod.rs 45-91, servers/mod.rs 100-103).
THEOREM DrainShrinksCorrect == GatewaySafety => DrainShrinks
<1>. DEFINE Shrinks ==
              /\ \A c \in Conns : Place(c)' # Place(c) =>
                    IF Place(c) = "none" THEN Site[c] \in tracked
                    ELSE StepsFrom[Place(c)'] < StepsFrom[Place(c)]
              /\ tracked' \cap Listeners \subseteq tracked
<1>1. GatewayInv /\ [GatewayNext]_allVars => [Shrinks]_allVars
  <2>. SUFFICES ASSUME GatewayInv, [GatewayNext]_allVars PROVE Shrinks OBVIOUS
  <2>1. ASSUME NEW c \in Conns, TaskOf(c) PROVE Shrinks BY <2>1, TaskShrinks
  <2>2. ASSUME NEW c \in Conns, Accepted(c) PROVE Shrinks BY <2>2, AcceptShrinks
  <2>3. ASSUME NEW c \in Conns, PassedOn(c) PROVE Shrinks BY <2>3, PassShrinks
  <2>. QED BY <2>1, <2>2, <2>3, OthersShrink DEF GatewayNext
<1>. QED BY <1>1, GatewayInvariance, PTL DEF GatewaySafety, DrainShrinks

-----------------------------------------------------------------------------
(* Where the documents are right. *)

\* Where the documents are right they stay so with the peers and the upstream
\* sockets: a server's limit, a drain that cuts nobody off, and a health listener
\* that the load does not end (README.md 14, servers/mod.rs 58-59, tcp.rs 25-26).
THEOREM GatewayPromises ==
    /\ OneListenEach /\ HealthApart => (GatewaySafety => []ServerLimitHolds)
    /\ NoHealthRoutes => (GatewaySafety => []ExitCutsNothing)
    /\ FdsForAll => (GatewaySafety => HealthListenerStays)
<1>1. ASSUME OneListenEach, HealthApart PROVE GatewaySafety => []ServerLimitHolds
  BY <1>1, ServerRefinement, ServerLimitWhere, PTL
<1>2. ASSUME NoHealthRoutes PROVE GatewaySafety => []ExitCutsNothing
  BY <1>2, ServerRefinement, ExitCutsWhere, PTL
<1>3. ASSUME FdsForAll PROVE GatewaySafety => HealthListenerStays
  BY <1>3, ServerRefinement, HealthStaysWhere, PTL
<1>. QED BY <1>1, <1>2, <1>3
=============================================================================
