---------------------------- MODULE ServerProofs ----------------------------
(***************************************************************************)
(* Proofs about Server, for every set of listeners and clients, every      *)
(* limit and every routing: ServerInv is inductive, and with it come the   *)
(* limit, the gauge, the drain and the refinement of DrainingService.      *)
(***************************************************************************)
EXTENDS Server, TLAPS, FiniteSetTheorems

-----------------------------------------------------------------------------
(* Cardinalities of the sets of permit owners. *)

\* The permit owners of a listener are finitely many (a semaphore counts them).
LEMMA HoldingFinite ==
    ASSUME holds \subseteq Conns, NEW l \in Listeners
    PROVE  IsFiniteSet(Holding(l)) /\ Cardinality(Holding(l)) \in Nat
<1>1. Holding(l) \subseteq Conns BY DEF Holding
<1>2. IsFiniteSet(Holding(l)) BY <1>1, FS_Subset, ConnsAssumption
<1>. QED BY <1>2, FS_CardinalityType

\* Taking a permit adds one owner at the connection's listener and nowhere
\* else (tcp.rs, try_acquire_owned).
LEMMA HoldingAdd ==
    ASSUME holds \subseteq Conns, NEW c \in Conns, c \notin holds,
           holds' = holds \cup {c}, NEW l \in Listeners
    PROVE  Cardinality(Holding(l)') =
               Cardinality(Holding(l)) + (IF l = Site[c] THEN 1 ELSE 0)
<1>1. IsFiniteSet(Holding(l)) /\ Cardinality(Holding(l)) \in Nat BY HoldingFinite
<1>2. CASE l = Site[c]
  <2>1. Holding(l)' = Holding(l) \cup {c} BY <1>2 DEF Holding
  <2>2. c \notin Holding(l) BY DEF Holding
  <2>3. Cardinality(Holding(l) \cup {c}) = Cardinality(Holding(l)) + 1
    BY <1>1, <2>2, FS_AddElement
  <2>. QED BY <1>2, <2>1, <2>3
<1>3. CASE l # Site[c]
  <2>1. Holding(l)' = Holding(l) BY <1>3 DEF Holding
  <2>. QED BY <1>1, <1>3, <2>1
<1>. QED BY <1>2, <1>3

\* Returning a permit removes one owner at the connection's listener and
\* nowhere else (tcp.rs, drop(permit)).
LEMMA HoldingRemove ==
    ASSUME holds \subseteq Conns, NEW c \in holds,
           holds' = holds \ {c}, NEW l \in Listeners
    PROVE  Cardinality(Holding(l)') =
               Cardinality(Holding(l)) - (IF l = Site[c] THEN 1 ELSE 0)
<1>1. IsFiniteSet(Holding(l)) /\ Cardinality(Holding(l)) \in Nat BY HoldingFinite
<1>2. CASE l = Site[c]
  <2>1. Holding(l)' = Holding(l) \ {c} BY <1>2 DEF Holding
  <2>2. c \in Holding(l) BY <1>2 DEF Holding
  <2>3. Cardinality(Holding(l) \ {c}) = Cardinality(Holding(l)) - 1
    BY <1>1, <2>2, FS_RemoveElement
  <2>. QED BY <1>2, <2>1, <2>3
<1>3. CASE l # Site[c]
  <2>1. Holding(l)' = Holding(l) BY <1>3 DEF Holding
  <2>. QED BY <1>1, <1>3, <2>1
<1>. QED BY <1>2, <1>3

-----------------------------------------------------------------------------
(* The inductive invariant. *)

\* The process starts with every permit free and every listener tracked.
LEMMA InitInv == Init => ServerInv
<1>. SUFFICES ASSUME Init PROVE ServerInv OBVIOUS
<1>1. TypeOK BY ListenersAssumption DEF Init, TypeOK, Handling
<1>2. PermitConservation
  <2>1. \A l \in Listeners : Holding(l) = {} BY DEF Init, Holding
  <2>2. \A l \in Listeners : Cardinality(Holding(l)) = 0 BY <2>1, FS_EmptySet
  <2>. QED BY <2>2, ListenersAssumption DEF Init, PermitConservation
<1>3. TrackerExact BY DEF Init, TrackerExact
<1>4. Ownership BY DEF Init, Ownership, Handling
<1>5. OneInHand /\ ExitEmpty BY DEF Init, OneInHand, ExitEmpty
<1>. QED BY <1>1, <1>2, <1>3, <1>4, <1>5 DEF ServerInv

\* A step that leaves permits and owners alone keeps the permits conserved, if
\* each owner still has its task, or is in the hands of its accept loop.
LEMMA ConservationFrame ==
    ASSUME PermitConservation, UNCHANGED <<permits, holds>>,
           \A c \in holds : task'[c] # "none" \/ stream'[c] = "accepted"
    PROVE  PermitConservation'
BY DEF PermitConservation, Holding

\* The listener tasks keep ServerInv.
LEMMA ListenerInv ==
    ASSUME ServerInv, NEW l \in Listeners, Listener(l)
    PROVE  ServerInv'
<1>. USE DEF ServerInv
<1>1. CASE Bind(l)
  <2>. USE <1>1 DEF Bind, Alive
  <2>1. TypeOK' BY DEF TypeOK
  <2>2. PermitConservation' BY ConservationFrame DEF PermitConservation
  <2>3. TrackerExact' BY ListenersAssumption DEF TypeOK, TrackerExact
  <2>4. Ownership' BY DEF Ownership, TypeOK
  <2>5. OneInHand' /\ ExitEmpty' BY DEF OneInHand, ExitEmpty
  <2>. QED BY <2>1, <2>2, <2>3, <2>4, <2>5
<1>2. CASE BindFails(l)
  <2>. USE <1>2 DEF BindFails, Alive
  <2>1. TypeOK' BY DEF TypeOK
  <2>2. PermitConservation' BY ConservationFrame DEF PermitConservation
  <2>3. TrackerExact' BY ListenersAssumption DEF TypeOK, TrackerExact
  <2>4. Ownership' BY DEF Ownership, TypeOK
  <2>5. OneInHand' /\ ExitEmpty' BY DEF OneInHand, ExitEmpty
  <2>. QED BY <2>1, <2>2, <2>3, <2>4, <2>5
<1>3. ASSUME Selects(l),
             lst' = [lst EXCEPT ![l] = "failed"] \/ lst' = [lst EXCEPT ![l] = "stopped"],
             tracked' = tracked \ {l}, FlushBacklog(l),
             UNCHANGED <<main, sig, permits, holds, task, detached>>
      PROVE  ServerInv'
  <2>. USE <1>3 DEF Alive, Selects
  <2>1. TypeOK' BY DEF TypeOK, FlushBacklog
  <2>2. PermitConservation'
    BY ConservationFrame DEF PermitConservation, FlushBacklog, TypeOK
  <2>3. TrackerExact' BY ListenersAssumption DEF TypeOK, TrackerExact
  <2>4. Ownership'
    <3>1. \A c \in Conns : stream'[c] \in {"backlog", "accepted"} =>
              stream[c] = stream'[c] /\ Site[c] # l
      BY DEF TypeOK, FlushBacklog, InHand, At
    <3>2. \A m \in Listeners : m # l => lst'[m] = lst[m] BY DEF TypeOK
    <3>3. \A c \in Conns : stream'[c] = "open" <=> stream[c] = "open"
      BY DEF TypeOK, FlushBacklog
    <3>4. readable' = readable \ {l} BY DEF FlushBacklog
    <3>. QED BY <3>1, <3>2, <3>3, <3>4, ConnsAssumption DEF Ownership
  <2>5. OneInHand' BY DEF OneInHand, FlushBacklog
  <2>6. ExitEmpty' BY DEF ExitEmpty
  <2>. QED BY <2>1, <2>2, <2>3, <2>4, <2>5, <2>6
<1>4. CASE AcceptError(l) BY <1>3, <1>4 DEF AcceptError, LoopFails
<1>5. CASE StopListening(l) BY <1>3, <1>5 DEF StopListening
<1>6. CASE WouldBlock(l)
  <2>. USE <1>6 DEF WouldBlock
  <2>1. TypeOK' BY DEF TypeOK
  <2>2. PermitConservation' BY ConservationFrame DEF PermitConservation
  <2>3. TrackerExact' BY DEF TrackerExact
  <2>4. Ownership' BY DEF Ownership, At
  <2>5. OneInHand' /\ ExitEmpty' BY DEF OneInHand, ExitEmpty
  <2>. QED BY <2>1, <2>2, <2>3, <2>4, <2>5
<1>. QED BY <1>1, <1>2, <1>4, <1>5, <1>6 DEF Listener

\* Accepting a connection, and asking for its permit, turning it away or giving
\* it a task, keeps ServerInv.
LEMMA AcceptLoopInv ==
    ASSUME ServerInv, NEW c \in Conns, AcceptLoop(c)
    PROVE  ServerInv'
<1>. USE DEF ServerInv, Alive
<1>1. /\ stream[c] \in {"backlog", "accepted"} /\ task[c] = "none" /\ c \notin detached
      /\ Site[c] \in Listeners /\ Alive
  BY ConnsAssumption DEF AcceptLoop, PassOn, Accept, Selects, AsksPermit, AdmitClient,
                         RejectClient, SpawnConn, Ownership
<1>2. CASE Accept(c)
  <2>. USE <1>1, <1>2 DEF Accept, Selects
  <2>1. TypeOK' BY DEF TypeOK
  <2>2. PermitConservation' BY ConservationFrame DEF PermitConservation, TypeOK
  <2>3. TrackerExact' BY DEF TrackerExact
  <2>4. Ownership' BY DEF Ownership, TypeOK, Handling
  <2>5. OneInHand' BY DEF OneInHand, InHand, At, TypeOK
  <2>6. ExitEmpty' BY DEF ExitEmpty
  <2>. QED BY <2>1, <2>2, <2>3, <2>4, <2>5, <2>6
<1>3. CASE AdmitClient(c)
  <2>. USE <1>1, <1>3 DEF AdmitClient, AsksPermit, HasPermit, TakePermit
  <2>1. TypeOK' BY DEF TypeOK
  <2>2. PermitConservation'
    <3>1. ASSUME NEW l \in Listeners
          PROVE  permits'[l] + Cardinality(Holding(l)') = MaxClients[l]
      BY <3>1, HoldingAdd, HoldingFinite DEF PermitConservation, TypeOK
    <3>2. \A d \in holds' : /\ ~IsHealth(Site[d])
                            /\ task'[d] # "none" \/ stream'[d] = "accepted"
      BY DEF PermitConservation
    <3>. QED BY <3>1, <3>2 DEF PermitConservation, IsHealth
  <2>3. TrackerExact' /\ OneInHand' /\ ExitEmpty' BY DEF TrackerExact, OneInHand, ExitEmpty
  <2>4. Ownership' BY DEF Ownership
  <2>. QED BY <2>1, <2>2, <2>3, <2>4
<1>4. CASE RejectClient(c)
  <2>. USE <1>1, <1>4 DEF RejectClient, AsksPermit
  <2>1. TypeOK' BY DEF TypeOK
  <2>2. PermitConservation' BY ConservationFrame DEF PermitConservation, TypeOK
  <2>3. TrackerExact' BY DEF TrackerExact
  <2>4. Ownership' BY DEF Ownership, TypeOK, Handling
  <2>5. OneInHand' /\ ExitEmpty' BY DEF OneInHand, ExitEmpty, TypeOK
  <2>. QED BY <2>1, <2>2, <2>3, <2>4, <2>5
<1>5. CASE SpawnConn(c)
  <2>. USE <1>1, <1>5 DEF SpawnConn, Track
  <2>1. TypeOK' BY DEF TypeOK, Handling
  <2>2. PermitConservation' BY ConservationFrame DEF PermitConservation, TypeOK
  <2>3. TrackerExact' BY ListenersAssumption DEF TypeOK, TrackerExact
  <2>4. Ownership' BY DEF Ownership, TypeOK, Handling
  <2>5. OneInHand' /\ ExitEmpty' BY DEF OneInHand, ExitEmpty, TypeOK
  <2>. QED BY <2>1, <2>2, <2>3, <2>4, <2>5
<1>. QED BY <1>2, <1>3, <1>4, <1>5 DEF AcceptLoop, PassOn

\* Serving a connection keeps ServerInv: the stream is closed, or handed to a
\* detached task, before the task can return its permit.
LEMMA ServingInv ==
    ASSUME ServerInv, NEW c \in Conns, Serving(c)
    PROVE  ServerInv'
<1>. USE DEF ServerInv, Alive
<1>1. c \notin detached /\ stream[c] = "open"
  BY DEF Serving, Route, RouteToHealth, AcceptFails, ProcessEnds, Ownership, Handling
<1>2. CASE Route(c)
  <2>. USE <1>1, <1>2 DEF Route
  <2>1. \A k \in Routes[Site[c]] \ {"health"} : k \in Handling \ {"accept"}
    BY ListenersAssumption, ConnsAssumption DEF Kinds, Handling
  <2>2. TypeOK' BY <2>1 DEF TypeOK, Handling
  <2>3. PermitConservation'
    BY <2>1, ConservationFrame DEF PermitConservation, TypeOK, Handling
  <2>4. TrackerExact' BY <2>1 DEF TypeOK, TrackerExact, Handling
  <2>5. Ownership' BY <2>1 DEF Ownership, TypeOK, Handling
  <2>6. OneInHand' /\ ExitEmpty' BY DEF OneInHand, ExitEmpty, TypeOK
  <2>. QED BY <2>2, <2>3, <2>4, <2>5, <2>6
<1>3. CASE RouteToHealth(c)
  <2>. USE <1>1, <1>3 DEF RouteToHealth
  <2>1. TypeOK' BY DEF TypeOK
  <2>2. PermitConservation' BY ConservationFrame DEF PermitConservation, TypeOK
  <2>3. TrackerExact' BY ListenersAssumption DEF TypeOK, TrackerExact
  <2>4. Ownership' BY DEF Ownership, TypeOK, Handling
  <2>5. OneInHand' /\ ExitEmpty' BY DEF OneInHand, ExitEmpty, TypeOK
  <2>. QED BY <2>1, <2>2, <2>3, <2>4, <2>5
<1>4. ASSUME Alive, task[c] # "none",
             task' = [task EXCEPT ![c] = "return"],
             stream' = [stream EXCEPT ![c] = "none"],
             UNCHANGED <<main, sig, lst, readable, tracked, permits, holds, detached>>
      PROVE  ServerInv'
  <2>. USE <1>1, <1>4
  <2>1. TypeOK' BY DEF TypeOK
  <2>2. PermitConservation' BY ConservationFrame DEF PermitConservation, TypeOK
  <2>3. TrackerExact' BY ListenersAssumption DEF TypeOK, TrackerExact
  <2>4. Ownership' BY DEF Ownership, TypeOK, Handling
  <2>5. OneInHand' /\ ExitEmpty' BY DEF OneInHand, ExitEmpty, TypeOK
  <2>. QED BY <2>1, <2>2, <2>3, <2>4, <2>5
<1>5. CASE AcceptFails(c) BY <1>4, <1>5 DEF AcceptFails
<1>6. CASE ProcessEnds(c) BY <1>4, <1>6 DEF ProcessEnds
<1>. QED BY <1>2, <1>3, <1>5, <1>6 DEF Serving

\* Returning the permit, and then ending the task, keeps ServerInv.
LEMMA ReturningInv ==
    ASSUME ServerInv, NEW c \in Conns, Returning(c)
    PROVE  ServerInv'
<1>. USE DEF ServerInv, Alive
<1>1. CASE ReleasePermit(c)
  <2>. USE <1>1 DEF ReleasePermit, GivePermit
  <2>1. TypeOK' BY ConnsAssumption DEF TypeOK
  <2>2. PermitConservation'
    <3>1. ASSUME NEW l \in Listeners
          PROVE  permits'[l] + Cardinality(Holding(l)') = MaxClients[l]
      <4>1. Cardinality(Holding(l)') =
                Cardinality(Holding(l)) - (IF l = Site[c] THEN 1 ELSE 0)
        BY HoldingRemove DEF TypeOK
      <4>2. permits'[l] = permits[l] + (IF l = Site[c] THEN 1 ELSE 0)
        BY DEF TypeOK
      <4>3. /\ permits[l] \in Nat /\ Cardinality(Holding(l)) \in Nat
            /\ permits[l] + Cardinality(Holding(l)) = MaxClients[l]
        BY HoldingFinite DEF TypeOK, PermitConservation
      <4>. QED BY <4>1, <4>2, <4>3
    <3>2. \A d \in holds' : /\ ~IsHealth(Site[d])
                            /\ task'[d] # "none" \/ stream'[d] = "accepted"
      BY DEF PermitConservation
    <3>. QED BY <3>1, <3>2 DEF PermitConservation, IsHealth
  <2>3. TrackerExact' BY DEF TrackerExact
  <2>4. Ownership' BY DEF Ownership, Handling
  <2>5. OneInHand' /\ ExitEmpty' BY DEF OneInHand, ExitEmpty, TypeOK
  <2>. QED BY <2>1, <2>2, <2>3, <2>4, <2>5
<1>2. CASE EndTask(c)
  <2>. USE <1>2 DEF EndTask
  <2>1. TypeOK' BY DEF TypeOK
  <2>2. PermitConservation' BY ConservationFrame DEF PermitConservation, TypeOK
  <2>3. TrackerExact' BY ListenersAssumption DEF TypeOK, TrackerExact
  <2>4. Ownership' BY DEF Ownership, TypeOK, Handling
  <2>5. OneInHand' /\ ExitEmpty' BY DEF OneInHand, ExitEmpty, TypeOK
  <2>. QED BY <2>1, <2>2, <2>3, <2>4, <2>5
<1>. QED BY <1>1, <1>2 DEF Returning

\* A new client in the kernel's queue, or the end of a health check, touches
\* one stream that no connection task owns.
LEMMA ClientInv ==
    ASSUME ServerInv, NEW c \in Conns, Arrive(c) \/ HealthDone(c)
    PROVE  ServerInv'
<1>. USE DEF ServerInv, Alive, Arrive, HealthDone
<1>1. TypeOK' BY ConnsAssumption DEF TypeOK
<1>2. PermitConservation' BY ConservationFrame DEF PermitConservation, Ownership, TypeOK
<1>3. TrackerExact' BY DEF TrackerExact
<1>4. Ownership' BY DEF Ownership, TypeOK, Handling
<1>5. OneInHand' /\ ExitEmpty' BY DEF OneInHand, ExitEmpty, TypeOK
<1>. QED BY <1>1, <1>2, <1>3, <1>4, <1>5

\* Signals, the two halves of the shutdown and stuttering touch nothing but
\* main and sig; run() returns only from an empty tracker.
LEMMA MainInv ==
    ASSUME ServerInv,
           \/ \E s \in Signals : Register(s) \/ Signal(s) \/ Kill(s)
           \/ StartDrain \/ FinishDrain \/ UNCHANGED vars
    PROVE  ServerInv'
<1>1. UNCHANGED <<lst, readable, tracked, permits, holds, stream, task, detached>>
  BY DEF Register, Signal, Kill, StartDrain, FinishDrain, vars
<1>2. TypeOK'
  BY <1>1 DEF ServerInv, TypeOK, Register, Signal, Kill, StartDrain, FinishDrain, vars
<1>3. PermitConservation'
  BY <1>1, ConservationFrame DEF ServerInv, PermitConservation
<1>4. TrackerExact' /\ Ownership' /\ OneInHand'
  BY <1>1 DEF ServerInv, TrackerExact, Ownership, OneInHand
<1>5. ExitEmpty'
  BY <1>1 DEF ServerInv, ExitEmpty, Alive, Register, Signal, Kill, StartDrain,
              FinishDrain, TrackerEmpty, vars
<1>. QED BY <1>2, <1>3, <1>4, <1>5 DEF ServerInv

\* ServerInv holds in every reachable state: permits are conserved, the tracker
\* counts exactly the live tasks, and every open stream has one owner.
THEOREM Invariance == SafetySpec => []ServerInv
<1>1. Init => ServerInv BY InitInv
<1>2. ServerInv /\ [Next]_vars => ServerInv'
  BY ListenerInv, AcceptLoopInv, ServingInv, ReturningInv, ClientInv, MainInv
     DEF Next, Terminated
<1>. QED BY <1>1, <1>2, PTL DEF SafetySpec

-----------------------------------------------------------------------------
(* The safety properties. *)

\* Every variable keeps its type.
THEOREM TypeCorrect == SafetySpec => []TypeOK
BY Invariance, PTL DEF ServerInv

\* No interleaving of accepts, early returns and task ends loses a permit or
\* returns one twice (tcp.rs, try_acquire_owned to drop(permit)).
THEOREM PermitsConserved == SafetySpec => []PermitConservation
BY Invariance, PTL DEF ServerInv

\* A limited listener's tasks never hold more streams than maxclients, for any
\* limit and any number of clients (tcp.rs 58-79).
THEOREM LimitCorrect == SafetySpec => []LimitHolds
<1>1. ServerInv => LimitHolds
  <2>. SUFFICES ASSUME ServerInv, NEW l \in Listeners, ~IsHealth(l)
                PROVE  Cardinality(OpenStreams(l) \ detached) <= MaxClients[l]
    BY DEF LimitHolds
  <2>1. OpenStreams(l) \ detached \subseteq Holding(l)
    BY DEF ServerInv, Ownership, OpenStreams, At, Holding
  <2>2. IsFiniteSet(Holding(l)) /\ Cardinality(Holding(l)) \in Nat
    BY HoldingFinite DEF ServerInv, TypeOK
  <2>3. /\ Cardinality(OpenStreams(l) \ detached) <= Cardinality(Holding(l))
        /\ Cardinality(OpenStreams(l) \ detached) \in Nat
    BY <2>1, <2>2, FS_Subset, FS_CardinalityType
  <2>4. Cardinality(Holding(l)) <= MaxClients[l]
    BY <2>2, ListenersAssumption DEF ServerInv, PermitConservation, TypeOK
  <2>. QED BY <2>2, <2>3, <2>4, ListenersAssumption
<1>. QED BY <1>1, Invariance, PTL

\* The gauge of a limited listener in /metrics is between the connections handled
\* and the connection tasks alive, with the one that is about to have its task:
\* who reads it may do so between the permit and the spawn, or between the end of
\* a stream and the return of its permit (upstreams/mod.rs 123-132).
THEOREM GaugeCorrect == SafetySpec => []GaugeCountsClients
<1>1. ServerInv => GaugeCountsClients
  <2>. SUFFICES ASSUME ServerInv, NEW l \in Listeners, ~IsHealth(l)
                PROVE  /\ Cardinality({c \in At(l) : task[c] \in Handling}) <= Gauge(l)
                       /\ Gauge(l) <= Cardinality({c \in At(l) : task[c] # "none"})
                                         + (IF InHand(l) = {} THEN 0 ELSE 1)
    BY DEF GaugeCountsClients
  <2>. DEFINE Handled == {c \in At(l) : task[c] \in Handling}
              Living == {c \in At(l) : task[c] # "none"}
  <2>1. Gauge(l) = Cardinality(Holding(l))
    <3>1. permits[l] + Cardinality(Holding(l)) = MaxClients[l]
      BY DEF ServerInv, PermitConservation
    <3>2. Cardinality(Holding(l)) \in Nat /\ permits[l] \in Nat /\ MaxClients[l] \in Nat
      BY HoldingFinite, ListenersAssumption DEF ServerInv, TypeOK
    <3>. QED BY <3>1, <3>2 DEF Gauge
  <2>2. Cardinality(Handled) <= Cardinality(Holding(l))
    <3>1. Handled \subseteq Holding(l)
      BY DEF ServerInv, Ownership, At, Holding
    <3>. QED BY <3>1, FS_Subset, HoldingFinite DEF ServerInv, TypeOK
  <2>3. IsFiniteSet(Living) /\ Cardinality(Living) \in Nat
    BY FS_Subset, FS_CardinalityType, ConnsAssumption DEF At
  <2>4. Holding(l) \subseteq Living \cup InHand(l)
    BY DEF ServerInv, PermitConservation, TypeOK, At, Holding, InHand
  <2>5. CASE InHand(l) = {}
    <3>1. Holding(l) \subseteq Living BY <2>4, <2>5
    <3>2. Cardinality(Holding(l)) <= Cardinality(Living) BY <3>1, <2>3, FS_Subset
    <3>. QED BY <2>1, <2>2, <2>3, <2>5, <3>2
  <2>6. CASE InHand(l) # {}
    <3>1. PICK c \in InHand(l) : TRUE BY <2>6
    <3>2. c \notin Living BY <3>1 DEF InHand, At, ServerInv, Ownership
    <3>3. InHand(l) = {c} BY <3>1 DEF InHand, At, ServerInv, OneInHand
    <3>4. Holding(l) \subseteq Living \cup {c} BY <2>4, <3>3
    <3>5. /\ IsFiniteSet(Living \cup {c})
          /\ Cardinality(Living \cup {c}) = Cardinality(Living) + 1
      BY <2>3, <3>2, FS_AddElement
    <3>6. Cardinality(Holding(l)) <= Cardinality(Living) + 1 BY <3>4, <3>5, FS_Subset
    <3>. QED BY <2>1, <2>2, <2>3, <2>6, <3>6
  <2>. QED BY <2>5, <2>6
<1>. QED BY <1>1, Invariance, PTL

\* When run() has returned, every listener, permit and relayed stream is gone
\* (servers/mod.rs 100-103).
THEOREM DrainCorrect == SafetySpec => []DrainComplete
<1>1. ServerInv => DrainComplete
  <2>. SUFFICES ASSUME ServerInv, main = "exited"
                PROVE  /\ \A l \in Listeners : lst[l] \in {"stopped", "failed"}
                       /\ holds = {}
                       /\ \A c \in Conns : stream[c] # "none" =>
                             stream[c] = "open" /\ c \in detached
    BY DEF DrainComplete
  <2>1. tracked = {} BY DEF ServerInv, ExitEmpty
  <2>2. \A l \in Listeners : lst[l] \in {"stopped", "failed"}
    BY <2>1 DEF ServerInv, TrackerExact, TypeOK
  <2>3. \A c \in Conns : task[c] = "none" BY <2>1 DEF ServerInv, TrackerExact
  <2>4. \A c \in Conns : stream[c] \notin {"backlog", "accepted"}
    BY <2>2, ConnsAssumption DEF ServerInv, Ownership
  <2>5. holds = {} BY <2>3, <2>4 DEF ServerInv, PermitConservation, TypeOK
  <2>6. \A c \in Conns : stream[c] # "none" => stream[c] = "open" /\ c \in detached
    BY <2>3, <2>4 DEF ServerInv, Ownership, Handling, TypeOK
  <2>. QED BY <2>2, <2>5, <2>6
<1>. QED BY <1>1, Invariance, PTL

\* The accept loop turns a client away only while every permit of the listener
\* is owned by a live task (tcp.rs 58-72).
THEOREM RejectCorrect == SafetySpec => RejectOnlyAtCapacity
<1>. DEFINE Owners(l) == {d \in Holding(l) : task[d] # "none"}
            Full(c) == /\ ~IsHealth(Site[c])
                       /\ Cardinality(Owners(Site[c])) = MaxClients[Site[c]]
            Turned(c) == stream[c] \in {"backlog", "accepted"} /\ stream'[c] = "none" /\ lst' = lst
<1>1. ServerInv /\ [Next]_vars => [\A c \in Conns : Turned(c) => Full(c)]_vars
  <2>. SUFFICES ASSUME ServerInv, Next, NEW c \in Conns, Turned(c) PROVE Full(c)
    BY Zenon
  <2>1. CASE \E l \in Listeners : Listener(l)
    BY <2>1 DEF Listener, Bind, BindFails, WouldBlock, AcceptError, LoopFails, Selects,
                StopListening, ServerInv, TypeOK
  <2>2. CASE \E d \in Conns : AcceptLoop(d)
    <3>1. PICK d \in Conns : AcceptLoop(d) BY <2>2
    <3>2. d = c /\ RejectClient(c)
      BY <3>1 DEF AcceptLoop, PassOn, Accept, AdmitClient, RejectClient, SpawnConn,
                  ServerInv, TypeOK
    <3>3. Site[c] \in Listeners BY ConnsAssumption
    <3>4. /\ permits[Site[c]] = 0 /\ ~IsHealth(Site[c])
          /\ stream[c] = "accepted" /\ c \notin holds
      BY ListenersAssumption, <3>2, <3>3 DEF RejectClient, AsksPermit, HasPermit, ServerInv, TypeOK
    <3>5. Cardinality(Holding(Site[c])) \in Nat
      BY <3>3, HoldingFinite DEF ServerInv, TypeOK
    <3>6. Owners(Site[c]) = Holding(Site[c])
      BY <3>4 DEF Holding, ServerInv, PermitConservation, OneInHand, TypeOK
    <3>7. Cardinality(Holding(Site[c])) = MaxClients[Site[c]]
      BY <3>3, <3>4, <3>5 DEF ServerInv, PermitConservation
    <3>. QED BY <3>4, <3>6, <3>7
  <2>3. CASE \E d \in Conns : Arrive(d) \/ Serving(d) \/ Returning(d) \/ HealthDone(d)
    BY <2>3 DEF Arrive, Serving, Route, RouteToHealth, AcceptFails, ProcessEnds,
                Returning, ReleasePermit, EndTask, HealthDone, ServerInv, TypeOK, Ownership,
                Handling
  <2>4. CASE \/ \E s \in Signals : Register(s) \/ Signal(s) \/ Kill(s)
             \/ StartDrain \/ FinishDrain \/ Terminated
    BY <2>4 DEF Register, Signal, Kill, StartDrain, FinishDrain, Terminated, vars
  <2>. QED BY <2>1, <2>2, <2>3, <2>4 DEF Next
<1>. QED BY <1>1, Invariance, PTL DEF RejectOnlyAtCapacity, SafetySpec

-----------------------------------------------------------------------------
(* Where the documents are right: what has to be configured for the promises *)
(* that the runs refute in general.                                          *)

\* A connection of a health task came by a route that leads to health.
DetachedRouted == \A c \in detached : "health" \in Routes[Site[c]]

LEMMA DetachedRoutedCorrect == SafetySpec => []DetachedRouted
<1>1. Init => DetachedRouted BY DEF Init, DetachedRouted
<1>2. DetachedRouted /\ [Next]_vars => DetachedRouted'
  <2>. SUFFICES ASSUME DetachedRouted, [Next]_vars PROVE DetachedRouted' OBVIOUS
  <2>1. CASE \E c \in Conns : RouteToHealth(c)
    BY <2>1 DEF RouteToHealth, DetachedRouted
  <2>2. CASE ~\E c \in Conns : RouteToHealth(c)
    <3>1. detached' \subseteq detached
      BY <2>2 DEF Next, vars, Register, Signal, Kill, Listener, Bind, BindFails, AcceptError,
                  LoopFails, StopListening, WouldBlock, Arrive, AcceptLoop, PassOn, Accept,
                  AdmitClient, RejectClient, SpawnConn, Serving, Route, AcceptFails, ProcessEnds,
                  Returning, ReleasePermit, EndTask, HealthDone, StartDrain, FinishDrain,
                  Terminated
    <3>. QED BY <3>1 DEF DetachedRouted
  <2>. QED BY <2>1, <2>2
<1>. QED BY <1>1, <1>2, PTL DEF SafetySpec

\* One listen address per server, and a server with a limit has no route to
\* health.
OneListenEach == \A l, m \in Listeners : ServerOf[l] = ServerOf[m] => l = m
HealthApart == \A l \in Listeners : ~IsHealth(l) => "health" \notin Routes[l]

\* maxclients is the limit of a server, as README.md 14 has it, when the server
\* listens on one address and none of its routes leads to health: nothing else
\* gets past its semaphore (builder.rs 33-61, tcp.rs 48-79).
THEOREM ServerLimitWhere ==
    ASSUME OneListenEach, HealthApart PROVE SafetySpec => []ServerLimitHolds
<1>1. ServerInv /\ LimitHolds /\ DetachedRouted => ServerLimitHolds
  <2>. SUFFICES ASSUME ServerInv, LimitHolds, DetachedRouted, NEW l \in Listeners, ~IsHealth(l)
                PROVE  Cardinality({c \in Conns : /\ ServerOf[Site[c]] = ServerOf[l]
                                                  /\ stream[c] = "open"}) <= MaxClients[l]
    BY DEF ServerLimitHolds
  <2>1. {c \in Conns : ServerOf[Site[c]] = ServerOf[l] /\ stream[c] = "open"} = OpenStreams(l)
    BY ConnsAssumption DEF OneListenEach, OpenStreams, At
  <2>2. OpenStreams(l) \ detached = OpenStreams(l)
    BY DEF HealthApart, DetachedRouted, OpenStreams, At
  <2>. QED BY <2>1, <2>2 DEF LimitHolds
<1>. QED BY <1>1, Invariance, LimitCorrect, DetachedRoutedCorrect, PTL

\* The streams that the end of the process cuts are those of a listener with a
\* route to health, in a health task: without such a route "active connections
\* drain" (servers/mod.rs 58-59, upstreams/mod.rs 75-88).
NoHealthRoutes == \A l \in Listeners : "health" \notin Routes[l]

THEOREM ExitCutsWhere == ASSUME NoHealthRoutes PROVE SafetySpec => []ExitCutsNothing
<1>1. DrainComplete /\ DetachedRouted => ExitCutsNothing
  <2>. SUFFICES ASSUME DrainComplete, DetachedRouted, main = "exited", NEW c \in Conns, stream[c] = "open" PROVE FALSE
    BY DEF ExitCutsNothing
  <2>1. c \in detached BY DEF DrainComplete
  <2>. QED BY <2>1, ConnsAssumption DEF DetachedRouted, NoHealthRoutes
<1>. QED BY <1>1, DrainCorrect, DetachedRoutedCorrect, PTL

\* Two descriptors for each connection there can be, and one for the accept()
\* that finds no client; and accept() fails for nothing else.
FdsForAll == 2 * Cardinality(Conns) < FdLimit /\ ~TransientErrors

\* A health listener does "succeed regardless of connection load" (tcp.rs 25-26)
\* if the load cannot use up the descriptors: no number of refused clients,
\* failing tasks or taken permits ends it.
THEOREM HealthStaysWhere == ASSUME FdsForAll PROVE SafetySpec => HealthListenerStays
<1>. DEFINE Stays(l) == IsHealth(l) /\ lst[l] = "select" /\ ~Cancelled => lst'[l] = "select"
<1>1. ServerInv /\ [Next]_vars => [\A l \in Listeners : Stays(l)]_vars
  <2>. SUFFICES ASSUME ServerInv, Next, NEW l \in Listeners, lst[l] = "select", ~Cancelled
                PROVE  lst'[l] = "select"
    BY Zenon
  <2>1. ASSUME NEW m \in Listeners, AcceptError(m) PROVE FALSE
    <3>. DEFINE Open == {d \in Conns : stream[d] \in {"accepted", "open"}}
                Proxied == {d \in Conns : task[d] = "proxy"}
    <3>1. Open \subseteq Conns /\ Proxied \subseteq Conns OBVIOUS
    <3>2. Cardinality(Open) <= Cardinality(Conns) /\ Cardinality(Proxied) <= Cardinality(Conns)
      BY <3>1, ConnsAssumption, FS_Subset
    <3>3. /\ Cardinality(Conns) \in Nat /\ Cardinality(Open) \in Nat
          /\ Cardinality(Proxied) \in Nat
      BY <3>1, ConnsAssumption, FS_Subset, FS_CardinalityType
    <3>4. MostFds = Cardinality(Open) + Cardinality(Proxied) BY DEF MostFds, OpenFds
    <3>5. MostFds >= FdLimit BY <2>1 DEF AcceptError, FdsForAll
    <3>. HIDE DEF Open, Proxied
    <3>. QED BY <3>2, <3>3, <3>4, <3>5, ServerAssumption DEF FdsForAll
  <2>2. ASSUME NEW m \in Listeners, Bind(m) \/ BindFails(m) PROVE lst'[l] = "select"
    BY <2>2 DEF Bind, BindFails, ServerInv, TypeOK
  <2>3. ASSUME NEW m \in Listeners, StopListening(m) PROVE FALSE
    BY <2>3 DEF StopListening, SeesToken
  <2>4. CASE UNCHANGED lst
    BY <2>4
  <2>5. ASSUME ~\E m \in Listeners : Listener(m) PROVE UNCHANGED lst
    BY <2>5 DEF Next, vars, Register, Signal, Kill, Arrive, AcceptLoop, PassOn, Accept, AdmitClient,
                RejectClient, SpawnConn, Serving, Route, RouteToHealth, AcceptFails, ProcessEnds,
                Returning, ReleasePermit, EndTask, HealthDone, StartDrain, FinishDrain, Terminated
  <2>6. ASSUME NEW m \in Listeners, WouldBlock(m) PROVE UNCHANGED lst
    BY <2>6 DEF WouldBlock
  <2>. QED BY <2>1, <2>2, <2>3, <2>4, <2>5, <2>6 DEF Listener
<1>. QED BY <1>1, Invariance, PTL DEF SafetySpec, HealthListenerStays

-----------------------------------------------------------------------------
(* The process implements DrainingService. *)

\* The instance's Cardinality is the Cardinality of this module.
LEMMA SameCardinality == \A S : Service!Cardinality(S) = Cardinality(S)
BY Zenon DEF Service!Cardinality, Cardinality

\* The phase and the running condition, as the mapping reads them.
LEMMA PhaseFacts ==
    ASSUME TypeOK
    PROVE  /\ Alive <=> Phase \in {"up", "draining"}
           /\ main = "draining" => Phase = "draining"
           /\ main = "awaiting" => Phase = (IF Cancelled THEN "draining" ELSE "up")
           /\ main = "exited" => Phase = "down"
           /\ main = "killed" => Phase = "killed"
BY DEF TypeOK, Phase, Alive

\* A step that leaves main and sig alone leaves the phase alone.
LEMMA PhaseFrame == ASSUME UNCHANGED <<main, sig>> PROVE Phase' = Phase
BY DEF Phase, Cancelled

\* The sessions of a limited door are the permit owners of its listener.
LEMMA SessionsAtDoor ==
    ASSUME TypeOK, NEW l \in Listeners, ~IsHealth(l)
    PROVE  {c \in ActiveSessions : Site[c] = l} = Holding(l)
BY DEF TypeOK, ActiveSessions, Holding

\* A session begins where a limited listener takes its permit, or a health
\* listener spawns its task; the other steps of an accept loop are invisible.
LEMMA AcceptRefines ==
    ASSUME ServerInv, NEW c \in Conns, AcceptLoop(c)
    PROVE  Service!Admit(c) \/ UNCHANGED Service!vars
<1>. USE DEF ServerInv
<1>1. /\ Alive /\ task[c] = "none" /\ lst[Site[c]] = "select" /\ Site[c] \in Listeners
      /\ UNCHANGED <<main, sig, lst>>
  BY ConnsAssumption DEF AcceptLoop, PassOn, Accept, Selects, AsksPermit, AdmitClient,
                         RejectClient, SpawnConn, Ownership
<1>2. Phase' = Phase /\ OpenDoors' = OpenDoors BY <1>1, PhaseFrame DEF OpenDoors
<1>3. Phase \in {"up", "draining"} BY <1>1, PhaseFacts
<1>4. CASE ActiveSessions' = ActiveSessions
  BY <1>2, <1>4 DEF Service!vars, ActiveSessions, OpenDoors
<1>5. CASE Accept(c) \/ RejectClient(c)
  BY <1>4, <1>5 DEF Accept, RejectClient, ActiveSessions, IsHealth
<1>6. CASE SpawnConn(c) /\ IsHealth(Site[c])
  <2>1. ActiveSessions' = ActiveSessions \cup {c}
    BY <1>1, <1>6 DEF SpawnConn, ActiveSessions, TypeOK, IsHealth
  <2>2. c \notin ActiveSessions /\ Site[c] \in OpenDoors
    BY <1>1, <1>6 DEF ActiveSessions, OpenDoors, PermitConservation
  <2>. QED BY <1>2, <1>3, <1>6, <2>1, <2>2
           DEF Service!Admit, Service!Running, ActiveSessions, OpenDoors
<1>7. CASE SpawnConn(c) /\ ~IsHealth(Site[c])
  BY <1>1, <1>4, <1>7 DEF SpawnConn, ActiveSessions, TypeOK, IsHealth
<1>8. CASE AdmitClient(c)
  <2>1. ActiveSessions' = ActiveSessions \cup {c}
    BY <1>8 DEF AdmitClient, TakePermit, ActiveSessions, IsHealth
  <2>2. /\ ~IsHealth(Site[c]) /\ permits[Site[c]] > 0
        /\ c \notin ActiveSessions /\ Site[c] \in OpenDoors
    BY <1>1, <1>8 DEF AdmitClient, AsksPermit, HasPermit, ActiveSessions, OpenDoors
  <2>3. Cardinality(Holding(Site[c])) < MaxClients[Site[c]]
    BY <1>1, <2>2, HoldingFinite, ListenersAssumption DEF TypeOK, PermitConservation
  <2>4. Cardinality({d \in ActiveSessions : Site[d] = Site[c]}) < MaxClients[Site[c]]
    BY <1>1, <2>2, <2>3, SessionsAtDoor
  <2>5. Cardinality(Service!ActiveAt(Site[c])) < MaxClients[Site[c]]
    BY <2>4 DEF Service!ActiveAt, ActiveSessions
  <2>. QED BY <1>2, <1>3, <2>1, <2>2, <2>5, SameCardinality
           DEF Service!Admit, Service!Running, ActiveSessions, OpenDoors
<1>. QED BY <1>5, <1>6, <1>7, <1>8 DEF AcceptLoop, PassOn

\* The return of a permit, or the end of a health task, is the End of a session.
LEMMA ReturningRefines ==
    ASSUME ServerInv, NEW c \in Conns, Returning(c)
    PROVE  Service!End(c) \/ UNCHANGED Service!vars
<1>. USE DEF ServerInv
<1>1. Alive /\ task[c] = "return" /\ UNCHANGED <<main, sig, lst>>
  BY DEF Returning, ReleasePermit, EndTask
<1>2. Phase' = Phase /\ OpenDoors' = OpenDoors BY <1>1, PhaseFrame DEF OpenDoors
<1>3. Phase \in {"up", "draining"} BY <1>1, PhaseFacts
<1>4. CASE c \in ActiveSessions /\ ActiveSessions' = ActiveSessions \ {c}
  BY <1>2, <1>3, <1>4 DEF Service!End, Service!Running, ActiveSessions, OpenDoors
<1>5. CASE ActiveSessions' = ActiveSessions
  BY <1>2, <1>5 DEF Service!vars, ActiveSessions, OpenDoors
<1>6. CASE ReleasePermit(c)
  <2>1. ~IsHealth(Site[c]) /\ c \in ActiveSessions
    BY <1>6 DEF ReleasePermit, PermitConservation, ActiveSessions
  <2>2. ActiveSessions' = ActiveSessions \ {c}
    BY <1>6, <2>1 DEF ReleasePermit, GivePermit, ActiveSessions, IsHealth
  <2>. QED BY <1>4, <2>1, <2>2
<1>7. CASE EndTask(c)
  <2>1. CASE IsHealth(Site[c])
    <3>1. c \in ActiveSessions BY <1>1, <2>1 DEF ActiveSessions
    <3>2. ActiveSessions' = ActiveSessions \ {c}
      BY <1>7, <2>1 DEF EndTask, ActiveSessions, IsHealth, TypeOK
    <3>. QED BY <1>4, <3>1, <3>2
  <2>2. CASE ~IsHealth(Site[c])
    <3>1. ActiveSessions' = ActiveSessions
      BY <1>7, <2>2 DEF EndTask, ActiveSessions, IsHealth, TypeOK
    <3>. QED BY <1>5, <3>1
  <2>. QED BY <2>1, <2>2
<1>. QED BY <1>6, <1>7 DEF Returning

\* Serving, arriving and the end of a health check are invisible.
LEMMA ServingRefines ==
    ASSUME ServerInv, NEW c \in Conns, Serving(c) \/ Arrive(c) \/ HealthDone(c)
    PROVE  UNCHANGED Service!vars
<1>1. UNCHANGED <<main, sig, lst, holds>>
  BY DEF Serving, Route, RouteToHealth, AcceptFails, ProcessEnds, Arrive, HealthDone
<1>2. \A d \in Conns : task'[d] # "none" <=> task[d] # "none"
  BY ListenersAssumption, ConnsAssumption
     DEF Serving, Route, RouteToHealth, AcceptFails, ProcessEnds, Arrive, HealthDone,
         ServerInv, TypeOK, Kinds
<1>3. Phase' = Phase /\ OpenDoors' = OpenDoors BY <1>1, PhaseFrame DEF OpenDoors
<1>4. ActiveSessions' = ActiveSessions BY <1>1, <1>2 DEF ActiveSessions, IsHealth
<1>. QED BY <1>3, <1>4 DEF Service!vars, ActiveSessions, OpenDoors

\* A listener that fails or stops closes its door; binding, and a wait for a
\* client, are invisible.
LEMMA ListenerRefines ==
    ASSUME ServerInv, NEW l \in Listeners, Listener(l)
    PROVE  Service!Close(l) \/ UNCHANGED Service!vars
<1>. USE DEF ServerInv
<1>1. /\ Alive /\ lst[l] \in {"spawned", "select"}
      /\ UNCHANGED <<main, sig, holds, task>>
  BY DEF Listener, Bind, BindFails, WouldBlock, AcceptError, LoopFails, Selects, StopListening
<1>2. Phase' = Phase /\ ActiveSessions' = ActiveSessions
  BY <1>1, PhaseFrame DEF ActiveSessions, IsHealth
<1>3. Phase \in {"up", "draining"} BY <1>1, PhaseFacts
<1>4. CASE Bind(l) \/ WouldBlock(l)
  <2>1. OpenDoors' = OpenDoors BY <1>4 DEF Bind, WouldBlock, OpenDoors, TypeOK
  <2>. QED BY <1>2, <2>1 DEF Service!vars, ActiveSessions, OpenDoors
<1>5. CASE BindFails(l) \/ AcceptError(l) \/ StopListening(l)
  <2>1. l \in OpenDoors /\ OpenDoors' = OpenDoors \ {l}
    BY <1>1, <1>5 DEF BindFails, AcceptError, LoopFails, StopListening, Selects, OpenDoors, TypeOK
  <2>. QED BY <1>2, <1>3, <2>1 DEF Service!Close, Service!Running, ActiveSessions, OpenDoors
<1>. QED BY <1>4, <1>5 DEF Listener

\* The first signal is the Drain, FinishDrain is the Stop: by then the tracker,
\* and so every door and session, is gone.
LEMMA MainRefines ==
    ASSUME ServerInv,
           \/ \E s \in Signals : Register(s) \/ Signal(s) \/ Kill(s)
           \/ StartDrain \/ FinishDrain \/ UNCHANGED vars
    PROVE  Service!Drain \/ Service!Stop \/ Service!Kill \/ UNCHANGED Service!vars
<1>. USE DEF ServerInv
<1>1. UNCHANGED <<lst, holds, task>>
  BY DEF Register, Signal, Kill, StartDrain, FinishDrain, vars
<1>2. ActiveSessions' = ActiveSessions /\ OpenDoors' = OpenDoors
  BY <1>1 DEF ActiveSessions, OpenDoors, IsHealth
<1>3. TypeOK' BY MainInv
<1>4. CASE \E s \in Signals : Register(s)
  <2>1. Cancelled' = Cancelled /\ main' = main
    BY <1>4 DEF Register, Cancelled, TypeOK
  <2>. QED BY <1>2, <2>1 DEF Phase, Service!vars, ActiveSessions, OpenDoors
<1>5. CASE \E s \in Signals : Signal(s)
  <2>1. Cancelled' /\ main' = main /\ Alive
    BY <1>5 DEF Signal, Cancelled, TypeOK
  <2>2. Phase' = "draining" /\ Phase \in {"up", "draining"}
    BY <2>1 DEF Phase, Alive
  <2>. QED BY <1>2, <2>2 DEF Service!Drain, Service!vars, ActiveSessions, OpenDoors
<1>6. CASE \E s \in Signals : Kill(s)
  <2>1. Alive /\ main' = "killed" BY <1>6 DEF Kill
  <2>2. Phase' = "killed" /\ Phase \in {"up", "draining"}
    BY <2>1 DEF Phase, Alive
  <2>. QED BY <1>2, <2>2 DEF Service!Kill, Service!Running, ActiveSessions, OpenDoors
<1>7. CASE StartDrain
  <2>1. Phase' = "draining" /\ Phase = "draining"
    BY <1>7 DEF StartDrain, Phase, Cancelled
  <2>. QED BY <1>2, <2>1 DEF Service!vars, ActiveSessions, OpenDoors
<1>8. CASE FinishDrain
  <2>1. Phase' = "down" /\ Phase = "draining" BY <1>8 DEF FinishDrain, Phase
  <2>2. tracked = {} BY <1>8 DEF FinishDrain, TrackerEmpty
  <2>3. OpenDoors = {} /\ \A c \in Conns : task[c] = "none"
    BY <2>2 DEF TrackerExact, OpenDoors
  <2>4. ActiveSessions = {}
    BY <2>3, ConnsAssumption DEF ActiveSessions, OpenDoors, PermitConservation, Ownership, TypeOK
  <2>. QED BY <1>2, <2>1, <2>3, <2>4 DEF Service!Stop, ActiveSessions, OpenDoors
<1>9. CASE UNCHANGED vars
  <2>1. Phase' = Phase BY <1>9, PhaseFrame DEF vars
  <2>. QED BY <1>2, <2>1 DEF Service!vars, ActiveSessions, OpenDoors
<1>. QED BY <1>4, <1>5, <1>6, <1>7, <1>8, <1>9

\* Every behaviour of the process, for every configuration, is a behaviour of
\* DrainingService: sessions stay within the limit, the drain is not withdrawn,
\* and the service is down only after every door and session is closed.
THEOREM Refinement == SafetySpec => Service!SafetySpec
<1>1. Init => Service!Init
  <2>. SUFFICES ASSUME Init PROVE Service!Init OBVIOUS
  <2>1. Phase = "up" BY DEF Init, Phase, Cancelled
  <2>2. OpenDoors = Listeners BY DEF Init, OpenDoors
  <2>3. ActiveSessions = {} BY DEF Init, ActiveSessions
  <2>. QED BY <2>1, <2>2, <2>3 DEF Service!Init, ActiveSessions, OpenDoors
<1>2. ServerInv /\ [Next]_vars => [Service!Next]_(Service!vars)
  <2>. SUFFICES ASSUME ServerInv, [Next]_vars
                PROVE  Service!Next \/ UNCHANGED Service!vars
    OBVIOUS
  <2>1. ASSUME NEW l \in Listeners, Listener(l)
        PROVE  Service!Next \/ UNCHANGED Service!vars
    BY <2>1, ListenerRefines DEF Service!Next
  <2>2. ASSUME NEW c \in Conns, AcceptLoop(c) \/ Returning(c)
        PROVE  Service!Next \/ UNCHANGED Service!vars
    BY <2>2, AcceptRefines, ReturningRefines DEF Service!Next
  <2>3. ASSUME NEW c \in Conns, Serving(c) \/ Arrive(c) \/ HealthDone(c)
        PROVE  UNCHANGED Service!vars
    BY <2>3, ServingRefines
  <2>4. ASSUME \/ \E s \in Signals : Register(s) \/ Signal(s) \/ Kill(s)
               \/ StartDrain \/ FinishDrain \/ UNCHANGED vars
        PROVE  Service!Next \/ UNCHANGED Service!vars
    BY <2>4, MainRefines DEF Service!Next
  <2>. QED BY <2>1, <2>2, <2>3, <2>4 DEF Next, Terminated
<1>. QED BY <1>1, <1>2, Invariance, PTL DEF SafetySpec, Service!SafetySpec
=============================================================================
