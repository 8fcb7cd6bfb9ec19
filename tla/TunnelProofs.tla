--------------------------- MODULE TunnelProofs ---------------------------
(***************************************************************************)
(* For every number of chunks and however the request and its answer are   *)
(* cut: what the tunnel delivers is what was sent, in order, and nothing   *)
(* before the upstream proxy agreed. The order needs a destination that    *)
(* does not speak first behind CONNECT: http_connect drops what it says.   *)
(***************************************************************************)
EXTENDS Tunnel, TLAPS

\* No destination behind CONNECT speaks first.
Quiet == \A u \in Uses : u.via = "direct" \/ ~u.serverFirst

\* The header is complete and good.
Agreed == request = RequestParts /\ reply = "2xx" /\ replyRead = ReplyParts

HandshakeInv ==
    /\ phase \in {"resolve", "connecting"} => request = 0
    /\ phase = "request" => request < RequestParts
    /\ phase = "response" => request = RequestParts
    /\ phase \in {"resolve", "connecting", "request", "response"} =>
          \A d \in Directions : out[d] = <<>> /\ buf[d] = 0 /\ got[d] = 0
    /\ phase \in {"relay", "closed"} \/ shut = {}
    /\ use.via = "direct" => phase \notin {"request", "response"}
    /\ use.via = "connect" /\ (phase = "relay" \/ \E d \in Directions : out[d] # <<>>) => Agreed

\* Without a destination that speaks first, no byte of it waits before the relay.
QuietInv == Quiet /\ phase \in {"resolve", "connecting", "request", "response"} => sent["rx"] = 0

\* What was read is delivered, or is the one chunk in the buffer.
Whole(d) ==
    /\ \A i \in 1 .. Len(out[d]) : out[d][i] = i
    /\ d \notin shut =>
          /\ buf[d] = 0 => taken[d] = Len(out[d])
          /\ buf[d] # 0 => buf[d] = taken[d] /\ taken[d] = Len(out[d]) + 1
    /\ taken[d] <= sent[d]

Ended(d) ==
    d \in shut =>
        \/ fin[d] = "eof" /\ (fin[Other(d)] = "reset" \/ Len(out[d]) = sent[d])
        \/ fin[d] = "reset"
        \/ fin[Other(d)] = "reset"

\* Nothing is read before it is sent; an upstream that is not connected has done
\* nothing yet; and a copy ends only after an end did.
EndsInv ==
    /\ \A d \in Directions : taken[d] <= sent[d]
    /\ phase \in {"resolve", "connecting"} => fin["rx"] = "open" /\ reply = "none" /\ replySent = 0
    /\ shut # {} => \E d \in Directions : fin[d] # "open"

TInv ==
    /\ TypeOK
    /\ HandshakeInv
    /\ EndsInv
    /\ QuietInv
    /\ Quiet => \A d \in Directions : Whole(d) /\ Ended(d)

-----------------------------------------------------------------------------

LEMMA TInvInit == Init => TInv
BY TunnelAssumption DEF Init, TInv, TypeOK, HandshakeInv, EndsInv, QuietInv, Whole, Ended, Directions

LEMMA TypeNext == TypeOK /\ HandshakeInv /\ [Next]_vars => TypeOK'
<1> SUFFICES ASSUME TypeOK, HandshakeInv, [Next]_vars PROVE TypeOK'
  OBVIOUS
<1> USE TunnelAssumption DEF TypeOK, handshake, streams
<1>1. ASSUME NEW d \in Directions, Send(d) PROVE TypeOK'
  BY <1>1 DEF Send
<1>2. ASSUME NEW d \in Directions, Fin(d) \/ Consume(d) PROVE TypeOK'
  <2>1. CASE Fin(d)
    <3>1. fin' \in [Directions -> {"open", "eof", "reset"}]
      BY <2>1 DEF Fin
    <3>2. UNCHANGED <<phase, handshake, sent, taken, buf, out, got, shut>>
      BY <2>1 DEF Fin
    <3> QED
      BY <3>1, <3>2
  <2>2. CASE Consume(d)
    <3>1. got' \in [Directions -> Nat]
      BY <2>2 DEF Consume
    <3>2. UNCHANGED <<phase, handshake, sent, fin, taken, buf, out, shut>>
      BY <2>2 DEF Consume
    <3> QED
      BY <3>1, <3>2
  <2> QED
    BY <1>2, <2>1, <2>2
<1>3. ASSUME NEW d \in Directions, Copy(d) PROVE TypeOK'
  <2>1. CASE Read(d)
    BY <2>1 DEF Read
  <2>2. CASE ReadEnds(d)
    BY <2>2 DEF ReadEnds, Shut
  <2>3. CASE Write(d)
    BY <2>3 DEF Write, FreeBuf
  <2>4. CASE WriteFails(d)
    BY <2>4 DEF WriteFails, FreeBuf, Shut
  <2> QED
    BY <1>3, <2>1, <2>2, <2>3, <2>4 DEF Copy
<1>4. CASE Reply
  BY <1>4 DEF Reply
<1>5. CASE Tick
  BY <1>5 DEF Tick
<1>6. CASE Connecting
  BY <1>6 DEF Connecting, Resolved, Connect, ConnectFails, ConnectTimesOut
<1>7. CASE Handshaking
  <2>1. CASE WriteRequest
    BY <2>1 DEF WriteRequest, AfterWrite, HandshakeInv
  <2>2. CASE ReadReply
    <3>1. PICK r \in replyRead + 1 .. replySent, k \in taken["rx"] .. sent["rx"] :
             /\ replyRead' = r
             /\ taken' = [taken EXCEPT !["rx"] = k]
             /\ phase' = IF r = ReplyParts THEN AfterReply ELSE "response"
      BY <2>2 DEF ReadReply
    <3>2. taken' \in [Directions -> Nat]
      BY <3>1 DEF Directions
    <3> QED
      BY <2>2, <3>1, <3>2 DEF ReadReply, AfterReply
  <2> QED
    BY <1>7, <2>1, <2>2 DEF Handshaking, HeaderFails, HandshakeReset, ReplyTooLarge, ReplyEof
<1>8. CASE RelayEnds
  BY <1>8 DEF RelayEnds, BothDone
<1>9. CASE UNCHANGED vars
  BY <1>9 DEF vars
<1> QED
  BY <1>1, <1>2, <1>3, <1>4, <1>5, <1>6, <1>7, <1>8, <1>9 DEF Next, Ends, Closed

LEMMA HandshakeNext == TypeOK /\ HandshakeInv /\ [Next]_vars => HandshakeInv'
<1> SUFFICES ASSUME TypeOK, HandshakeInv, [Next]_vars PROVE HandshakeInv'
  OBVIOUS
<1> USE TunnelAssumption DEF TypeOK, HandshakeInv, Agreed, handshake, streams
<1>1. ASSUME NEW d \in Directions, Send(d) PROVE HandshakeInv'
  BY <1>1 DEF Send
<1>2. ASSUME NEW d \in Directions, Fin(d) \/ Consume(d) PROVE HandshakeInv'
  <2>1. CASE Fin(d)
    BY <2>1 DEF Fin
  <2>2. CASE Consume(d)
    <3>1. got[d] < Len(out[d]) /\ UNCHANGED <<phase, handshake, buf, out, shut>>
      BY <2>2 DEF Consume
    <3>2. phase \notin {"resolve", "connecting", "request", "response"}
      BY <3>1
    <3> QED
      BY <3>1, <3>2
  <2> QED
    BY <1>2, <2>1, <2>2
<1>3. ASSUME NEW d \in Directions, Copy(d) PROVE HandshakeInv'
  <2>1. phase = "relay" /\ UNCHANGED <<use, phase, request, reply, replyRead>>
    BY <1>3 DEF Copy, Read, ReadEnds, Write, WriteFails, Copying
  <2> QED
    BY <2>1
<1>4. CASE Reply
  BY <1>4 DEF Reply, Directions
<1>5. CASE Tick
  BY <1>5 DEF Tick
<1>6. CASE Connecting
  BY <1>6 DEF Connecting, Resolved, Connect, ConnectFails, ConnectTimesOut
<1>7. CASE Handshaking
  <2>1. CASE WriteRequest
    BY <2>1 DEF WriteRequest, AfterWrite
  <2>2. CASE ReadReply
    <3>1. PICK r \in replyRead + 1 .. replySent :
             /\ replyRead' = r
             /\ phase' = IF r = ReplyParts THEN AfterReply ELSE "response"
      BY <2>2 DEF ReadReply
    <3>2. phase = "response" /\ UNCHANGED <<use, request, reply, out, got, buf, shut>>
      BY <2>2 DEF ReadReply
    <3> QED
      BY <3>1, <3>2 DEF AfterReply
  <2> QED
    BY <1>7, <2>1, <2>2 DEF Handshaking, HeaderFails, HandshakeReset, ReplyTooLarge, ReplyEof
<1>8. CASE RelayEnds
  BY <1>8 DEF RelayEnds, BothDone
<1>9. CASE UNCHANGED vars
  BY <1>9 DEF vars
<1> QED
  BY <1>1, <1>2, <1>3, <1>4, <1>5, <1>6, <1>7, <1>8, <1>9 DEF Next, Ends, Closed

LEMMA EndsNext == TypeOK /\ EndsInv /\ [Next]_vars => EndsInv'
<1> SUFFICES ASSUME TypeOK, EndsInv, [Next]_vars PROVE EndsInv'
  OBVIOUS
<1> USE DEF TypeOK, EndsInv, handshake, streams, Directions
<1>1. ASSUME NEW d \in Directions, Send(d) PROVE EndsInv'
  <2>1. /\ fin[d] = "open" /\ sent' = [sent EXCEPT ![d] = @ + 1]
        /\ UNCHANGED <<phase, handshake, fin, taken, shut>>
    BY <1>1 DEF Send
  <2>2. \A e \in Directions : taken'[e] <= sent'[e]
    BY <2>1
  <2> QED
    BY <2>1, <2>2
<1>2. ASSUME NEW d \in Directions, Fin(d) \/ Consume(d) PROVE EndsInv'
  BY <1>2 DEF Fin, Consume, Connected
<1>3. ASSUME NEW d \in Directions, Copy(d) PROVE EndsInv'
  <2>1. CASE Read(d)
    BY <2>1 DEF Read, Copying
  <2>2. CASE ReadEnds(d)
    BY <2>2 DEF ReadEnds, AtEnd, AtEof, Shut, Copying
  <2>3. CASE Write(d)
    BY <2>3 DEF Write, Copying
  <2>4. CASE WriteFails(d)
    BY <2>4 DEF WriteFails, Shut, Copying, Other
  <2> QED
    BY <1>3, <2>1, <2>2, <2>3, <2>4 DEF Copy
<1>4. CASE Reply \/ Tick
  BY <1>4 DEF Reply, Tick
<1>5. CASE Connecting
  BY <1>5 DEF Connecting, Resolved, Connect, ConnectFails, ConnectTimesOut
<1>6. CASE ReadReply
  <2>1. PICK k \in taken["rx"] .. sent["rx"] : taken' = [taken EXCEPT !["rx"] = k]
    BY <1>6 DEF ReadReply
  <2>2. phase' \in {"response", "relay", "closed"} /\ UNCHANGED <<sent, fin, shut>>
    BY <1>6 DEF ReadReply, AfterReply
  <2>3. ASSUME NEW d \in Directions PROVE taken'[d] <= sent'[d]
    <3>1. CASE d = "rx"
      <4>1. taken'["rx"] = k
        BY <2>1, <3>1
      <4> QED
        BY <2>2, <3>1, <4>1
    <3>2. CASE d # "rx"
      <4>1. taken'[d] = taken[d]
        BY <2>1, <3>2
      <4> QED
        BY <2>2, <4>1
    <3> QED
      BY <3>1, <3>2
  <2> QED
    BY <2>2, <2>3
<1>7. CASE Handshaking /\ ~ReadReply
  BY <1>7 DEF Handshaking, HeaderFails, WriteRequest, AfterWrite, HandshakeReset, ReplyTooLarge, ReplyEof
<1>8. CASE RelayEnds \/ UNCHANGED vars
  BY <1>8 DEF RelayEnds, BothDone, vars
<1> QED
  BY <1>1, <1>2, <1>3, <1>4, <1>5, <1>6, <1>7, <1>8 DEF Next, Ends, Closed

LEMMA QuietNext == TypeOK /\ HandshakeInv /\ QuietInv /\ [Next]_vars => QuietInv'
<1> SUFFICES ASSUME TypeOK, HandshakeInv, QuietInv, [Next]_vars, Quiet,
                    phase' \in {"resolve", "connecting", "request", "response"}
             PROVE  sent'["rx"] = 0
  BY DEF QuietInv, Quiet
<1> USE TunnelAssumption DEF TypeOK, HandshakeInv, QuietInv, Quiet, handshake, streams, Directions
<1>1. ASSUME NEW d \in Directions, Send(d) PROVE sent'["rx"] = 0
  BY <1>1 DEF Send, MaySend, Connected
<1>2. ASSUME NEW d \in Directions, Fin(d) \/ Consume(d) \/ Copy(d) PROVE sent'["rx"] = 0
  BY <1>2 DEF Fin, Consume, Copy, Read, ReadEnds, Write, WriteFails, Copying
<1>3. CASE Reply \/ Tick
  BY <1>3 DEF Reply, Tick
<1>4. CASE Connecting
  BY <1>4 DEF Connecting, Resolved, Connect, ConnectFails, ConnectTimesOut
<1>5. CASE Handshaking
  BY <1>5 DEF Handshaking, HeaderFails, WriteRequest, AfterWrite, HandshakeReset, ReadReply,
              ReplyTooLarge, ReplyEof
<1>6. CASE RelayEnds \/ UNCHANGED vars
  BY <1>6 DEF RelayEnds, BothDone, vars
<1> QED
  BY <1>1, <1>2, <1>3, <1>4, <1>5, <1>6 DEF Next, Ends, Closed

\* One step of a copy touches nothing of the other direction.
LEMMA WholeNext ==
    TypeOK /\ HandshakeInv /\ QuietInv /\ Quiet /\ (\A d \in Directions : Whole(d)) /\ [Next]_vars =>
        \A d \in Directions : Whole(d)'
<1> SUFFICES ASSUME TypeOK, HandshakeInv, QuietInv, Quiet, \A e \in Directions : Whole(e),
                    [Next]_vars, NEW d \in Directions
             PROVE  Whole(d)'
  OBVIOUS
<1> USE DEF TypeOK, handshake, streams, Whole
<1>1. ASSUME NEW e \in Directions, Send(e) PROVE Whole(d)'
  <2>1. UNCHANGED <<taken, buf, out, shut>> /\ sent' = [sent EXCEPT ![e] = @ + 1]
    BY <1>1 DEF Send
  <2>2. sent[d] \in Nat /\ sent'[d] \in {sent[d], sent[d] + 1}
    <3> HIDE DEF Whole
    <3> QED
      BY <2>1
  <2>3. taken[d] \in Nat /\ taken[d] <= sent[d]
    OBVIOUS
  <2>4. taken'[d] <= sent'[d]
    BY ONLY <2>1, <2>2, <2>3
  <2> QED
    BY <2>1, <2>4
<1>2. ASSUME NEW e \in Directions, Fin(e) \/ Consume(e) PROVE Whole(d)'
  <2>1. CASE Fin(e)
    BY <2>1 DEF Fin
  <2>2. CASE Consume(e)
    BY <2>2 DEF Consume
  <2> QED
    BY <1>2, <2>1, <2>2
<1>3. ASSUME NEW e \in Directions, Copy(e) PROVE Whole(d)'
  <2>1. CASE Read(e)
    <3>1. /\ buf[e] = 0 /\ taken[e] < sent[e]
          /\ taken' = [taken EXCEPT ![e] = @ + 1]
          /\ buf' = [buf EXCEPT ![e] = taken[e] + 1]
          /\ UNCHANGED <<sent, out, shut>>
      BY <2>1 DEF Read, Copying, BufferFree
    <3>2. CASE d = e
      BY <3>1, <3>2
    <3>3. CASE d # e
      BY <3>1, <3>3
    <3> QED
      BY <3>2, <3>3
  <2>2. CASE ReadEnds(e)
    BY <2>2 DEF ReadEnds, Shut, Copying
  <2>3. CASE Write(e)
    <3>1. /\ e \notin shut /\ buf[e] # 0
          /\ out' = [out EXCEPT ![e] = Append(@, buf[e])]
          /\ buf' = [buf EXCEPT ![e] = 0]
          /\ UNCHANGED <<sent, taken, shut>>
      BY <2>3 DEF Write, FreeBuf, Copying
    <3>2. CASE d = e
      <4>1. out[e] \in Seq(Nat) /\ buf[e] = Len(out[e]) + 1
        BY <3>1
      <4>2. out'[e] = Append(out[e], buf[e]) /\ buf'[e] = 0
        BY <3>1
      <4>3. Len(out'[e]) = Len(out[e]) + 1 /\ \A i \in 1 .. Len(out'[e]) : out'[e][i] = i
        <5>1. \A i \in 1 .. Len(out[e]) : out[e][i] = i
          OBVIOUS
        <5> QED
          BY ONLY <4>1, <4>2, <5>1
      <4>4. taken[e] = Len(out[e]) + 1 /\ taken[e] <= sent[e]
        BY <3>1
      <4>5. taken'[e] = Len(out'[e]) /\ taken'[e] <= sent'[e]
        BY <3>1, <4>3, <4>4
      <4> QED
        BY <3>2, <4>2, <4>3, <4>5
    <3>3. CASE d # e
      BY <3>1, <3>3
    <3> QED
      BY <3>2, <3>3
  <2>4. CASE WriteFails(e)
    BY <2>4 DEF WriteFails, FreeBuf, Shut, Copying
  <2> QED
    BY <1>3, <2>1, <2>2, <2>3, <2>4 DEF Copy
<1>4. CASE Reply \/ Tick
  BY <1>4 DEF Reply, Tick
<1>5. CASE Connecting
  BY <1>5 DEF Connecting, Resolved, Connect, ConnectFails, ConnectTimesOut
<1>6. CASE ReadReply
  <2>1. PICK k \in taken["rx"] .. sent["rx"] : taken' = [taken EXCEPT !["rx"] = k]
    BY <1>6 DEF ReadReply
  <2>2. phase = "response" /\ UNCHANGED <<sent, buf, out, shut>>
    BY <1>6 DEF ReadReply
  <2>3. taken["rx"] = 0 /\ sent["rx"] = 0
    BY <2>2 DEF QuietInv, Directions
  <2>4. taken' = taken
    BY <2>1, <2>3 DEF Directions
  <2> QED
    BY <2>2, <2>4
<1>7. CASE Handshaking /\ ~ReadReply
  BY <1>7 DEF Handshaking, HeaderFails, WriteRequest, HandshakeReset, ReplyTooLarge, ReplyEof
<1>8. CASE RelayEnds \/ UNCHANGED vars
  BY <1>8 DEF RelayEnds, BothDone, vars
<1> QED
  BY <1>1, <1>2, <1>3, <1>4, <1>5, <1>6, <1>7, <1>8 DEF Next, Ends, Closed

LEMMA EndedNext ==
    TypeOK /\ HandshakeInv /\ (\A d \in Directions : Whole(d) /\ Ended(d)) /\ [Next]_vars =>
        \A d \in Directions : Ended(d)'
<1> SUFFICES ASSUME TypeOK, HandshakeInv, \A e \in Directions : Whole(e) /\ Ended(e),
                    [Next]_vars, NEW d \in Directions
             PROVE  Ended(d)'
  OBVIOUS
<1> USE DEF TypeOK, handshake, streams, Ended, Directions, Other
<1>1. ASSUME NEW e \in Directions, Send(e) PROVE Ended(d)'
  <2>1. /\ fin[e] = "open" /\ sent' = [sent EXCEPT ![e] = @ + 1]
        /\ UNCHANGED <<fin, out, shut>>
    BY <1>1 DEF Send
  <2>2. fin[d] = "eof" => sent'[d] = sent[d]
    BY <2>1
  <2> QED
    BY <2>1, <2>2
<1>2. ASSUME NEW e \in Directions, Fin(e) \/ Consume(e) PROVE Ended(d)'
  <2>1. UNCHANGED <<sent, out, shut>>
    BY <1>2 DEF Fin, Consume
  <2>2. \/ UNCHANGED fin
        \/ fin[e] = "open" /\ fin' = [fin EXCEPT ![e] = "eof"]
        \/ fin' = [fin EXCEPT ![e] = "reset"]
    BY <1>2 DEF Fin, Consume
  <2> QED
    BY <2>1, <2>2
<1>3. ASSUME NEW e \in Directions, Copy(e) PROVE Ended(d)'
  <2>1. CASE Read(e)
    BY <2>1 DEF Read
  <2>2. CASE ReadEnds(e)
    BY <2>2 DEF ReadEnds, AtEnd, AtEof, Shut, Copying, Whole
  <2>3. CASE Write(e)
    BY <2>3 DEF Write, Copying
  <2>4. CASE WriteFails(e)
    BY <2>4 DEF WriteFails, Shut
  <2> QED
    BY <1>3, <2>1, <2>2, <2>3, <2>4 DEF Copy
<1>4. CASE Reply \/ Tick
  BY <1>4 DEF Reply, Tick
<1>5. CASE Connecting
  BY <1>5 DEF Connecting, Resolved, Connect, ConnectFails, ConnectTimesOut
<1>6. CASE Handshaking
  BY <1>6 DEF Handshaking, HeaderFails, WriteRequest, HandshakeReset, ReadReply, ReplyTooLarge, ReplyEof
<1>7. CASE RelayEnds \/ UNCHANGED vars
  BY <1>7 DEF RelayEnds, BothDone, vars
<1> QED
  BY <1>1, <1>2, <1>3, <1>4, <1>5, <1>6, <1>7 DEF Next, Ends, Closed

\* The invariant of one tunnel holds throughout.
THEOREM TunnelInvariance == SafetySpec => []TInv
<1>1. TInv /\ [Next]_vars => TInv'
  <2>1. Quiet' <=> Quiet
    BY DEF Quiet
  <2> QED
    BY <2>1, TypeNext, HandshakeNext, EndsNext, QuietNext, WholeNext, EndedNext DEF TInv
<1> QED
  BY <1>1, TInvInit, PTL DEF SafetySpec

\* Every variable of a tunnel keeps its type; in particular the request ends
\* where it should (http.rs 36-47).
THEOREM TunnelTypeCorrect == SafetySpec => []TypeOK
<1>1. TInv => TypeOK
  BY DEF TInv
<1> QED
  BY <1>1, TunnelInvariance, PTL

\* Not a byte passes before the upstream proxy agreed (http.rs 53-106).
THEOREM NothingBeforeTunnelCorrect == SafetySpec => []NothingBeforeTunnel
<1>1. TInv => NothingBeforeTunnel
  BY DEF TInv, HandshakeInv, Agreed, NothingBeforeTunnel, Directions
<1> QED
  BY <1>1, TunnelInvariance, PTL

\* Delivery is in order, without loss or repetition, unless the destination
\* behind CONNECT speaks first (relay.rs 71-98).
THEOREM InOrderCorrect == ASSUME Quiet PROVE SafetySpec => []InOrder
<1>1. TInv => InOrder
  BY DEF TInv, Whole, InOrder
<1> QED
  BY <1>1, TunnelInvariance, PTL

\* A direction ends only with its own source, and then it is complete, unless
\* the destination behind CONNECT speaks first (relay.rs 71-98).
THEOREM HalfCloseCorrect == ASSUME Quiet PROVE SafetySpec => []HalfClose
<1>1. TInv => HalfClose
  BY DEF TInv, TypeOK, Ended, HalfClose
<1> QED
  BY <1>1, TunnelInvariance, PTL

-----------------------------------------------------------------------------
(* Progress: what liveness rests on, without fairness. *)

\* A step that leaves alone what the copy of d has read, holds and ended leaves
\* it what it can do.
LEMMA TurnKept ==
    ASSUME TypeOK, [Next]_vars, NEW d \in Directions, CanCopy(d),
           taken'[d] = taken[d], buf'[d] = buf[d], d \in shut' <=> d \in shut
    PROVE  CanCopy(d)'
<1> USE DEF TypeOK, handshake, streams, CanCopy, Copying, AtEnd, AtEof, BufferFree, HasRoom
<1>1. ASSUME NEW e \in Directions, Send(e) PROVE CanCopy(d)'
  BY <1>1 DEF Send
<1>2. ASSUME NEW e \in Directions, Fin(e) PROVE CanCopy(d)'
  BY <1>2 DEF Fin, Directions, Other
<1>3. ASSUME NEW e \in Directions, Consume(e) PROVE CanCopy(d)'
  BY <1>3, TunnelAssumption DEF Consume
<1>4. ASSUME NEW e \in Directions, Copy(e) PROVE CanCopy(d)'
  <2>1. CASE Read(e)
    BY <2>1 DEF Read
  <2>2. CASE ReadEnds(e)
    BY <2>2 DEF ReadEnds, Shut
  <2>3. CASE Write(e)
    <3>1. e # d
      BY <2>3 DEF Write, FreeBuf
    <3> QED
      BY <2>3, <3>1 DEF Write, FreeBuf
  <2>4. CASE WriteFails(e)
    BY <2>4 DEF WriteFails, FreeBuf, Shut
  <2> QED
    BY <1>4, <2>1, <2>2, <2>3, <2>4 DEF Copy
<1>5. CASE Reply \/ Tick
  BY <1>5 DEF Reply, Tick
<1>6. CASE Connecting \/ Handshaking
  BY <1>6 DEF Connecting, Resolved, Connect, ConnectFails, ConnectTimesOut, Handshaking,
              HeaderFails, WriteRequest, HandshakeReset, ReadReply, ReplyTooLarge, ReplyEof
<1>7. CASE RelayEnds
  BY <1>7 DEF RelayEnds, BothDone
<1>8. CASE UNCHANGED vars
  BY <1>8 DEF vars
<1> QED
  BY <1>1, <1>2, <1>3, <1>4, <1>5, <1>6, <1>7, <1>8 DEF Next, Ends, Closed

\* No peer and no other copy takes its turn from a copy (relay.rs 53-57, 71-98).
THEOREM CopyKeepsTurnCorrect == SafetySpec => CopyKeepsTurn
<1>1. TInv /\ [Next]_vars =>
        [\A d \in Directions :
            CanCopy(d) /\ UNCHANGED <<taken[d], buf[d], d \in shut>> => CanCopy(d)']_vars
  <2> SUFFICES ASSUME TInv, [Next]_vars, NEW d \in Directions, CanCopy(d),
                      UNCHANGED <<taken[d], buf[d], d \in shut>>
               PROVE  CanCopy(d)'
    BY Zenon
  <2>1. taken'[d] = taken[d] /\ buf'[d] = buf[d] /\ (d \in shut' <=> d \in shut)
    OBVIOUS
  <2> QED
    BY <2>1, TurnKept DEF TInv
<1> QED
  BY <1>1, TunnelInvariance, PTL DEF SafetySpec, CopyKeepsTurn

StagesCount ==
    /\ phase = "resolve" => StagesLeft = 5
    /\ phase = "connecting" => StagesLeft = 4
    /\ phase = "request" => StagesLeft = 3
    /\ phase = "response" => StagesLeft = 2
    /\ phase = "relay" => StagesLeft = 1
    /\ phase = "closed" => StagesLeft = 0

LEMMA StageValues == StagesCount /\ StagesCount'
BY Zenon DEF StagesCount, StagesLeft

\* What is left to do is a number.
WorkCounts ==
    /\ Work \in Nat
    /\ CopyWork("tx") \in Nat /\ CopyWork("rx") \in Nat
    /\ StagesLeft \in Nat

LEMMA WorkType == TypeOK /\ EndsInv => WorkCounts
<1> SUFFICES ASSUME TypeOK, EndsInv PROVE WorkCounts
  OBVIOUS
<1>1. ASSUME NEW d \in Directions PROVE CopyWork(d) \in Nat
  <2>1. sent[d] \in Nat /\ taken[d] \in Nat /\ taken[d] <= sent[d]
    BY DEF TypeOK, EndsInv
  <2>2. sent[d] - taken[d] \in Nat
    BY <2>1
  <2> QED
    BY <2>2 DEF CopyWork
<1>2. StagesLeft \in Nat
  <2>1. phase \in {"resolve", "connecting", "request", "response", "relay", "closed"}
    BY DEF TypeOK
  <2> QED
    BY <2>1, StageValues DEF StagesCount
<1>3. RequestParts - request \in Nat /\ ReplyParts - replyRead \in Nat
  BY TunnelAssumption DEF TypeOK
<1>4. CopyWork("tx") \in Nat /\ CopyWork("rx") \in Nat
  BY <1>1 DEF Directions
<1>5. Work \in Nat
  BY <1>2, <1>3, <1>4 DEF Work
<1> QED
  BY <1>2, <1>4, <1>5 DEF WorkCounts

\* A copy that does something does some of its own work and none of the other's.
LEMMA CopyWorks ==
    ASSUME TypeOK, NEW d \in Directions, Copy(d)
    PROVE  /\ CopyWork(d)' < CopyWork(d) /\ CopyWork(Other(d))' = CopyWork(Other(d))
           /\ UNCHANGED <<phase, request, replyRead>>
<1> DEFINE e == Other(d)
<1>1. e \in Directions /\ e # d
  BY DEF Directions, Other
<1>2. UNCHANGED <<phase, request, replyRead, sent>>
  BY DEF Copy, Read, ReadEnds, Write, WriteFails, handshake
<1>3. /\ sent[d] \in Nat /\ taken[d] \in Nat /\ sent[e] \in Nat /\ taken[e] \in Nat
  BY <1>1 DEF TypeOK
<1>4. taken'[e] = taken[e] /\ buf'[e] = buf[e] /\ (e \in shut' <=> e \in shut)
  BY <1>1 DEF TypeOK, Copy, Read, ReadEnds, Write, WriteFails, FreeBuf, Shut
<1>5. \/ taken'[d] = taken[d] + 1 /\ buf[d] = 0 /\ (d \in shut' <=> d \in shut)
      \/ taken'[d] = taken[d] /\ buf'[d] = buf[d] /\ d \notin shut /\ d \in shut'
      \/ /\ taken'[d] = taken[d] /\ buf[d] # 0 /\ buf'[d] = 0
         /\ d \in shut => d \in shut'
  BY DEF TypeOK, Copy, Read, ReadEnds, Write, WriteFails, FreeBuf, BufferFree, Shut, Copying
<1>6. CopyWork(e)' = CopyWork(e)
  BY <1>2, <1>4 DEF CopyWork
<1>7. CopyWork(d)' < CopyWork(d)
  BY <1>2, <1>3, <1>5 DEF CopyWork
<1> QED
  BY <1>2, <1>6, <1>7

\* To read more of what was sent leaves less to copy.
LEMMA MoreTaken ==
    ASSUME NEW d \in Directions, UNCHANGED <<sent, buf, shut>>,
           sent[d] \in Nat, taken[d] \in Nat, taken'[d] \in Nat, taken[d] <= taken'[d]
    PROVE  CopyWork(d)' <= CopyWork(d)
<1> DEFINE full == IF buf[d] = 0 THEN 0 ELSE 1
           live == IF d \in shut THEN 0 ELSE 1
<1>1. full \in Nat /\ live \in Nat
  OBVIOUS
<1>2. CopyWork(d) = 2 * (sent[d] - taken[d]) + full + live
  BY DEF CopyWork
<1>3. CopyWork(d)' = 2 * (sent[d] - taken'[d]) + full + live
  BY DEF CopyWork
<1> HIDE DEF full, live
<1> QED
  BY <1>1, <1>2, <1>3

\* A step of the handshake does some of it, and leaves the copies no more to do.
LEMMA HandshakeWorks ==
    ASSUME TypeOK, EndsInv, TypeOK', Connecting \/ Handshaking \/ RelayEnds
    PROVE  /\ StagesLeft' <= StagesLeft /\ request <= request' /\ replyRead <= replyRead'
           /\ \/ StagesLeft' < StagesLeft
              \/ request < request' \/ replyRead < replyRead'
           /\ CopyWork("tx")' = CopyWork("tx") /\ CopyWork("rx")' <= CopyWork("rx")
<1> USE TunnelAssumption, StageValues DEF StagesCount, TypeOK, handshake, streams
<1>1. CASE ReadReply
  <2>1. PICK r \in replyRead + 1 .. replySent, k \in taken["rx"] .. sent["rx"] :
           /\ replyRead' = r
           /\ taken' = [taken EXCEPT !["rx"] = k]
           /\ phase' \in {"response", "relay", "closed"}
    BY <1>1 DEF ReadReply, AfterReply
  <2>2. phase = "response" /\ UNCHANGED <<request, sent, buf, shut>>
    BY <1>1 DEF ReadReply
  <2>3. StagesLeft' <= StagesLeft /\ replyRead < replyRead'
    <3>1. StagesLeft = 2 /\ StagesLeft' \in {0, 1, 2}
      BY <2>1, <2>2
    <3> QED
      BY <2>1, <3>1
  <2>4. /\ taken'["tx"] = taken["tx"] /\ taken'["rx"] = k
        /\ sent["rx"] \in Nat /\ taken["rx"] \in Nat /\ taken["rx"] <= k /\ k \in Nat
    BY <2>1 DEF Directions
  <2>5. CopyWork("tx")' = CopyWork("tx")
    BY <2>2, <2>4 DEF CopyWork
  <2>6. CopyWork("rx")' <= CopyWork("rx")
    <3>1. "rx" \in Directions /\ taken'["rx"] \in Nat /\ taken["rx"] <= taken'["rx"]
      BY <2>4 DEF Directions
    <3> QED
      BY <2>2, <2>4, <3>1, MoreTaken
  <2> QED
    BY <2>2, <2>3, <2>5, <2>6
<1>2. CASE ~ReadReply
  <2>1. UNCHANGED <<replyRead, sent, taken, buf, shut>>
    BY <1>2 DEF Connecting, Resolved, Connect, ConnectFails, ConnectTimesOut, RelayEnds,
                Handshaking, HeaderFails, WriteRequest, HandshakeReset, ReplyTooLarge, ReplyEof
  <2>2. \/ request < request' /\ phase = "request" /\ phase' \in {"request", "response"}
        \/ UNCHANGED request /\ phase = "resolve" /\ phase' = "connecting"
        \/ /\ UNCHANGED request /\ phase \in {"resolve", "connecting"}
           /\ phase' \in {"request", "relay", "closed"}
        \/ UNCHANGED request /\ phase \in {"request", "response", "relay"} /\ phase' = "closed"
    BY <1>2 DEF Connecting, Resolved, Connect, ConnectFails, ConnectTimesOut, RelayEnds, Handshaking,
                HeaderFails, WriteRequest, AfterWrite, HandshakeReset, ReplyTooLarge, ReplyEof
  <2>3. CopyWork("tx")' = CopyWork("tx") /\ CopyWork("rx")' = CopyWork("rx")
    BY <2>1 DEF CopyWork
  <2>4. CopyWork("rx") \in Nat
    BY WorkType DEF WorkCounts
  <2> QED
    BY <2>1, <2>2, <2>3, <2>4
<1> QED
  BY <1>1, <1>2

\* The proxy's steps use up work and only chunks add some: neither the handshake
\* nor a copy can loop on what it has (http.rs 36-81, relay.rs 78-96).
THEOREM WorkShrinksCorrect == SafetySpec => WorkShrinks
<1> DEFINE Kept == UNCHANGED <<phase, request, replyRead, taken, buf, out, shut>>
           Shrinks == sent' = sent => (Work' < Work \/ (Work' = Work /\ Kept))
           Counted == TInv /\ WorkCounts
<1>1. Counted /\ Counted' /\ [Next]_vars => [Work' \in Nat /\ Shrinks]_vars
  <2> SUFFICES ASSUME Counted, Counted', [Next]_vars, sent' = sent
               PROVE  Work' < Work \/ (Work' = Work /\ Kept)
    BY DEF WorkCounts
  <2>1. /\ RequestParts \in Nat /\ ReplyParts \in Nat
        /\ request \in Nat /\ replyRead \in Nat /\ request' \in Nat /\ replyRead' \in Nat
    BY TunnelAssumption DEF TInv, TypeOK
  <2>2. ASSUME NEW d \in Directions, Copy(d) PROVE Work' < Work
    <3>1. /\ CopyWork(d)' < CopyWork(d) /\ CopyWork(Other(d))' = CopyWork(Other(d))
          /\ UNCHANGED <<phase, request, replyRead>>
      BY <2>2, CopyWorks DEF TInv
    <3>2. StagesLeft' = StagesLeft
      BY <3>1 DEF StagesLeft
    <3>3. \/ CopyWork("tx")' < CopyWork("tx") /\ CopyWork("rx")' = CopyWork("rx")
          \/ CopyWork("rx")' < CopyWork("rx") /\ CopyWork("tx")' = CopyWork("tx")
      <4>1. CASE d = "tx"
        BY <3>1, <4>1 DEF Other
      <4>2. CASE d = "rx"
        BY <3>1, <4>2 DEF Other
      <4> QED
        BY <4>1, <4>2 DEF Directions
    <3> QED
      BY <2>1, <3>1, <3>2, <3>3 DEF Work, WorkCounts
  <2>3. CASE Connecting \/ Handshaking \/ RelayEnds
    BY <2>1, <2>3, HandshakeWorks DEF TInv, Work, WorkCounts
  <2>4. ASSUME Kept, UNCHANGED sent PROVE Work' = Work /\ Kept
    BY <2>4, StageValues DEF Work, CopyWork, StagesCount, TInv, TypeOK
  <2>5. ASSUME NEW d \in Directions, Ends(d) PROVE Kept
    BY <2>5 DEF Ends, Send, Fin, Consume, handshake
  <2>6. CASE Reply \/ Tick \/ UNCHANGED vars
    BY <2>6, <2>4 DEF Reply, Tick, vars, handshake, streams
  <2> QED
    BY <2>2, <2>3, <2>4, <2>5, <2>6 DEF Next, Closed
<1>2. TInv => WorkCounts
  BY WorkType DEF TInv
<1> QED
  BY <1>1, <1>2, TunnelInvariance, PTL DEF SafetySpec, WorkShrinks

-----------------------------------------------------------------------------
(* Where the connect timeout bounds the whole of connect_upstream. *)

\* The lookup of the addresses takes no time: they are in the DNS cache, or are
\* literals (upstream_address/mod.rs 62-90).
InstantLookup == [][phase = "resolve" => elapsed' = elapsed]_vars

\* The timer starts with the connect (connect.rs 26-45).
TimerInv ==
    /\ phase = "resolve" => elapsed = 0
    /\ phase = "connecting" => deadline = ConnectTimeout /\ elapsed <= deadline

LEMMA TimerNext ==
    ASSUME TypeOK, TimerInv, [Next]_vars,
           [phase = "resolve" => elapsed' = elapsed]_vars
    PROVE  TimerInv'
<1>1. CASE UNCHANGED <<phase, elapsed, deadline>>
  BY <1>1 DEF TimerInv
<1>2. CASE Tick
  <2>1. CASE phase = "resolve"
    <3>1. elapsed' = elapsed
      BY <2>1 DEF vars, handshake
    <3> QED
      BY <1>2, <2>1, <3>1 DEF Tick, TypeOK
  <2>2. CASE phase = "connecting" /\ elapsed < deadline
    <3>1. /\ elapsed' = elapsed + 1 /\ deadline' = deadline /\ phase' = "connecting"
          /\ elapsed \in Nat /\ deadline \in Nat
      BY <1>2, <2>2 DEF Tick, TypeOK
    <3> QED
      BY <2>2, <3>1 DEF TimerInv
  <2> QED
    BY <1>2, <2>1, <2>2 DEF Tick
<1>3. CASE Resolved
  <2>1. elapsed = 0 /\ elapsed' = 0 /\ deadline' = elapsed + ConnectTimeout /\ phase' = "connecting"
    BY <1>3 DEF Resolved, TimerInv
  <2> QED
    BY <2>1, TunnelAssumption DEF TunnelAssumption, TimerInv
<1>4. CASE phase' \notin {"resolve", "connecting"}
  BY <1>4 DEF TimerInv
<1>5. CASE \E d \in Directions : Ends(d) \/ Copy(d)
  <2>1. UNCHANGED <<phase, elapsed, deadline>>
    BY <1>5 DEF Ends, Send, Fin, Consume, Copy, Read, ReadEnds, Write, WriteFails, handshake
  <2> QED
    BY <1>1, <2>1
<1>6. CASE Connect \/ ConnectFails \/ ConnectTimesOut \/ Handshaking \/ RelayEnds
  <2>1. phase' \notin {"resolve", "connecting"}
    BY <1>6 DEF Connect, ConnectFails, ConnectTimesOut, RelayEnds, Handshaking, HeaderFails,
                WriteRequest, AfterWrite, HandshakeReset, ReadReply, AfterReply, ReplyTooLarge, ReplyEof
  <2> QED
    BY <1>4, <2>1
<1>7. CASE Reply \/ Closed \/ UNCHANGED vars
  <2>1. UNCHANGED <<phase, elapsed, deadline>>
    BY <1>7 DEF Reply, Closed, vars, handshake
  <2> QED
    BY <1>1, <2>1
<1> QED
  BY <1>2, <1>3, <1>5, <1>6, <1>7 DEF Next, Connecting

\* With names that resolve at once, connecting takes no longer than
\* connect_timeout: the lookup, which runs before the timer starts, is all that
\* the timeout leaves unbounded (connect.rs 26-45).
THEOREM ConnectBoundedWhere == SafetySpec /\ InstantLookup => []ConnectBounded
<1>1. Init => TimerInv
  BY DEF Init, TimerInv
<1>2. TypeOK /\ TimerInv /\ [Next]_vars /\ [phase = "resolve" => elapsed' = elapsed]_vars
      => TimerInv'
  BY TimerNext
<1>3. TypeOK /\ TimerInv => ConnectBounded
  BY TunnelAssumption DEF TunnelAssumption, TypeOK, TimerInv, ConnectBounded
<1> QED
  BY <1>1, <1>2, <1>3, TunnelTypeCorrect, PTL DEF SafetySpec, InstantLookup

-----------------------------------------------------------------------------
(* The tunnel implements the pipe. *)

LEMMA PipeInit == Init => EndToEnd!Init
BY DEF Init, EndToEnd!Init, Stage, Directions, EndToEnd!Directions

\* A step of an end, of the handshake, or of a copy is a step of the pipe or none.
LEMMA PipeNext ==
    TInv /\ Quiet /\ [Next]_vars => [EndToEnd!Next]_(EndToEnd!vars)
<1> SUFFICES ASSUME TInv, Quiet, [Next]_vars PROVE [EndToEnd!Next]_(EndToEnd!vars)
  OBVIOUS
<1> USE DEF handshake, streams, EndToEnd!vars, Stage
<1> USE DEF EndToEnd!Directions, EndToEnd!Other, Directions, Other
<1>1. ASSUME NEW d \in Directions, Send(d) PROVE EndToEnd!Send(d)
  BY <1>1 DEF Send, EndToEnd!Send
<1>2. ASSUME NEW d \in Directions, Fin(d) PROVE EndToEnd!Finish(d)
  BY <1>2 DEF Fin, EndToEnd!Finish
<1>3. ASSUME NEW d \in Directions, Consume(d) \/ Read(d) PROVE UNCHANGED EndToEnd!vars
  BY <1>3 DEF Consume, Read
<1>4. ASSUME NEW d \in Directions, ReadEnds(d) PROVE EndToEnd!PassEnd(d)
  <2>1. phase = "relay" /\ d \notin shut /\ shut' = shut \cup {d} /\ AtEnd(d)
        /\ buf[d] = 0 /\ UNCHANGED <<phase, sent, fin, out>>
    BY <1>4 DEF ReadEnds, Copying, Shut
  <2>2. taken[d] = Len(out[d])
    BY <2>1 DEF TInv, Whole
  <2> QED
    BY <2>1, <2>2 DEF EndToEnd!PassEnd, AtEnd, AtEof
<1>5. ASSUME NEW d \in Directions, Write(d) PROVE EndToEnd!Deliver(d)
  <2>1. phase = "relay" /\ d \notin shut /\ buf[d] # 0 /\ fin[Other(d)] # "reset"
        /\ out' = [out EXCEPT ![d] = Append(@, buf[d])]
        /\ UNCHANGED <<phase, sent, fin, shut>>
    BY <1>5 DEF Write, Copying
  <2>2. buf[d] = Len(out[d]) + 1 /\ Len(out[d]) < sent[d]
    <3>1. buf[d] = taken[d] /\ taken[d] = Len(out[d]) + 1 /\ taken[d] <= sent[d]
      BY <2>1 DEF TInv, Whole
    <3>2. Len(out[d]) \in Nat /\ sent[d] \in Nat
      BY DEF TInv, TypeOK
    <3> QED
      BY <3>1, <3>2
  <2> QED
    BY <2>1, <2>2 DEF EndToEnd!Deliver
<1>6. ASSUME NEW d \in Directions, WriteFails(d) PROVE EndToEnd!PassEnd(d)
  BY <1>6 DEF WriteFails, Copying, Shut, EndToEnd!PassEnd
<1>7. CASE Reply \/ Tick
  BY <1>7 DEF Reply, Tick
<1>8. CASE Connecting
  BY <1>8 DEF Connecting, Resolved, Connect, ConnectFails, ConnectTimesOut,
              EndToEnd!Next, EndToEnd!Open, EndToEnd!Fail
<1>9. CASE Handshaking
  BY <1>9 DEF Handshaking, HeaderFails, WriteRequest, AfterWrite, HandshakeReset, ReadReply,
              AfterReply, ReplyTooLarge, ReplyEof, EndToEnd!Next, EndToEnd!Open, EndToEnd!Fail
<1>10. CASE RelayEnds
  BY <1>10 DEF RelayEnds, BothDone, EndToEnd!Next, EndToEnd!Close
<1>11. CASE UNCHANGED vars
  BY <1>11 DEF vars
<1> QED
  BY <1>1, <1>2, <1>3, <1>4, <1>5, <1>6, <1>7, <1>8, <1>9, <1>10, <1>11
     DEF Next, Ends, Copy, Closed, EndToEnd!Next

\* The tunnel implements the pipe, unless the destination behind CONNECT speaks
\* first: no copy skips, repeats, or outlives its end, and the relay drops
\* nothing before both ends are passed on (connect.rs, http.rs, relay.rs).
THEOREM PipeRefinement == ASSUME Quiet PROVE SafetySpec => ImplementsPipe
<1>1. TInv /\ [Next]_vars => [EndToEnd!Next]_(EndToEnd!vars)
  BY PipeNext
<1> QED
  BY <1>1, PipeInit, TunnelInvariance, PTL DEF SafetySpec, ImplementsPipe, EndToEnd!SafetySpec

-----------------------------------------------------------------------------
(* The tunnel is the process() that its connection task awaits. *)

StepIs ==
    /\ phase = "resolve" => SessionStep = "resolve"
    /\ phase = "connecting" => SessionStep = "connect"
    /\ phase \in {"request", "response"} => SessionStep = "answer"
    /\ phase = "relay" => SessionStep = "relay"
    /\ phase = "closed" => SessionStep = "none"

RemoteIs ==
    /\ ~Connected => SessionRemote = "none"
    /\ Connected /\ Accepted /\ fin["rx"] = "open" => SessionRemote = "agreed"
    /\ Connected /\ Accepted /\ fin["rx"] # "open" => SessionRemote = "left"
    /\ (Connected /\ ~Accepted) /\ (fin["rx"] = "open" /\ replySent < ReplyParts) =>
          SessionRemote = "silent"
    /\ (Connected /\ ~Accepted) /\ ~(fin["rx"] = "open" /\ replySent < ReplyParts) =>
          SessionRemote = "gone"

LEMMA SessionValues == StepIs /\ StepIs' /\ RemoteIs /\ RemoteIs'
<1>1. StepIs /\ StepIs'
  BY Zenon DEF StepIs, SessionStep
<1>2. RemoteIs
  BY Zenon DEF RemoteIs, SessionRemote
<1>3. RemoteIs'
  BY Zenon DEF RemoteIs, SessionRemote
<1> QED
  BY <1>1, <1>2, <1>3

\* The client has finished or left, and the tunnel is still there.
Gone == phase # "closed" /\ fin["tx"] # "open"

\* A step of the tunnel as its one session sees it.
SessionMoves ==
    \/ UNCHANGED <<SessionStep, SessionRemote, Gone>>
    \/ SessionStep # "none" /\ Gone' /\ UNCHANGED <<SessionStep, SessionRemote>>
    \/ /\ SessionStep = "answer" /\ SessionRemote = "silent" /\ SessionRemote' = "agreed"
       /\ UNCHANGED <<SessionStep, Gone>>
    \/ /\ \/ SessionRemote = "silent" /\ SessionRemote' = "gone"
          \/ SessionRemote = "agreed" /\ SessionRemote' = "left"
       /\ UNCHANGED <<SessionStep, Gone>>
    \/ SessionStep = "resolve" /\ SessionStep' = "connect" /\ UNCHANGED <<SessionRemote, Gone>>
    \/ /\ SessionStep = "connect" /\ SessionStep' \in {"answer", "relay"}
       /\ SessionRemote' = "silent" /\ UNCHANGED Gone
    \/ /\ SessionStep = "answer" /\ SessionRemote \in {"agreed", "left"} /\ SessionStep' = "relay"
       /\ UNCHANGED <<SessionRemote, Gone>>
    \/ /\ \/ SessionStep \in {"resolve", "connect", "answer"}
          \/ SessionStep = "relay" /\ (Gone \/ SessionRemote \in {"gone", "left"})
       /\ SessionStep' = "none" /\ SessionRemote' = "none" /\ ~Gone'

LEMMA MovesAreSessions == SessionMoves => [Awaited!Next]_(Awaited!vars)
<1> DEFINE steps == [s \in {"this"} |-> SessionStep]
           gones == {s \in {"this"} : phase # "closed" /\ fin["tx"] # "open"}
           remotes == [s \in {"this"} |-> SessionRemote]
<1> SUFFICES ASSUME SessionMoves PROVE [Awaited!Next]_(Awaited!vars)
  OBVIOUS
<1>1. /\ steps["this"] = SessionStep /\ remotes["this"] = SessionRemote
      /\ "this" \in gones <=> Gone
  BY DEF Gone
<1>2. /\ steps' = [steps EXCEPT !["this"] = SessionStep']
      /\ remotes' = [remotes EXCEPT !["this"] = SessionRemote']
      /\ gones' = IF Gone' THEN gones \cup {"this"} ELSE gones \ {"this"}
  BY DEF Gone
<1>3. /\ SessionStep' = SessionStep => steps' = steps
      /\ SessionRemote' = SessionRemote => remotes' = remotes
      /\ (Gone' <=> Gone) => gones' = gones
  BY DEF Gone
<1>4. \/ Awaited!ClientLeaves("this") \/ Awaited!RemoteAgrees("this")
      \/ Awaited!RemoteLeaves("this") \/ Awaited!Resolve("this")
      \/ Awaited!Connect("this") \/ Awaited!Agree("this") \/ Awaited!End("this")
      \/ UNCHANGED <<steps, gones, remotes>>
  <2>1. CASE UNCHANGED <<SessionStep, SessionRemote, Gone>>
    BY <1>3, <2>1
  <2>2. CASE SessionStep # "none" /\ Gone' /\ UNCHANGED <<SessionStep, SessionRemote>>
    BY <1>1, <1>2, <1>3, <2>2 DEF Awaited!ClientLeaves
  <2>3. CASE /\ SessionStep = "answer" /\ SessionRemote = "silent" /\ SessionRemote' = "agreed"
             /\ UNCHANGED <<SessionStep, Gone>>
    BY <1>1, <1>2, <1>3, <2>3 DEF Awaited!RemoteAgrees
  <2>4. CASE /\ \/ SessionRemote = "silent" /\ SessionRemote' = "gone"
                \/ SessionRemote = "agreed" /\ SessionRemote' = "left"
             /\ UNCHANGED <<SessionStep, Gone>>
    BY <1>1, <1>2, <1>3, <2>4 DEF Awaited!RemoteLeaves
  <2>5. CASE /\ SessionStep = "resolve" /\ SessionStep' = "connect"
             /\ UNCHANGED <<SessionRemote, Gone>>
    BY <1>1, <1>2, <1>3, <2>5 DEF Awaited!Resolve
  <2>6. CASE /\ SessionStep = "connect" /\ SessionStep' \in {"answer", "relay"}
             /\ SessionRemote' = "silent" /\ UNCHANGED Gone
    BY <1>1, <1>2, <1>3, <2>6 DEF Awaited!Connect
  <2>7. CASE /\ SessionStep = "answer" /\ SessionRemote \in {"agreed", "left"}
             /\ SessionStep' = "relay" /\ UNCHANGED <<SessionRemote, Gone>>
    BY <1>1, <1>2, <1>3, <2>7 DEF Awaited!Agree
  <2>8. CASE /\ \/ SessionStep \in {"resolve", "connect", "answer"}
                \/ SessionStep = "relay" /\ (Gone \/ SessionRemote \in {"gone", "left"})
             /\ SessionStep' = "none" /\ SessionRemote' = "none" /\ ~Gone'
    BY <1>1, <1>2, <1>3, <2>8 DEF Awaited!End, Awaited!RemoteGone
  <2> QED
    BY <2>1, <2>2, <2>3, <2>4, <2>5, <2>6, <2>7, <2>8 DEF SessionMoves
<1> QED
  BY <1>4 DEF Awaited!Next, Awaited!vars

LEMMA SessionInit == Init => Awaited!Init
BY SessionValues DEF Init, Awaited!Init, StepIs, RemoteIs, Connected, Directions

LEMMA SessionNext == TInv /\ [Next]_vars => SessionMoves
<1> SUFFICES ASSUME TInv, [Next]_vars PROVE SessionMoves
  OBVIOUS
<1> USE TunnelAssumption, SessionValues
    DEF TInv, TypeOK, StepIs, RemoteIs, Gone, Connected, Accepted, handshake, streams, SessionMoves
<1>1. ASSUME UNCHANGED <<phase, reply, replySent, fin>> PROVE SessionMoves
  BY <1>1 DEF SessionStep, SessionRemote
<1>2. ASSUME NEW d \in Directions, Send(d) \/ Consume(d) \/ Copy(d) PROVE SessionMoves
  BY <1>1, <1>2 DEF Send, Consume, Copy, Read, ReadEnds, Write, WriteFails
<1>3. ASSUME NEW d \in Directions, Fin(d) PROVE SessionMoves
  <2>1. phase # "closed" /\ UNCHANGED <<phase, reply, replySent>> /\ SessionStep # "none"
    BY <1>3 DEF Fin
  <2>2. SessionStep' = SessionStep
    BY <2>1 DEF SessionStep
  <2>3. CASE d = "tx"
    <3>1. Gone' /\ fin'["rx"] = fin["rx"]
      BY <1>3, <2>3 DEF Fin, Directions
    <3>2. SessionRemote' = SessionRemote
      BY <2>1, <3>1 DEF SessionRemote
    <3> QED
      BY <2>1, <2>2, <3>1, <3>2
  <2>4. CASE d = "rx"
    <3>1. Connected /\ fin'["rx"] # "open" /\ fin'["tx"] = fin["tx"]
      BY <1>3, <2>4 DEF Fin, Directions
    <3>2. Gone' <=> Gone
      BY <2>1, <3>1
    <3>3. \/ SessionRemote' = SessionRemote
          \/ SessionRemote = "silent" /\ SessionRemote' = "gone"
          \/ SessionRemote = "agreed" /\ SessionRemote' = "left"
      BY <2>1, <3>1
    <3> QED
      BY <2>2, <3>2, <3>3
  <2> QED
    BY <2>3, <2>4 DEF Directions
<1>4. CASE Reply
  <2>1. /\ phase \in {"request", "response"} /\ fin["rx"] = "open" /\ replySent < ReplyParts
        /\ replySent' = replySent + 1 /\ UNCHANGED <<phase, fin>>
    BY <1>4 DEF Reply
  <2>2. SessionStep' = SessionStep /\ SessionStep = "answer" /\ SessionRemote = "silent"
    BY <2>1
  <2>3. SessionRemote' \in {"silent", "agreed", "gone"}
    BY <1>4, <2>1
  <2> QED
    BY <2>1, <2>2, <2>3
<1>5. CASE Tick
  BY <1>1, <1>5 DEF Tick
<1>6. CASE Connecting
  <2>1. /\ UNCHANGED <<reply, replySent, fin>>
        /\ fin["rx"] = "open" /\ replySent = 0 /\ ~Accepted
        /\ \/ phase = "resolve" /\ phase' = "connecting"
           \/ phase = "connecting" /\ phase' \in {"request", "relay"}
           \/ phase \in {"resolve", "connecting"} /\ phase' = "closed"
    BY <1>6 DEF Connecting, Resolved, Connect, ConnectFails, ConnectTimesOut, EndsInv
  <2> QED
    BY <2>1
<1>7. CASE Handshaking
  <2>1. CASE ReadReply
    <3>1. /\ phase = "response" /\ UNCHANGED <<reply, replySent, fin>>
          /\ \/ phase' \in {"response", "closed"}
             \/ phase' = "relay" /\ Accepted
      BY <2>1 DEF ReadReply, AfterReply
    <3>2. CASE phase' = "response"
      BY <1>1, <3>1, <3>2
    <3>3. CASE phase' = "closed"
      BY <3>1, <3>3
    <3>4. CASE phase' = "relay" /\ Accepted
      BY <3>1, <3>4
    <3> QED
      BY <3>1, <3>2, <3>3, <3>4
  <2>2. CASE WriteRequest
    <3>1. /\ phase = "request" /\ phase' \in {"request", "response"}
          /\ UNCHANGED <<reply, replySent, fin>>
      BY <2>2 DEF WriteRequest, AfterWrite
    <3>2. SessionStep' = SessionStep /\ SessionRemote' = SessionRemote
      BY <3>1
    <3> QED
      BY <3>1, <3>2
  <2>3. CASE HeaderFails \/ HandshakeReset \/ ReplyTooLarge \/ ReplyEof
    BY <2>3 DEF HeaderFails, HandshakeReset, ReplyTooLarge, ReplyEof
  <2> QED
    BY <1>7, <2>1, <2>2, <2>3 DEF Handshaking
<1>8. CASE RelayEnds
  <2>1. PICK d \in Directions : fin[d] # "open"
    BY <1>8 DEF RelayEnds, BothDone, EndsInv, Directions
  <2>2. Gone \/ SessionRemote \in {"gone", "left"}
    BY <1>8, <2>1 DEF RelayEnds, Directions
  <2> QED
    BY <1>8, <2>2 DEF RelayEnds
<1>9. CASE UNCHANGED vars
  BY <1>1, <1>9 DEF vars
<1> QED
  BY <1>2, <1>3, <1>4, <1>5, <1>6, <1>7, <1>8, <1>9 DEF Next, Ends, Closed

\* Every tunnel, whoever speaks first, is to its connection task the session that
\* it awaits: it relays only behind an upstream that agreed, and ends a relay only
\* when an end is gone (proxy_to_upstream/mod.rs 45-91). The fairness of a session
\* is left to TLC.
THEOREM SessionRefinement == SafetySpec => Awaited!SafetySpec
<1>1. TInv /\ [Next]_vars => [Awaited!Next]_(Awaited!vars)
  BY SessionNext, MovesAreSessions
<1> QED
  BY <1>1, SessionInit, TunnelInvariance, PTL DEF SafetySpec, Awaited!SafetySpec
=============================================================================
