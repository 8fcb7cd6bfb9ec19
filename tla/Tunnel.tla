------------------------------- MODULE Tunnel -------------------------------
(***************************************************************************)
(* One connection handed to a proxy upstream (ProxyToUpstream::proxy):     *)
(* connect_upstream with its timeout, the HTTP CONNECT handshake, and the  *)
(* bidirectional relay. "tx" is the direction from the client to the       *)
(* upstream, "rx" the other one. Bytes are numbered chunks, so a chunk     *)
(* that is lost, repeated or out of order shows in what is delivered.      *)
(***************************************************************************)
EXTENDS Naturals, Sequences

CONSTANTS
    Uses,            \* the uses to check, see below
    ConnectTimeout,  \* via.connect_timeout, in ticks
    MaxElapsed,      \* bound of the clock while connecting
    Chunks,          \* [Directions -> Nat]: chunks each end has to send
    Window,          \* chunks the sockets towards an end hold until it reads
    RequestParts,    \* writes the CONNECT request takes
    ReplyParts       \* pieces in which the CONNECT response header arrives

Directions == {"tx", "rx"}
Other(d) == IF d = "tx" THEN "rx" ELSE "tx"

ASSUME TunnelAssumption ==
    /\ Uses \subseteq [via : {"direct", "connect"}, serverFirst : BOOLEAN]
    /\ ConnectTimeout \in Nat /\ MaxElapsed \in Nat
    /\ Chunks \in [Directions -> Nat]
    /\ Window \in Nat \ {0}
    /\ RequestParts \in Nat \ {0} /\ ReplyParts \in Nat \ {0}

VARIABLES
    use,        \* via: is there a CONNECT target; serverFirst: does the
                \* destination speak before its client
    phase,      \* "resolve", "connecting", "request", "response", "relay", "closed"
    elapsed,    \* time since connect_upstream was called
    deadline,   \* when tokio::time::timeout fires, once it runs
    request,    \* parts of the CONNECT request written
    reply,      \* what the upstream proxy answers: "none", "2xx", "other"
    replySent,  \* pieces of the response header the upstream proxy has sent
    replyRead,  \* pieces of it that http_connect has read
    sent,       \* chunks the source of each direction has sent
    fin,        \* the source's end of each direction: "open", "eof", "reset"
    taken,      \* chunks of each direction the proxy has read
    buf,        \* the chunk copy_counted has read and not yet written; 0 if none
    out,        \* the chunks delivered to the other end's socket
    got,        \* how many of them that end has read
    shut        \* the directions whose writer is shut down: copy_counted is done

handshake == <<use, elapsed, deadline, request, reply, replySent, replyRead>>
streams == <<sent, fin, taken, buf, out, got, shut>>
vars == <<phase, handshake, streams>>

TypeOK ==
    /\ use \in Uses
    /\ phase \in {"resolve", "connecting", "request", "response", "relay", "closed"}
    /\ elapsed \in Nat /\ deadline \in Nat
    /\ request \in 0..RequestParts
    /\ reply \in {"none", "2xx", "other"}
    /\ replySent \in 0..ReplyParts /\ replyRead \in 0..replySent
    /\ sent \in [Directions -> Nat] /\ taken \in [Directions -> Nat]
    /\ fin \in [Directions -> {"open", "eof", "reset"}]
    /\ buf \in [Directions -> Nat]
    /\ out \in [Directions -> Seq(Nat)]
    /\ got \in [Directions -> Nat]
    /\ shut \subseteq Directions

Init ==
    /\ use \in Uses
    /\ phase = "resolve"
    /\ elapsed = 0 /\ deadline = 0
    /\ request = 0
    /\ reply = "none" /\ replySent = 0 /\ replyRead = 0
    /\ sent = [d \in Directions |-> 0]
    /\ fin = [d \in Directions |-> "open"]
    /\ taken = [d \in Directions |-> 0]
    /\ buf = [d \in Directions |-> 0]
    /\ out = [d \in Directions |-> <<>>]
    /\ got = [d \in Directions |-> 0]
    /\ shut = {}

-----------------------------------------------------------------------------
(* The two ends, as the proxy sees them. *)

Connected == phase \in {"request", "response", "relay"}
Accepted == reply = "2xx" /\ replySent = ReplyParts

\* The client writes whenever it likes. The upstream does once it is reached:
\* through CONNECT after the whole header, and a destination that does not
\* speak first after it has heard from the client.
MaySend(d) ==
    \/ d = "tx" /\ phase # "closed"
    \/ /\ d = "rx" /\ Connected
       /\ use.via = "connect" => Accepted
       /\ use.serverFirst \/ got["tx"] > 0

Send(d) ==
    /\ MaySend(d)
    /\ fin[d] = "open"
    /\ sent[d] < Chunks[d]
    /\ sent' = [sent EXCEPT ![d] = @ + 1]
    /\ UNCHANGED <<phase, handshake, fin, taken, buf, out, got, shut>>

\* An end closes its sending half, or resets its connection.
Fin(d) ==
    /\ phase # "closed"
    /\ d = "rx" => Connected
    /\ \/ fin[d] = "open" /\ fin' = [fin EXCEPT ![d] = "eof"]
       \/ fin[d] # "reset" /\ fin' = [fin EXCEPT ![d] = "reset"]
    /\ UNCHANGED <<phase, handshake, sent, taken, buf, out, got, shut>>

\* The end that d leads to reads, or not: nothing makes it.
Consume(d) ==
    /\ fin[Other(d)] # "reset"
    /\ got[d] < Len(out[d])
    /\ got' = [got EXCEPT ![d] = @ + 1]
    /\ UNCHANGED <<phase, handshake, sent, fin, taken, buf, out, shut>>

\* The upstream proxy answers the complete request, piece by piece.
Reply ==
    /\ phase \in {"request", "response"}
    /\ request = RequestParts
    /\ fin["rx"] = "open"
    /\ replySent < ReplyParts
    /\ replySent' = replySent + 1
    /\ IF reply = "none" THEN reply' \in {"2xx", "other"} ELSE reply' = reply
    /\ UNCHANGED <<use, phase, elapsed, deadline, request, replyRead, streams>>

-----------------------------------------------------------------------------
(* connect_upstream. The addresses are an argument of the future that the   *)
(* timeout wraps, so they are resolved before its timer starts.            *)

Tick ==
    /\ \/ phase = "resolve" /\ elapsed < MaxElapsed
       \/ phase = "connecting" /\ elapsed < deadline
    /\ elapsed' = elapsed + 1
    /\ UNCHANGED <<use, phase, deadline, request, reply, replySent, replyRead, streams>>

Resolved ==
    /\ phase = "resolve"
    /\ phase' = "connecting"
    /\ deadline' = elapsed + ConnectTimeout
    /\ UNCHANGED <<use, elapsed, request, reply, replySent, replyRead, streams>>

\* The stream is up: http_connect if there is a target, or the relay at once.
Connect ==
    /\ phase = "connecting"
    /\ phase' = IF use.via = "connect" THEN "request" ELSE "relay"
    /\ UNCHANGED <<handshake, streams>>

\* Unknown scheme, failed lookup, refused or failed connect, expired timer.
ConnectFails ==
    /\ phase \in {"resolve", "connecting"}
    /\ phase' = "closed"
    /\ UNCHANGED <<handshake, streams>>

NeverTimesOut == phase = "connecting" /\ FALSE /\ UNCHANGED vars       \* mutant
ConnectTimesOut ==
    /\ phase = "connecting"
    /\ elapsed = deadline
    /\ phase' = "closed"
    /\ UNCHANGED <<handshake, streams>>

-----------------------------------------------------------------------------
(* http_connect. *)

\* A header names an environment variable that is not set.
HeaderFails ==
    /\ phase = "request" /\ request = 0
    /\ phase' = "closed"
    /\ UNCHANGED <<handshake, streams>>

\* The loop ends with the last byte of the request.
WriteOn == "request"                                                \* mutant
AfterWrite == IF request + 1 = RequestParts THEN "response" ELSE "request"

WriteRequest ==
    /\ phase = "request"
    /\ fin["rx"] # "reset"
    /\ request' = request + 1
    /\ phase' = AfterWrite
    /\ UNCHANGED <<use, elapsed, deadline, reply, replySent, replyRead, streams>>

HandshakeReset ==
    /\ phase \in {"request", "response"}
    /\ fin["rx"] = "reset"
    /\ phase' = "closed"
    /\ UNCHANGED <<handshake, streams>>

\* What a complete response header leads to.
AnyReplyOpens == "relay"                                            \* mutant
AfterReply == IF reply = "2xx" THEN "relay" ELSE "closed"

\* One read: some of what has arrived. Once the header is complete, bytes that
\* came with its last piece are in the same buffer, and are dropped with it.
ReadReply ==
    /\ phase = "response"
    /\ \E r \in replyRead + 1 .. replySent, k \in taken["rx"] .. sent["rx"] :
          /\ k > taken["rx"] => r = ReplyParts
          /\ replyRead' = r
          /\ taken' = [taken EXCEPT !["rx"] = k]
          /\ phase' = IF r = ReplyParts THEN AfterReply ELSE "response"
    /\ UNCHANGED <<use, elapsed, deadline, request, reply, replySent, sent, fin, buf, out, got, shut>>

\* A header that fills the buffer before it ends.
ReplyTooLarge ==
    /\ phase = "response"
    /\ replyRead < replySent /\ replySent < ReplyParts
    /\ phase' = "closed"
    /\ UNCHANGED <<handshake, streams>>

\* The upstream proxy closed before its header was complete.
ReplyEof ==
    /\ phase = "response"
    /\ fin["rx"] = "eof"
    /\ replyRead = replySent
    /\ phase' = "closed"
    /\ UNCHANGED <<handshake, streams>>

-----------------------------------------------------------------------------
(* relay: two copy_counted futures under try_join. *)

Copying(d) == phase = "relay" /\ d \notin shut

OneBuffer(d) == \A e \in Directions : buf[e] = 0                     \* mutant
BufferFree(d) == buf[d] = 0

Read(d) ==
    /\ Copying(d)
    /\ BufferFree(d)
    /\ taken[d] < sent[d]
    /\ buf' = [buf EXCEPT ![d] = taken[d] + 1]
    /\ taken' = [taken EXCEPT ![d] = @ + 1]
    /\ UNCHANGED <<phase, handshake, sent, fin, out, got, shut>>

\* The writer of d is shut down, and copy_counted returns.
BothShut(d) == shut' = Directions                                   \* mutant
Shut(d) == shut' = shut \cup {d}

\* A source that finished while its chunks were still unread.
EofSeen(d) == fin[d] = "eof"                                        \* mutant
AtEof(d) == fin[d] = "eof" /\ taken[d] = sent[d]

\* read() returned 0, or failed; a reset discards what was not yet read.
AtEofOnly(d) == AtEof(d)                                            \* mutant
AtEnd(d) == AtEof(d) \/ fin[d] = "reset"

ReadEnds(d) ==
    /\ Copying(d)
    /\ buf[d] = 0
    /\ AtEnd(d)
    /\ Shut(d)
    /\ UNCHANGED <<phase, handshake, sent, fin, taken, buf, out, got>>

\* The buffer is free for the next read once it is written.
KeepBuf(d) == UNCHANGED buf                                         \* mutant
FreeBuf(d) == buf' = [buf EXCEPT ![d] = 0]

\* write_all waits until the socket takes the chunk.
HasRoom(d) == Len(out[d]) - got[d] < Window

Write(d) ==
    /\ Copying(d)
    /\ buf[d] # 0
    /\ HasRoom(d)
    /\ fin[Other(d)] # "reset"
    /\ out' = [out EXCEPT ![d] = Append(@, buf[d])]
    /\ FreeBuf(d)
    /\ UNCHANGED <<phase, handshake, sent, fin, taken, got, shut>>

\* The other end is gone: write_all fails and the chunk is lost.
WriteFails(d) ==
    /\ Copying(d)
    /\ buf[d] # 0
    /\ fin[Other(d)] = "reset"
    /\ FreeBuf(d)
    /\ Shut(d)
    /\ UNCHANGED <<phase, handshake, sent, fin, taken, out, got>>

\* try_join: both futures are done, and relay returns and drops both streams.
OneDone == shut # {}                                                \* mutant
BothDone == shut = Directions

RelayEnds ==
    /\ phase = "relay"
    /\ BothDone
    /\ phase' = "closed"
    /\ UNCHANGED <<handshake, streams>>

Closed ==
    /\ phase = "closed"
    /\ UNCHANGED vars

Ends(d) == Send(d) \/ Fin(d) \/ Consume(d)
Connecting == Resolved \/ Connect \/ ConnectFails \/ ConnectTimesOut
Handshaking == HeaderFails \/ WriteRequest \/ HandshakeReset \/ ReadReply \/ ReplyTooLarge \/ ReplyEof
Copy(d) == Read(d) \/ ReadEnds(d) \/ Write(d) \/ WriteFails(d)

Next ==
    \/ \E d \in Directions : Ends(d) \/ Copy(d)
    \/ Reply
    \/ Tick
    \/ Connecting
    \/ Handshaking
    \/ RelayEnds
    \/ Closed

SafetySpec == Init /\ [][Next]_vars

\* The proxy's own steps and its timer. Nothing is assumed of the two ends, of
\* the resolver, nor of the network that a connect waits for.
Fairness ==
    /\ WF_vars(ConnectTimesOut)
    /\ WF_vars(Tick)
    /\ WF_vars(Handshaking)
    /\ \A d \in Directions : WF_vars(Copy(d))
    /\ WF_vars(RelayEnds)

Spec == SafetySpec /\ Fairness

-----------------------------------------------------------------------------
(* Properties. *)

\* Each end receives what the other sent, from the first chunk, without gap,
\* repetition or reordering, whatever the interleaving of reads, writes and
\* handshake (relay.rs copy_counted; http.rs read loop).
InOrder == \A d \in Directions : \A i \in 1..Len(out[d]) : out[d][i] = i

\* Not a byte passes either way before the upstream proxy has taken the whole
\* request and answered it with a complete 2xx header (http.rs 53-106).
NothingBeforeTunnel ==
    use.via = "connect" /\ (out["tx"] # <<>> \/ out["rx"] # <<>>) =>
        request = RequestParts /\ reply = "2xx" /\ replyRead = ReplyParts

\* A direction is shut down only by its own source, after everything that one
\* sent was delivered, or by a reset; the end of the other direction does not
\* cut it (relay.rs 71-98: half-close).
HalfClose ==
    \A d \in shut :
        \/ fin[d] = "eof" /\ (fin[Other(d)] = "reset" \/ Len(out[d]) = sent[d])
        \/ fin[d] = "reset"
        \/ fin[Other(d)] = "reset"

\* The end that d leads to keeps reading.
Reads(d) == WF_vars(Consume(d))

\* Once both ends have finished or reset, and as long as they read what is left,
\* the relay returns, and with it the connection task that holds the permit
\* (relay.rs 53-64).
RelayReturns ==
    (\A d \in Directions : Reads(d)) =>
        ((phase = "relay" /\ \A d \in Directions : fin[d] # "open") ~> phase = "closed")

\* Neither direction waits for the other: what is sent to an end that reads
\* arrives, even when the other end has stopped reading and its direction is
\* stuck with a full buffer (relay.rs 53-57, a buffer and a future for each).
DirectionsIndependent ==
    \A d \in Directions : Reads(d) =>
        \A n \in 1..Chunks[d] :
            (phase = "relay" /\ sent[d] = n) ~>
                (got[d] >= n \/ \E e \in Directions : fin[e] = "reset")

\* A copy that waits for its source to send, or for its reader to make room.
Stuck(d) ==
    /\ d \notin shut
    /\ \/ buf[d] = 0 /\ taken[d] = sent[d] /\ fin[d] = "open"
       \/ buf[d] # 0 /\ ~HasRoom(d) /\ fin[Other(d)] # "reset"

\* The next step is somebody else's: the resolver's, the upstream proxy's, or
\* that of an end of the relay.
Waits ==
    \/ phase = "resolve"
    \/ phase = "response" /\ replyRead = replySent /\ fin["rx"] = "open"
    \/ phase = "relay" /\ \E d \in Directions : Stuck(d)

\* A copy that has something to do.
CanCopy(d) ==
    /\ Copying(d)
    /\ \/ buf[d] = 0 /\ (AtEnd(d) \/ (BufferFree(d) /\ taken[d] < sent[d]))
       \/ buf[d] # 0 /\ (HasRoom(d) \/ fin[Other(d)] = "reset")

\* No step of a peer, nor of the copy in the other direction, takes from a copy
\* that can proceed its turn: the two share no buffer and no end
\* (relay.rs 53-57, 71-98).
CopyKeepsTurn ==
    [][\A d \in Directions :
          CanCopy(d) /\ UNCHANGED <<taken[d], buf[d], d \in shut>> => CanCopy(d)']_vars

\* What the proxy has left to do with what it was sent.
StagesLeft ==
    CASE phase = "resolve"    -> 5
      [] phase = "connecting" -> 4
      [] phase = "request"    -> 3
      [] phase = "response"   -> 2
      [] phase = "relay"      -> 1
      [] phase = "closed"     -> 0
CopyWork(d) ==
    2 * (sent[d] - taken[d]) + (IF buf[d] = 0 THEN 0 ELSE 1) + (IF d \in shut THEN 0 ELSE 1)
Work ==
    StagesLeft + (RequestParts - request) + (ReplyParts - replyRead)
        + CopyWork("tx") + CopyWork("rx")

\* Every step of the proxy uses up work, and only a chunk that an end sends adds
\* some: no loop of the handshake or of the relay spins, whatever the ends do
\* (http.rs 36-81, relay.rs 78-96).
WorkShrinks ==
    [][/\ Work' \in Nat
       /\ sent' = sent =>
             \/ Work' < Work
             \/ Work' = Work /\ UNCHANGED <<phase, request, replyRead, taken, buf, out, shut>>]_vars

\* Only a silent peer keeps a tunnel, and its permit, for ever: never a connect,
\* which has a timeout, nor anything the proxy itself has left to do
\* (connect.rs 26-45, http.rs 54, relay.rs 79).
HeldOnlyByPeers == <>[](phase # "closed") => <>[]Waits

-----------------------------------------------------------------------------
(* The tunnel implements the pipe its two ends see. *)

Stage ==
    CASE phase = "relay"  -> "open"
      [] phase = "closed" -> "closed"
      [] OTHER            -> "opening"

EndToEnd == INSTANCE Pipe WITH
    stage     <- Stage,
    sent      <- sent,
    source    <- fin,
    delivered <- out,
    ended     <- shut

\* With any handshake, buffer and interleaving of the two copies, the ends see
\* two ordered streams that open together, end each with its own source, and are
\* dropped only when both have ended (connect.rs, http.rs, relay.rs).
ImplementsPipe == EndToEnd!SafetySpec

-----------------------------------------------------------------------------
(* The tunnel is the one process() that a connection task awaits. *)

SessionStep ==
    CASE phase = "resolve"                  -> "resolve"
      [] phase = "connecting"               -> "connect"
      [] phase \in {"request", "response"}  -> "answer"
      [] phase = "relay"                    -> "relay"
      [] phase = "closed"                   -> "none"

SessionRemote ==
    CASE ~Connected                                                -> "none"
      [] Connected /\ Accepted                                     ->
            IF fin["rx"] = "open" THEN "agreed" ELSE "left"
      [] Connected /\ ~Accepted                                    ->
            IF fin["rx"] = "open" /\ replySent < ReplyParts THEN "silent" ELSE "gone"

Awaited == INSTANCE ProxySession WITH
    Sessions <- {"this"},
    step     <- [s \in {"this"} |-> SessionStep],
    gone     <- {s \in {"this"} : phase # "closed" /\ fin["tx"] # "open"},
    remote   <- [s \in {"this"} |-> SessionRemote]

\* Whatever its handshake and its copies do, a tunnel is to its connection task a
\* ProxySession: it relays only with an upstream that agreed, ends a relay only
\* when an end is gone, and does end it when both are, as long as they read what
\* is left for them (proxy_to_upstream/mod.rs 45-91).
ImplementsSession ==
    /\ Awaited!SafetySpec
    /\ (\A d \in Directions : Reads(d)) => Awaited!Fairness

-----------------------------------------------------------------------------
(* What comments and documents say, and the code does not keep. *)

\* connect.rs 10: connect_upstream connects with a timeout.
ConnectBounded == phase \in {"resolve", "connecting"} => elapsed <= ConnectTimeout
=============================================================================
