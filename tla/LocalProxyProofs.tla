-------------------------- MODULE LocalProxyProofs --------------------------
(***************************************************************************)
(* Typing of the local-proxy, and that it neither loses nor reorders what  *)
(* the site says: for every stream, every buffer size, every way the       *)
(* streams are cut, and both pollers.                                      *)
(***************************************************************************)
EXTENDS LocalProxy, RelayProofs

USE BackendAssumption, BufferAssumption, FailingAssumption, DataAssumption

\* TypeOK does not say what the buffers hold.
Typed ==
    /\ Sized /\ pc \in {"loop", "handle", "again"} /\ ret \in {0, -1}
    /\ kind \in {"http", "https"}

-----------------------------------------------------------------------------
(* Typing                                                                  *)

\* What the local-proxy says itself is data.
LEMMA OwnWords ==
    Connect \in Data /\ Reply \in Data /\ Established \in Data
  BY ValuesAssumption DEF Connect, Reply, Established, Data

LEMMA OwnStreams ==
    <<>> \in Seq(Unit) /\ Established \in Unit /\ <<Established>> \in Seq(Unit)
  <1>1. Established \in Unit
    BY OwnWords, HandshakeUnits
  <1>2. <<Established>> \in Seq(Unit)
    BY <1>1
  <1> QED
    BY <1>1, <1>2, EmptySeq

\* The first packet is two units long.
LEMMA ConnectFacts ==
    ConnectPacket \in Seq(Unit) /\ Len(ConnectPacket) = 2
  <1>1. <<Connect>> \in Seq(Data) /\ Len(Encrypt(<<Connect>>)) = 2
    BY OwnWords, HandshakeUnits
  <1> DEFINE s == <<Connect>>
  <1>2. s \in Seq(Unit)
    BY <1>1, DataUnits
  <1> HIDE DEF s
  <1>3. Encrypt(s) \in Seq(Unit)
    BY <1>2, EncryptUnits
  <1> QED
    BY <1>1, <1>3 DEF ConnectPacket, s

\* A handler of recvfrom_remote_cb that returns.
LEMMA HandlerReturnsTyped ==
    ASSUME Typed, NEW r \in {0, -1}, HandlerReturns(r)
    PROVE  /\ cur' \in LiveEvent \cup {NoEvent} /\ batch' = batch
           /\ pc' = "loop" /\ ret' \in {0, -1}
  BY ReturnsTyped DEF HandlerReturns, Typed, Sized

LEMMA InitTyped == Init => Typed
  BY RelayInitSized DEF Init, Typed

\* Ends of a pair.
LEMMA FailureTyped ==
    ASSUME Typed, HandleError, kind' = kind, ret' \in {0, -1}
    PROVE  Typed'
  BY ErrorTyped DEF HandleError, Typed

LEMMA EventLoopTyped ==
    ASSUME Typed, EventLoop
    PROVE  Typed'
  <1>1. CASE PollerWait \/ NextEvent
    BY <1>1, PollerTyped DEF PollerWait, NextEvent, EventLoop, Typed
  <1>2. CASE CloseOnEof
    BY <1>2, FailureTyped DEF CloseOnEof, EventLoop, Typed
  <1> QED
    BY <1>1, <1>2 DEF EventLoop

LEMMA LinkTyped ==
    ASSUME Typed, NEW c \in Ends, Deliver(c) \/ Drain(c) \/ Close(c)
    PROVE  Typed'
  BY NetworkTyped
     DEF Deliver, Drain, Close, Arrive, Fetch, Finish, loopVars, Typed

\* recv, in either callback.
LEMMA ReceiveTyped ==
    ASSUME Typed, NEW c \in Ends, TakeReceived(c),
           rxbuf' = [rxbuf EXCEPT ![c] =
                       rxbuf[c] \o SubSeq(inq[c], 1, Received(c))],
           pc' \in {"loop", "handle", "again"},
           UNCHANGED <<open, outq, fin, todo, got, stage, txbuf, pollVars,
                       batch, cur, kind, ret>>
    PROVE  Typed'
  <1>1. inq' \in Streams /\ \A e \in Ends : Len(inq'[e]) <= RcvBuf
    BY ReceiveFacts DEF Typed
  <1>2. rxbuf' \in Streams
    BY ReceiveMoves DEF Typed
  <1> QED
    BY <1>1, <1>2 DEF Typed, Sized, pollVars

LEMMA RecvFromClientTyped ==
    ASSUME Typed, RecvFromClient
    PROVE  Typed'
  <1>1. CASE HandleError
    BY <1>1, FailureTyped DEF RecvFromClient, Typed
  <1>2. CASE ~HandleError
    BY <1>2, ReceiveTyped, OtherFacts DEF RecvFromClient
  <1> QED
    BY <1>1, <1>2

LEMMA RecvFromRemoteTyped ==
    ASSUME Typed, RecvFromRemote
    PROVE  Typed'
  <1>1. CASE HandleError
    BY <1>1, FailureTyped DEF RecvFromRemote, HandleError, TakeReceived, Typed
  <1>2. CASE RecvReturns /\ ret' = -1 /\ UNCHANGED <<open, sockVars, connVars, pollVars>>
    BY <1>2, ReturnsTyped
       DEF RecvFromRemote, Typed, Sized, sockVars, connVars, pollVars
  <1>3. CASE inq["back"] # <<>>
    BY <1>3, ReceiveTyped, OtherFacts DEF RecvFromRemote
  <1> QED
    BY <1>1, <1>2, <1>3 DEF RecvFromRemote

\* The values HandleClientRequest assigns.
FirstAll == txbuf["back"] \o ConnectPacket
FirstSent == Least(Len(FirstAll), SndBuf - Len(outq["back"]))

LEMMA ClientRequestTyped ==
    ASSUME Typed, HandleClientRequest
    PROVE  Typed'
  <1> DEFINE all == FirstAll
             n == FirstSent
  <1>1. all \in Seq(Unit)
    BY ConnectFacts, ConcatProperties, OtherFacts
       DEF Typed, Sized, Streams, FirstAll
  <1>2. /\ outq["back"] \o SubSeq(all, 1, n) \in Seq(Unit)
        /\ Len(outq["back"] \o SubSeq(all, 1, n)) <= SndBuf
        /\ Unsent(all, n) \in Seq(Unit)
    BY <1>1, SendFacts DEF FirstSent, Ends, Typed
  <1>3. /\ outq' = [outq EXCEPT !["back"] = outq["back"] \o SubSeq(all, 1, n)]
        /\ txbuf' = [txbuf EXCEPT !["back"] = Unsent(all, n)]
        /\ UNCHANGED <<open, inq, fin, todo, got, kind, ret>>
    BY DEF HandleClientRequest, FirstAll, FirstSent, ElsewhereSame
  <1>4. mask' \in [Ends -> SUBSET Kinds]
    BY MaskFacts, SMTT(30) DEF HandleClientRequest, Typed, Sized, Ends
  <1>5. armed' \in SUBSET Ends
    BY RearmTyped DEF HandleClientRequest, Typed
  <1>6. cur' \in LiveEvent \cup {NoEvent} /\ pc' = "loop" /\ batch' = batch
    BY ReturnsTyped DEF HandleClientRequest, Typed
  <1>7. stage' \in [Ends -> {"none", "handshake", "streaming"}]
    BY DEF HandleClientRequest, Ends
  <1>8. rxbuf' \in Streams
    <2>1. <<>> \in Seq(Unit)
      BY EmptySeq
    <2>2. rxbuf' = rxbuf \/ rxbuf' = [rxbuf EXCEPT !["front"] = <<>>]
      BY OtherFacts DEF HandleClientRequest, Typed, Sized, Streams
    <2> QED
      BY <2>1, <2>2 DEF Typed, Sized, Streams
  <1> HIDE DEF all, n
  <1> QED
    BY <1>1, <1>2, <1>3, <1>4, <1>5, <1>6, <1>7, <1>8 DEF Typed, Sized, Streams

LEMMA StreamToRemoteTyped ==
    ASSUME Typed, StreamToRemote
    PROVE  Typed'
  <1>1. Encrypt(rxbuf["front"]) \in Seq(Unit)
    BY EncryptUnits, OtherFacts DEF Typed, Sized, Streams
  <1>2. /\ txbuf' \in Streams /\ outq' \in Streams
        /\ \A e \in Ends : Len(outq'[e]) <= SndBuf
        /\ mask' \in [Ends -> SUBSET Kinds] /\ armed' \in SUBSET Ends
    BY <1>1, ForwardTyped, OtherFacts DEF StreamToRemote, Typed
  <1>3. /\ rxbuf' = [rxbuf EXCEPT !["front"] = <<>>]
        /\ UNCHANGED <<open, inq, fin, todo, got, stage, kind, ret>>
    BY DEF StreamToRemote, ElsewhereSame
  <1>4. cur' \in LiveEvent \cup {NoEvent} /\ pc' = "loop" /\ batch' = batch
    BY ReturnsTyped DEF StreamToRemote, Typed
  <1>5. <<>> \in Seq(Unit)
    BY EmptySeq
  <1> QED
    BY <1>2, <1>3, <1>4, <1>5 DEF Typed, Sized, Streams

LEMMA WaitTyped ==
    ASSUME Typed, WaitForMore
    PROVE  Typed'
  BY HandlerReturnsTyped
     DEF WaitForMore, Typed, Sized, sockVars, connVars, pollVars

LEMMA StreamToClientTyped ==
    ASSUME Typed, StreamToClient
    PROVE  Typed'
  <1>1. /\ Decrypted(rxbuf["back"]) \in Seq(Unit)
        /\ AfterPacket(rxbuf["back"]) \in Seq(Unit)
    BY DecryptFacts, OtherFacts DEF StreamToClient, Typed, Sized, Streams
  <1>2. /\ txbuf' \in Streams /\ outq' \in Streams
        /\ \A e \in Ends : Len(outq'[e]) <= SndBuf
        /\ mask' \in [Ends -> SUBSET Kinds] /\ armed' \in SUBSET Ends
    BY <1>1, ForwardTyped, OtherFacts DEF StreamToClient, Typed
  <1>3. /\ rxbuf' = [rxbuf EXCEPT !["back"] = AfterPacket(rxbuf["back"])]
        /\ UNCHANGED <<open, inq, fin, todo, got, stage, kind>>
    BY DEF StreamToClient, ElsewhereSame
  <1>4. /\ cur' \in LiveEvent \cup {NoEvent} /\ ret' \in {0, -1}
        /\ pc' \in {"loop", "handle", "again"} /\ batch' = batch
    BY HandlerReturnsTyped DEF StreamToClient, Typed, Sized, loopVars
  <1> QED
    BY <1>1, <1>2, <1>3, <1>4 DEF Typed, Sized, Streams

LEMMA ResponseTyped ==
    ASSUME Typed, HandleHandshakeResponse
    PROVE  Typed'
  <1>1. /\ UNCHANGED <<open, inq, fin, todo, got, kind>>
        /\ stage' \in [Ends -> {"none", "handshake", "streaming"}]
    BY DEF HandleHandshakeResponse, ElsewhereSame
  <1>2. /\ cur' \in LiveEvent \cup {NoEvent} /\ batch' = batch
        /\ pc' = "loop" /\ ret' \in {0, -1}
    BY HandlerReturnsTyped DEF HandleHandshakeResponse
  <1>3. <<>> \in Seq(Unit) /\ <<Established>> \in Seq(Unit)
    BY OwnStreams
  <1>4. CASE kind = "http"
    <2>1. Encrypt(rxbuf["front"]) \in Seq(Unit)
      BY EncryptUnits, OtherFacts DEF Typed, Sized, Streams
    <2>2. /\ txbuf' \in Streams /\ outq' \in Streams
          /\ \A e \in Ends : Len(outq'[e]) <= SndBuf
          /\ mask' \in [Ends -> SUBSET Kinds] /\ armed' \in SUBSET Ends
      BY <1>4, <2>1, ForwardTyped, OtherFacts DEF HandleHandshakeResponse, Typed
    <2>3. rxbuf' = [c \in Ends |-> <<>>]
      BY <1>4 DEF HandleHandshakeResponse
    <2> QED
      BY <1>1, <1>2, <1>3, <2>2, <2>3 DEF Typed, Sized, Streams
  <1>5. CASE kind # "http"
    <2> DEFINE q == outq["front"]
               n == Least(1, SndBuf - Len(q))
    <2>1. /\ rxbuf' = [rxbuf EXCEPT !["back"] = <<>>]
          /\ outq' = [outq EXCEPT !["front"] =
                        IF n > 0 THEN Append(q, Established) ELSE q]
          /\ txbuf' = [txbuf EXCEPT !["front"] =
                         IF n > 0 THEN <<>> ELSE <<Established>>]
          /\ mask' = IF n > 0 THEN mask
                     ELSE [front |-> WatchWriteMask(mask["front"]),
                           back |-> UnwatchReadMask(mask["back"])]
          /\ Rearm({c \in Ends : mask'[c] # mask[c]})
      BY <1>5 DEF HandleHandshakeResponse
    <2>2. /\ q \in Seq(Unit) /\ Len(q) \in Nat /\ Len(q) <= SndBuf
          /\ Established \in Unit
      BY OwnWords, HandshakeUnits, OtherFacts, LenProperties
         DEF Typed, Sized, Streams
    <2>3. Append(q, Established) \in Seq(Unit) /\ Len(Append(q, Established)) = Len(q) + 1
      BY <2>2, AppendProperties
    <2>4. n > 0 => Len(Append(q, Established)) <= SndBuf
      <3> DEFINE k == Len(q)
                 l == Len(Append(q, Established))
      <3>1. k \in Nat /\ l = k + 1
        BY <2>2, <2>3
      <3>2. n = Least(1, SndBuf - k)
        OBVIOUS
      <3> HIDE DEF k, l, n
      <3>3. n > 0 => l <= SndBuf
        BY <3>1, <3>2 DEF Least
      <3> QED
        BY <3>3 DEF l
    <2>5. mask' \in [Ends -> SUBSET Kinds]
      BY <2>1, MaskFacts, SMTT(30) DEF Typed, Sized, Ends
    <2>6. armed' \in SUBSET Ends
      BY <2>1, RearmTyped DEF Typed
    <2> HIDE DEF n, q
    <2>7. rxbuf' \in Streams /\ txbuf' \in Streams
      BY <1>3, <2>1 DEF Typed, Sized, Streams
    <2>8. outq' \in Streams
      BY <2>1, <2>2, <2>3 DEF Typed, Sized, Streams
    <2>9. \A e \in Ends : Len(outq'[e]) <= SndBuf
      BY <2>1, <2>2, <2>4 DEF Typed, Sized, Streams
    <2> QED
      BY <1>1, <1>2, <2>5, <2>6, <2>7, <2>8, <2>9 DEF Typed, Sized
  <1> QED
    BY <1>4, <1>5

LEMMA SendFailureTyped ==
    ASSUME Typed, SendFailureMasked
    PROVE  Typed'
  <1> DEFINE r == rxbuf["back"]
             d == Decrypted(r)
             a == AfterPacket(r)
             e == Encrypt(rxbuf["front"])
             w == <<Established>>
  <1>1. d \in Seq(Unit) /\ a \in Seq(Unit)
    <2>1. r \in Seq(Unit) /\ Decrypts(r)
      BY OtherFacts DEF SendFailureMasked, Typed, Sized, Streams
    <2> QED
      BY <2>1, DecryptFacts
  <1>2. e \in Seq(Unit)
    BY EncryptUnits, OtherFacts DEF Typed, Sized, Streams
  <1>3. /\ UNCHANGED <<open, sockVars, pollVars, kind>>
        /\ stage' \in [Ends -> {"none", "handshake", "streaming"}]
    BY DEF SendFailureMasked
  <1>4. /\ cur' \in LiveEvent \cup {NoEvent} /\ batch' = batch
        /\ pc' = "loop" /\ ret' \in {0, -1}
    BY HandlerReturnsTyped DEF SendFailureMasked
  <1>6. \/ /\ rxbuf' = [rxbuf EXCEPT !["back"] = a]
           /\ txbuf' = [txbuf EXCEPT !["front"] = txbuf["front"] \o d]
        \/ /\ rxbuf' = [c \in Ends |-> <<>>]
           /\ txbuf' = [txbuf EXCEPT !["back"] = txbuf["back"] \o e]
        \/ /\ rxbuf' = [rxbuf EXCEPT !["back"] = <<>>]
           /\ txbuf' = [txbuf EXCEPT !["front"] = w]
    BY DEF SendFailureMasked
  <1>8. <<>> \in Seq(Unit) /\ w \in Seq(Unit)
    BY OwnStreams
  <1> HIDE DEF d, a, e, w
  <1>7. txbuf["front"] \o d \in Seq(Unit) /\ txbuf["back"] \o e \in Seq(Unit)
    BY <1>1, <1>2, ConcatProperties, OtherFacts DEF Typed, Sized, Streams
  <1>5. rxbuf' \in Streams /\ txbuf' \in Streams
    <2>1. rxbuf \in [Ends -> Seq(Unit)] /\ txbuf \in [Ends -> Seq(Unit)]
      BY DEF Typed, Sized, Streams
    <2> QED
      BY <1>1, <1>6, <1>7, <1>8, <2>1 DEF Streams
  <1> QED
    BY <1>3, <1>4, <1>5 DEF Typed, Sized, sockVars, pollVars

LEMMA SendToTyped ==
    ASSUME Typed, NEW c \in Ends, SendTo(c)
    PROVE  Typed'
  <1> DEFINE n == Least(Len(txbuf[c]), SndBuf - Len(outq[c]))
  <1>1. /\ Unsent(txbuf[c], n) \in Seq(Unit)
        /\ outq[c] \o SubSeq(txbuf[c], 1, n) \in Seq(Unit)
        /\ Len(outq[c] \o SubSeq(txbuf[c], 1, n)) <= SndBuf
    BY SendFacts DEF Typed, Sized, Streams
  <1>2. /\ outq' = [outq EXCEPT ![c] = outq[c] \o SubSeq(txbuf[c], 1, n)]
        /\ txbuf' = [txbuf EXCEPT ![c] = Unsent(txbuf[c], n)]
        /\ UNCHANGED <<open, inq, fin, todo, got, stage, rxbuf, kind, ret>>
        /\ pc = "loop" /\ SendReturns
    BY DEF SendTo, Sending, ElsewhereSame
  <1>3. mask' \in [Ends -> SUBSET Kinds] /\ armed' \in SUBSET Ends
    <2>1. CASE UNCHANGED pollVars
      BY <2>1 DEF Typed, Sized, pollVars
    <2>2. CASE /\ mask' = [mask EXCEPT ![c] = UnwatchWriteMask(@),
                                      ![Other(c)] = WatchReadMask(@)]
               /\ Rearm(Ends)
      BY <2>2, MaskFacts, RearmTyped DEF Typed, Sized
    <2> QED
      BY <2>1, <2>2 DEF SendTo
  <1>4. cur' \in LiveEvent \cup {NoEvent} /\ pc' = "loop" /\ batch' = batch
    BY <1>2, ReturnsTyped DEF Typed
  <1> HIDE DEF n
  <1> QED
    BY <1>1, <1>2, <1>3, <1>4 DEF Typed, Sized, Streams

\* Every action keeps the types.
LEMMA NextTyped == Typed /\ [Next]_localVars => Typed'
  <1> SUFFICES ASSUME Typed, [Next]_localVars PROVE Typed'
    OBVIOUS
  <1>1. ASSUME NEW c \in Ends, Deliver(c) \/ Drain(c) \/ Close(c)
        PROVE  Typed'
    BY <1>1, LinkTyped
  <1>2. CASE EventLoop
    BY <1>2, EventLoopTyped
  <1>3. CASE ConnectFails \/ \E c \in Ends : Fails(c)
    BY <1>3, FailureTyped DEF ConnectFails, Fails, CallFails, Typed
  <1>4. CASE RecvFromClient \/ RecvFromRemote
    BY <1>4, RecvFromClientTyped, RecvFromRemoteTyped
  <1>5. CASE HandleClientRequest
    BY <1>5, ClientRequestTyped
  <1>6. CASE HandleHandshakeResponse
    BY <1>6, ResponseTyped
  <1>7. CASE StreamToRemote \/ StreamToClient \/ WaitForMore
    BY <1>7, StreamToRemoteTyped, StreamToClientTyped, WaitTyped
  <1>8. CASE SendFailureMasked
    BY <1>8, SendFailureTyped
  <1>9. ASSUME NEW c \in Ends, SendTo(c)
        PROVE  Typed'
    BY <1>9, SendToTyped
  <1>10. CASE UNCHANGED localVars
    BY <1>10 DEF localVars, vars, sockVars, connVars, pollVars, loopVars, Sized,
                 Typed
  <1> QED
    BY <1>1, <1>2, <1>3, <1>4, <1>5, <1>6, <1>7, <1>8, <1>9, <1>10
       DEF Next, IoThread

\* local-proxy.c keeps every variable in its range and every socket within
\* its buffers, with either poller.
THEOREM TypeCorrect == Spec => []TypeOK
  <1> DEFINE Inv == Typed /\ eager \subseteq Eager
  <1>1. Init => Inv
    BY InitTyped DEF Init
  <1>2. Inv /\ [Next]_localVars => Inv'
    BY NextTyped DEF Next, IoThread, Deliver, Drain, Close, localVars
  <1>3. Inv => TypeOK
    BY DEF Typed, Sized, TypeOK
  <1> QED
    BY <1>1, <1>2, <1>3, PTL DEF Spec

-----------------------------------------------------------------------------
(* Conservation                                                            *)

IsRead(e) == e.read /\ e.conn = "front"
Reading == IsRead(cur)

\* A batch has one read event for the application at most, none while one is
\* being handled, and each has something to tell.
Reads ==
    /\ pc # "loop" => cur.read
    /\ Reading => \A e \in batch : ~IsRead(e)
    /\ \A e, f \in batch : IsRead(e) /\ IsRead(f) => e = f
    /\ \A e \in batch : IsRead(e) => Readable("front")

\* A read event finds data, and leaves none in rxbuf.
Served ==
    /\ Reading => IF pc = "loop" THEN Readable("front") \/ rxbuf["front"] # <<>>
                  ELSE rxbuf["front"] # <<>>
    /\ ~Reading => rxbuf["front"] = <<>>

\* Accepted: the application says its first word and waits.
Fresh ==
    /\ stage["front"] = "handshake" /\ stage["back"] = "none"
    /\ In("front") = UpData /\ In("back") = DownData
    /\ Out("front") = <<>> /\ Out("back") = <<>>
    /\ todo["front"] \in {UpData, Tail(UpData)}
    /\ rxbuf["back"] = <<>> /\ inq["back"] = <<>>
    /\ Served

\* The remote-proxy was asked to connect, and everybody waits for its reply.
Connecting ==
    /\ stage["front"] = "streaming" /\ stage["back"] = "handshake"
    /\ In("back") = DownData /\ Len(todo["back"]) >= Len(DownData) - 2
    /\ Out("front") = <<>> /\ Out("back") = ConnectPacket
    /\ todo["front"] = Tail(UpData) /\ inq["front"] = <<>>
    /\ Reading => pc = "loop" /\ "front" \in fin

Confirmation == IF kind = "https" THEN <<Established>> ELSE <<>>

\* What came out and what is on its way make up what was said.
Streaming ==
    /\ stage["front"] = "streaming" /\ stage["back"] = "streaming"
    /\ Out("front") \o Payload(In("back"))
         = Confirmation \o Tail(Payload(DownData))
    /\ Packets(In("back"))

Phase == Fresh \/ Connecting \/ Streaming
Flow == open => Reads /\ Phase

LInv == Typed /\ Flow

-----------------------------------------------------------------------------
(* Events                                                                  *)

\* recv_cb that returns is done with its read event.
LEMMA ReadDone ==
    ASSUME Typed, RecvReturns \/ (SendReturns /\ ~cur.read /\ pc = "loop")
    PROVE  ~cur'.read /\ pc' = "loop" /\ batch' = batch
  <1>1. cur \in Event
    BY CurIsEvent DEF Typed
  <1> QED
    BY <1>1 DEF RecvReturns, SendReturns, Remaining, NoEvent, Event

LEMMA HandlerReturnsDone ==
    ASSUME Typed, NEW r, HandlerReturns(r)
    PROVE  /\ pc' = "loop" /\ batch' = batch
           /\ cur' = cur \/ ~cur'.read
  BY ReadDone DEF HandlerReturns

\* Steps that pick no event, and take nothing from the application but while
\* they handle its read event.
LEMMA ReadsKept ==
    ASSUME Reads, batch' = batch, cur' = cur \/ ~cur'.read,
           pc' # "loop" => cur'.read,
           Reading \/ (Readable("front") => Readable("front")')
    PROVE  Reads'
  BY DEF Reads, Reading, IsRead

\* poller_wait reports the application once, if it has something to tell.
LEMMA EventsRead ==
    ASSUME NEW e, NEW f, IsRead(e), IsRead(f),
           \/ (e \in EpollEvents /\ f \in EpollEvents)
           \/ (e \in KqueueEvents /\ f \in KqueueEvents)
    PROVE  e = f /\ Readable("front")
  <1>1. ASSUME NEW g \in EpollEvents, IsRead(g)
        PROVE  /\ Readable("front")
               /\ g = [conn |-> "front",
                       read |-> "in" \in mask["front"] /\ Readable("front"),
                       write |-> "out" \in mask["front"] /\ Writable("front"),
                       eof |-> "front" \in fin]
    <2>1. PICK c \in armed :
            g = [conn |-> c,
                 read |-> "in" \in mask[c] /\ Readable(c),
                 write |-> "out" \in mask[c] /\ Writable(c),
                 eof |-> c \in fin]
      BY DEF EpollEvents
    <2>2. g.conn = c /\ g.read = ("in" \in mask[c] /\ Readable(c))
      BY <2>1
    <2>3. c = "front" /\ Readable(c)
      BY <1>1, <2>2 DEF IsRead
    <2> QED
      BY <2>1, <2>3
  <1>2. ASSUME NEW g \in KqueueEvents, IsRead(g)
        PROVE  /\ Readable("front")
               /\ g = [conn |-> "front", read |-> "front" \notin fin,
                       write |-> FALSE, eof |-> "front" \in fin]
    BY <1>2 DEF KqueueEvents, IsRead
  <1> QED
    BY <1>1, <1>2

LEMMA PollerWaitReads ==
    ASSUME Reads, PollerWait
    PROVE  Reads'
  <1>1. /\ batch' = EpollEvents \/ batch' = KqueueEvents
        /\ cur = NoEvent /\ cur' = cur /\ pc' = pc /\ UNCHANGED <<inq, fin>>
    BY DEF PollerWait, sockVars
  <1>2. ~Reading' /\ (Readable("front")' <=> Readable("front"))
    BY <1>1 DEF Reading, IsRead, NoEvent, Readable
  <1>3. \A e, f \in batch' : IsRead(e) /\ IsRead(f) => e = f /\ Readable("front")
    BY <1>1, EventsRead
  <1> QED
    BY <1>1, <1>2, <1>3 DEF Reads, IsRead

LEMMA NextEventReads ==
    ASSUME Reads, NextEvent
    PROVE  /\ Reads' /\ ~Reading /\ pc' = "loop"
           /\ Reading' => Readable("front")
  <1>1. PICK e \in batch : cur' = e /\ batch' = batch \ {e}
    BY DEF NextEvent
  <1>2. /\ cur = NoEvent /\ pc = "loop" /\ pc' = pc /\ UNCHANGED <<inq, fin>>
    BY DEF NextEvent, sockVars
  <1> QED
    BY <1>1, <1>2 DEF Reads, Reading, IsRead, NoEvent, Readable

-----------------------------------------------------------------------------
(* Conservation, step by step                                              *)

LEMMA InitFlow ==
    ASSUME Protocol, Init
    PROVE  Flow
  <1>1. <<>> \in Seq(Unit) /\ UpData \in Seq(Unit) /\ DownData \in Seq(Unit)
    BY EmptySeq
  <1>2. \A s \in Seq(Unit) : <<>> \o s = s
    BY ConcatEmptySeq
  <1>3. <<>> \o <<>> = <<>>
    BY <1>1, <1>2
  <1>4. /\ rxbuf = [c \in Ends |-> <<>>] /\ txbuf = [c \in Ends |-> <<>>]
        /\ inq = [c \in Ends |-> <<>>] /\ outq = [c \in Ends |-> <<>>]
        /\ got = [c \in Ends |-> <<>>] /\ batch = {} /\ cur = NoEvent
        /\ todo = [c \in Ends |-> IF c = "front" THEN UpData ELSE DownData]
        /\ stage = [c \in Ends |-> IF c = "front" THEN "handshake" ELSE "none"]
        /\ pc = "loop"
    BY DEF Init, RelayInit
  <1>5. In("front") = UpData /\ In("back") = DownData
    BY <1>1, <1>2, <1>3, <1>4, OtherFacts DEF In
  <1>6. Out("front") = <<>> /\ Out("back") = <<>>
    BY <1>3, <1>4, OtherFacts DEF Out
  <1>7. ~Reading
    BY <1>4 DEF Reading, IsRead, NoEvent
  <1>8. Reads
    BY <1>4, <1>7 DEF Reads
  <1>9. Fresh
    BY <1>4, <1>5, <1>6, <1>7, OtherFacts DEF Fresh, Served
  <1> QED
    BY <1>8, <1>9 DEF Flow, Phase

\* Steps that leave the streams alone, outside the read event of the
\* application.
LEMMA QuietPhase ==
    ASSUME Phase, UNCHANGED <<stage, kind, inq, todo, fin, rxbuf>>,
           Out("front")' = Out("front"), Out("back")' = Out("back"),
           UNCHANGED <<cur, pc>> \/ (~Reading /\ ~Reading')
    PROVE  Phase'
  <1>1. In("front")' = In("front") /\ In("back")' = In("back")
    BY DEF In
  <1>2. Served => Served'
    BY DEF Served, Reading, IsRead, Readable
  <1>3. Fresh => Fresh'
    BY <1>1, <1>2 DEF Fresh
  <1>4. Connecting => Connecting'
    BY <1>1 DEF Connecting, Reading, IsRead
  <1>5. Streaming => Streaming'
    BY <1>1, <1>2 DEF Streaming, Confirmation
  <1> QED
    BY <1>3, <1>4, <1>5 DEF Phase

LEMMA NextEventPhase ==
    ASSUME Reads, Phase, NextEvent, kind' = kind
    PROVE  Phase'
  <1>1. ~Reading /\ pc' = "loop" /\ (Reading' => Readable("front"))
    BY NextEventReads
  <1>2. UNCHANGED <<sockVars, connVars>>
    BY DEF NextEvent
  <1>3. /\ In("front")' = In("front") /\ In("back")' = In("back")
        /\ Out("front")' = Out("front") /\ Out("back")' = Out("back")
    BY <1>2 DEF In, Out, sockVars, connVars
  <1>4. Readable("front")' <=> Readable("front")
    BY <1>2 DEF Readable, sockVars
  <1>5. Served => Served'
    BY <1>1, <1>2, <1>4 DEF Served, connVars
  <1>6. Fresh => Fresh'
    BY <1>2, <1>3, <1>5 DEF Fresh, sockVars, connVars
  <1>7. Connecting => Connecting'
    BY <1>1, <1>2, <1>3 DEF Connecting, sockVars, connVars, Readable
  <1>8. Streaming => Streaming'
    BY <1>2, <1>3, <1>5 DEF Streaming, Confirmation, sockVars, connVars
  <1> QED
    BY <1>6, <1>7, <1>8 DEF Phase

\* The pair is gone.
LEMMA ErrorFlow ==
    ASSUME HandleError
    PROVE  Flow'
  BY DEF HandleError, Flow

LEMMA EventLoopFlow ==
    ASSUME LInv, EventLoop
    PROVE  Flow'
  <1>1. CASE CloseOnEof
    BY <1>1, ErrorFlow DEF LInv, CloseOnEof
  <1>2. CASE PollerWait
    <2>1. /\ UNCHANGED <<open, sockVars, connVars, cur, pc>> /\ open
          /\ kind' = kind
      BY <1>2 DEF PollerWait, EventLoop
    <2>2. Out("front")' = Out("front") /\ Out("back")' = Out("back")
      BY <2>1 DEF Out, sockVars, connVars
    <2>3. Phase'
      BY <2>1, <2>2, QuietPhase DEF LInv, Flow, sockVars, connVars
    <2> QED
      BY <1>2, <2>1, <2>2, <2>3, PollerWaitReads DEF LInv, Flow
  <1>3. CASE NextEvent
    <2>1. /\ UNCHANGED <<open, sockVars, connVars>> /\ open /\ kind' = kind
      BY <1>3 DEF NextEvent, EventLoop
    <2>2. Out("back")' = Out("back")
      BY <2>1 DEF Out, sockVars, connVars
    <2> QED
      BY <1>3, <2>1, <2>2, NextEventReads, NextEventPhase DEF LInv, Flow
  <1> QED
    BY <1>1, <1>2, <1>3 DEF EventLoop

\* What the far end of c has received is the beginning of Out.
LEMMA GotBounded ==
    ASSUME Sized, NEW c \in Ends
    PROVE  Len(got[c]) <= Len(Out(c))
  <1>1. got[c] \in Seq(Unit) /\ outq[c] \in Seq(Unit) /\ txbuf[c] \in Seq(Unit)
    BY DEF Sized, Streams
  <1>2. /\ got[c] \o outq[c] \in Seq(Unit)
        /\ Len(got[c] \o outq[c]) = Len(got[c]) + Len(outq[c])
    BY <1>1, ConcatProperties
  <1>3. Len(Out(c)) = Len(got[c] \o outq[c]) + Len(txbuf[c])
    BY <1>1, <1>2, ConcatProperties DEF Out
  <1>4. Len(got[c]) \in Nat /\ Len(outq[c]) \in Nat /\ Len(txbuf[c]) \in Nat
    BY <1>1, LenProperties
  <1> DEFINE l == Len(got[c])
             m == Len(outq[c])
             n == Len(txbuf[c])
             o == Len(Out(c))
  <1>5. o = (l + m) + n /\ l \in Nat /\ m \in Nat /\ n \in Nat
    BY <1>2, <1>3, <1>4
  <1> HIDE DEF l, m, n, o
  <1>6. l <= o
    BY <1>5
  <1> QED
    BY <1>6 DEF l, o

\* A request has a head.
LEMMA AskedFor ==
    UpData \in Seq(Unit) /\ UpData # <<>>
  <1> DEFINE k == Len(UpData)
  <1>1. k \in Nat /\ HeadLen \in 1 .. k
    BY HeadAssumption, LenProperties
  <1> HIDE DEF k
  <1>2. k # 0
    BY <1>1
  <1> QED
    BY <1>2, EmptyFacts DEF k

\* Under Protocol the head of a request is its first unit, and the rest waits
\* for an answer, if the ends do wait.
LEMMA AsksOnce ==
    ASSUME Protocol, eager = {}, MaySend("front"), got["front"] = <<>>,
           todo["front"] \in {UpData, Tail(UpData)}
    PROVE  todo["front"] = UpData
  <1> DEFINE k == Len(UpData)
             l == Len(Tail(UpData))
  <1>1. Len(todo["front"]) > k - 1
    BY DEF MaySend, Protocol
  <1>3. l = k - 1 /\ k \in Nat
    BY AskedFor, HeadTailProperties, LenProperties
  <1>4. todo["front"] = Tail(UpData) => Len(todo["front"]) = l
    OBVIOUS
  <1> HIDE DEF k, l
  <1>5. todo["front"] # Tail(UpData)
    BY <1>1, <1>3, <1>4
  <1> QED
    BY <1>5

\* One more unit arrives: the far ends keep to the protocol.
LEMMA DeliverFlow ==
    ASSUME Protocol, eager = {}, LInv, NEW c \in Ends, Deliver(c)
    PROVE  Flow'
  <1>1. \A d \in Ends : In(d)' = In(d) /\ Out(d)' = Out(d)
    BY NetworkMoves DEF LInv, Typed, Deliver
  <1>2. /\ In("front")' = In("front") /\ In("back")' = In("back")
        /\ Out("front")' = Out("front") /\ Out("back")' = Out("back")
    BY <1>1, OtherFacts
  <1>3. /\ UNCHANGED <<open, fin, got, rxbuf, stage, kind, batch, cur, pc>>
        /\ open /\ stage[c] # "none"
        /\ inq' = [inq EXCEPT ![c] = Append(inq[c], Head(todo[c]))]
        /\ todo' = [todo EXCEPT ![c] = Tail(todo[c])] /\ todo[c] # <<>>
    BY DEF Deliver, Arrive, connVars, loopVars
  <1>4. /\ inq[c] \in Seq(Unit) /\ todo[c] \in Seq(Unit)
        /\ inq'[c] = Append(inq[c], Head(todo[c])) /\ todo'[c] = Tail(todo[c])
        /\ \A d \in Ends : d # c => inq'[d] = inq[d] /\ todo'[d] = todo[d]
    BY <1>3 DEF LInv, Typed, Sized, Streams
  <1>5. inq'[c] # <<>>
    <2>1. Head(todo[c]) \in Unit
      BY <1>3, <1>4, HeadTailProperties
    <2>2. Len(inq'[c]) = Len(inq[c]) + 1 /\ Len(inq[c]) \in Nat
      BY <1>4, <2>1, AppendProperties, LenProperties
    <2> QED
      BY <2>2, EmptySeq
  <1>6. Readable("front") => Readable("front")'
    BY <1>3, <1>4, <1>5 DEF Readable, Ends
  <1>7. Reads'
    BY <1>3, <1>6, ReadsKept DEF LInv, Flow, Reads
  <1>8. Served => Served'
    BY <1>3, <1>6 DEF Served, Reading, IsRead
  <1>9. ASSUME Fresh PROVE Phase'
    <2>1. c = "front"
      BY <1>3, <1>9 DEF Fresh, Ends
    <2>2. got["front"] = <<>>
      BY <1>9, NothingOut, OtherFacts DEF Fresh, LInv, Typed
    <2>3. todo["front"] = UpData
      BY <1>9, <2>1, <2>2, AsksOnce DEF Fresh, Deliver
    <2>4. /\ todo'["front"] = Tail(UpData) /\ inq'["back"] = inq["back"]
      BY <1>4, <2>1, <2>3, OtherFacts
    <2> QED
      BY <1>2, <1>3, <1>8, <1>9, <2>4 DEF Fresh, Phase
  <1>10. ASSUME Connecting PROVE Phase'
    <2>1. got["front"] = <<>>
      BY <1>10, NothingOut, OtherFacts DEF Connecting, LInv, Typed
    <2>2. c # "front"
      <3> SUFFICES ASSUME c = "front" PROVE FALSE
        OBVIOUS
      <3>1. todo["front"] = UpData
        BY <1>10, <2>1, AsksOnce DEF Connecting, Deliver
      <3>2. Len(Tail(UpData)) = Len(UpData) - 1 /\ Len(UpData) \in Nat
        BY AskedFor, HeadTailProperties, LenProperties
      <3>3. Tail(UpData) = UpData
        BY <1>10, <3>1 DEF Connecting
      <3> DEFINE k == Len(UpData)
                 l == Len(Tail(UpData))
      <3>4. l = k - 1 /\ k \in Nat /\ l = k
        BY <3>2, <3>3
      <3> HIDE DEF k, l
      <3> QED
        BY <3>4
    <2>3. c = "back"
      BY <2>2 DEF Ends
    <2>4. Len(got["back"]) <= 2
      BY <1>10, GotBounded, ConnectFacts, OtherFacts DEF Connecting, LInv, Typed
    <2>5. Len(todo["back"]) > Len(DownData) - 2
      <3> DEFINE e == Len(Encrypt(<<Reply>>))
                 f == Len(ConnectPacket)
      <3>1. e = 2 /\ f = 2
        BY OwnWords, HandshakeUnits, ConnectFacts
      <3>2. \/ Len(todo["back"]) > Len(DownData) - e
            \/ Len(got["back"]) > f
        BY <2>3, OtherFacts DEF Deliver, MaySend, Protocol
      <3>3. Len(got["back"]) \in Nat
        BY LenProperties, OtherFacts DEF LInv, Typed, Sized, Streams
      <3> HIDE DEF e, f
      <3> QED
        BY <2>4, <3>1, <3>2, <3>3
    <2>6. Len(todo'["back"]) >= Len(DownData) - 2
      <3>1. todo'["back"] = Tail(todo["back"]) /\ todo["back"] # <<>>
        BY <1>3, <1>4, <2>3
      <3>2. todo["back"] \in Seq(Unit)
        BY <1>4, <2>3
      <3>3. Len(todo'["back"]) = Len(todo["back"]) - 1
        BY <3>1, <3>2, HeadTailProperties
      <3>4. Len(todo["back"]) \in Nat /\ Len(DownData) \in Nat
        BY <3>2, LenProperties
      <3> QED
        BY <2>5, <3>3, <3>4
    <2>7. todo'["front"] = todo["front"] /\ inq'["front"] = inq["front"]
      BY <1>4, <2>3, OtherFacts
    <2> QED
      BY <1>2, <1>3, <1>10, <2>6, <2>7 DEF Connecting, Phase, Reading, IsRead
  <1>11. ASSUME Streaming PROVE Phase'
    BY <1>2, <1>3, <1>8, <1>11 DEF Streaming, Phase, Confirmation
  <1> QED
    BY <1>2, <1>3, <1>7, <1>9, <1>10, <1>11 DEF LInv, Flow, Phase

\* The far ends read and close.
LEMMA DrainCloseFlow ==
    ASSUME LInv, NEW c \in Ends, Drain(c) \/ Close(c)
    PROVE  Flow'
  <1>1. \A d \in Ends : In(d)' = In(d) /\ Out(d)' = Out(d)
    BY NetworkMoves DEF LInv, Typed, Drain, Close
  <1>2. /\ In("front")' = In("front") /\ In("back")' = In("back")
        /\ Out("front")' = Out("front") /\ Out("back")' = Out("back")
    BY <1>1, OtherFacts
  <1>3. /\ UNCHANGED <<open, inq, todo, rxbuf, stage, kind, batch, cur, pc>>
        /\ open /\ fin \subseteq fin'
    BY DEF Drain, Close, Fetch, Finish, connVars, loopVars
  <1>4. Readable("front") => Readable("front")'
    BY <1>3 DEF Readable
  <1>5. Reads'
    BY <1>3, <1>4, ReadsKept DEF LInv, Flow, Reads
  <1>6. Served => Served'
    BY <1>3, <1>4 DEF Served, Reading, IsRead
  <1>7. Fresh => Fresh'
    BY <1>2, <1>3, <1>6 DEF Fresh
  <1>8. Connecting => Connecting'
    BY <1>2, <1>3 DEF Connecting, Reading, IsRead
  <1>9. Streaming => Streaming'
    BY <1>2, <1>3, <1>6 DEF Streaming, Confirmation
  <1> QED
    BY <1>2, <1>3, <1>5, <1>7, <1>8, <1>9 DEF LInv, Flow, Phase

\* The sendto callbacks, and handlers with nothing to do, leave the streams
\* alone.
LEMMA SendToFlow ==
    ASSUME LInv, NEW c \in Ends, SendTo(c)
    PROVE  Flow'
  <1>1. \A d \in Ends : Out(d)' = Out(d)
    BY FlushMoves DEF LInv, Typed, SendTo, ElsewhereSame
  <1>2. Out("front")' = Out("front") /\ Out("back")' = Out("back")
    BY <1>1, OtherFacts
  <1>3. /\ UNCHANGED <<open, inq, todo, fin, stage, rxbuf, kind>>
        /\ open /\ ~cur.read /\ pc = "loop" /\ SendReturns
    BY DEF SendTo, Sending, ElsewhereSame
  <1>4. ~cur'.read /\ pc' = "loop" /\ batch' = batch
    BY <1>3, ReadDone DEF LInv
  <1>5. Phase'
    BY <1>2, <1>3, <1>4, QuietPhase DEF LInv, Flow, Reading, IsRead
  <1>6. Readable("front")' <=> Readable("front")
    BY <1>3 DEF Readable
  <1>7. Reads'
    BY <1>3, <1>4, <1>6, ReadsKept DEF LInv, Flow
  <1> QED
    BY <1>2, <1>5, <1>7 DEF LInv, Flow

LEMMA WaitFlow ==
    ASSUME LInv, WaitForMore
    PROVE  Flow'
  <1>1. /\ UNCHANGED <<open, sockVars, connVars, kind>> /\ open
        /\ cur.conn = "back" /\ HandlerReturns(0)
    BY DEF WaitForMore, HandlingRemote
  <1>2. Out("front")' = Out("front") /\ Out("back")' = Out("back")
    BY <1>1 DEF Out, sockVars, connVars
  <1>3. pc' = "loop" /\ batch' = batch /\ (cur' = cur \/ ~cur'.read)
    BY <1>1, HandlerReturnsDone DEF LInv
  <1>4. ~Reading /\ ~Reading'
    BY <1>1, <1>3, OtherFacts DEF Reading, IsRead
  <1>5. Phase'
    BY <1>1, <1>2, <1>4, QuietPhase DEF LInv, Flow, sockVars, connVars
  <1>6. Readable("front")' <=> Readable("front")
    BY <1>1 DEF Readable, sockVars
  <1>7. Reads'
    BY <1>1, <1>3, <1>6, ReadsKept DEF LInv, Flow
  <1> QED
    BY <1>1, <1>2, <1>5, <1>7 DEF LInv, Flow

\* recv of the application's words.
LEMMA RecvFromClientFlow ==
    ASSUME LInv, RecvFromClient
    PROVE  Flow'
  <1>1. CASE HandleError
    BY <1>1, ErrorFlow DEF LInv
  <1>2. CASE ~HandleError
    <2>1. /\ open /\ Reading /\ cur.read /\ pc = "loop"
          /\ TakeReceived("front")
          /\ rxbuf' = [rxbuf EXCEPT !["front"] =
                         rxbuf["front"]
                           \o SubSeq(inq["front"], 1, Received("front"))]
          /\ pc' \in {"handle", "loop"}
          /\ UNCHANGED <<open, outq, fin, todo, got, stage, txbuf, batch, cur,
                         kind>>
          /\ ~(inq["front"] = <<>> /\ "front" \in fin)
      BY <1>2 DEF RecvFromClient, Receiving, Reading, IsRead
    <2>2. \A d \in Ends : In(d)' = In(d)
      BY <2>1, ReceiveMoves, OtherFacts DEF LInv, Typed
    <2>3. /\ In("front")' = In("front") /\ In("back")' = In("back")
          /\ Out("front")' = Out("front") /\ Out("back")' = Out("back")
      BY <2>1, <2>2, OtherFacts DEF Out
    <2>4. rxbuf'["back"] = rxbuf["back"] /\ inq'["back"] = inq["back"]
      BY <2>1, OtherFacts DEF LInv, Typed, Sized, Streams, TakeReceived
    <2>5. Reads'
      BY <2>1, ReadsKept DEF LInv, Flow
    <2>6. Served => rxbuf'["front"] # <<>>
      <3> DEFINE q == inq["front"]
                 r == rxbuf["front"]
                 pre == SubSeq(q, 1, Received("front"))
      <3>1. q \in Seq(Unit) /\ r \in Seq(Unit)
        BY OtherFacts DEF LInv, Typed, Sized, Streams
      <3>2. /\ pre \in Seq(Unit) /\ Len(pre) = Received("front")
            /\ q # <<>> => Received("front") > 0
        BY ReceiveFacts, OtherFacts DEF LInv, Typed
      <3>3. rxbuf'["front"] = r \o pre
        BY <2>1, OtherFacts DEF LInv, Typed, Sized, Streams
      <3> HIDE DEF q, r, pre
      <3>4. Len(r \o pre) = Len(r) + Len(pre) /\ r \o pre \in Seq(Unit)
        BY <3>1, <3>2, ConcatProperties
      <3>5. Len(r) \in Nat /\ Len(pre) \in Nat /\ (r # <<>> => Len(r) # 0)
        BY <3>1, <3>2, EmptyFacts
      <3>6. Served => q # <<>> \/ r # <<>>
        BY <2>1 DEF Served, Readable, q, r
      <3>7. Served => Len(r \o pre) # 0
        BY <3>2, <3>4, <3>5, <3>6
      <3> QED
        BY <3>3, <3>7, EmptySeq
    <2>7. Served => Served'
      BY <2>1, <2>6 DEF Served, Reading, IsRead
    <2>8. Fresh => Fresh'
      BY <2>1, <2>3, <2>4, <2>7 DEF Fresh
    <2>9. ~Connecting
      BY <2>1 DEF Connecting
    <2>10. Streaming => Streaming'
      BY <2>1, <2>3, <2>7 DEF Streaming, Confirmation
    <2> QED
      BY <2>1, <2>3, <2>5, <2>8, <2>9, <2>10 DEF LInv, Flow, Phase
  <1> QED
    BY <1>1, <1>2

\* What was received of the application's first word is all of it.
LEMMA OnlyFirst ==
    ASSUME NEW x \in Seq(Unit), x # <<>>, NEW r \in Seq(Unit), r # <<>>,
           NEW i \in Seq(Unit), NEW t, t \in {x, Tail(x)}, r \o (i \o t) = x
    PROVE  i = <<>> /\ r = <<x[1]>> /\ t = Tail(x)
  <1>1. /\ x \in Seq(Unit) /\ Tail(x) \in Seq(Unit) /\ Len(x) \in Nat
        /\ Len(Tail(x)) = Len(x) - 1
    BY HeadTailProperties, LenProperties
  <1>2. t \in Seq(Unit) /\ (t = x => Len(t) = Len(x))
        /\ (t = Tail(x) => Len(t) = Len(x) - 1)
    BY <1>1
  <1>3. /\ i \o t \in Seq(Unit) /\ Len(i \o t) = Len(i) + Len(t)
    BY <1>2, ConcatProperties
  <1>4. /\ Len(r \o (i \o t)) = Len(r) + Len(i \o t)
        /\ \A j \in 1 .. Len(r) + Len(i \o t) :
             (r \o (i \o t))[j] = IF j <= Len(r) THEN r[j] ELSE (i \o t)[j - Len(r)]
    BY <1>3, ConcatProperties
  <1>5. Len(r) \in Nat /\ Len(r) # 0 /\ Len(i) \in Nat /\ Len(t) \in Nat
    BY <1>2, EmptyFacts, LenProperties
  <1>6. Len(r) = 1 /\ Len(i) = 0 /\ t = Tail(x)
    <2> DEFINE j == Len(r)
               k == Len(i)
               l == Len(t)
               m == Len(x)
    <2>1. /\ j \in Nat /\ j # 0 /\ k \in Nat /\ l \in Nat /\ m \in Nat
          /\ m = j + (k + l)
      BY <1>1, <1>3, <1>4, <1>5
    <2>2. (t = x /\ l = m) \/ (t = Tail(x) /\ l = m - 1)
      BY <1>2
    <2> HIDE DEF j, k, l, m
    <2>3. j = 1 /\ k = 0 /\ l = m - 1
      BY <2>1, <2>2
    <2>4. t = Tail(x)
      BY <2>1, <2>2, <2>3
    <2> QED
      BY <2>3, <2>4 DEF j, k
  <1>7. i = <<>>
    BY <1>6, EmptySeq
  <1>8. x[1] = r[1]
    <2>1. 1 \in 1 .. Len(r) + Len(i \o t) /\ 1 <= Len(r)
      BY <1>3, <1>5, <1>6
    <2> QED
      BY <1>4, <2>1
  <1>9. r = <<r[1]>>
    <2>1. r = [j \in 1 .. Len(r) |-> r[j]]
      BY LenProperties
    <2>2. r = [j \in 1 .. 1 |-> r[j]]
      BY <1>6, <2>1
    <2>3. [j \in 1 .. 1 |-> r[j]] = <<r[1]>>
      OBVIOUS
    <2> QED
      BY <2>2, <2>3
  <1> QED
    BY <1>6, <1>7, <1>8, <1>9

\* handle_client_request has the whole request in hand, and nothing else.
LEMMA ClientRequestFlow ==
    ASSUME Protocol, LInv, HandleClientRequest
    PROVE  Flow'
  <1> DEFINE r == rxbuf["front"]
             i == inq["front"]
             w == todo["front"]
             all == txbuf["back"] \o ConnectPacket
             n == Least(Len(all), SndBuf - Len(outq["back"]))
  <1>1. /\ open /\ pc = "handle" /\ cur.conn = "front"
        /\ stage["front"] = "handshake" /\ RecvReturns
        /\ UNCHANGED <<inq, ret, open, fin, todo, got, kind>>
        /\ outq' = [outq EXCEPT !["back"] = outq["back"] \o SubSeq(all, 1, n)]
        /\ txbuf' = [txbuf EXCEPT !["back"] = Unsent(all, n)]
        /\ stage' = [front |-> IF n = Len(all) THEN "streaming" ELSE "handshake",
                     back |-> "handshake"]
        /\ rxbuf' = [rxbuf EXCEPT !["front"] = IF kind = "http" THEN r ELSE <<>>]
    BY DEF HandleClientRequest, Handling, ElsewhereSame, RequestKept
  <1>2. Fresh /\ Reads
    BY <1>1 DEF LInv, Flow, Phase, Connecting, Streaming
  <1>3. Reading /\ r # <<>>
    BY <1>1, <1>2 DEF Fresh, Reads, Served, Reading, IsRead
  <1>4. r \in Seq(Unit) /\ i \in Seq(Unit)
    BY OtherFacts DEF LInv, Typed, Sized, Streams
  <1>5. r \o (i \o w) = UpData
    BY <1>2, InRegrouped, OtherFacts DEF Fresh, LInv, Typed
  <1>6. w \in {UpData, Tail(UpData)}
    BY <1>2 DEF Fresh
  <1>7. i = <<>> /\ r = <<UpData[1]>> /\ w = Tail(UpData)
    <2> HIDE DEF r, i, w
    <2> QED
      BY <1>3, <1>4, <1>5, <1>6, AskedFor, OnlyFirst
  <1>8. got["back"] = <<>> /\ outq["back"] = <<>> /\ txbuf["back"] = <<>>
    BY <1>2, NothingOut, OtherFacts DEF Fresh, LInv, Typed
  <1>9. all = ConnectPacket
    BY <1>8, ConnectFacts, ConcatEmptySeq
  <1>10. n = Len(all)
    <2>1. Len(all) = 2
      BY <1>9, ConnectFacts
    <2>2. SndBuf - Len(outq["back"]) = SndBuf
      BY <1>8, EmptySeq
    <2>3. Least(2, SndBuf) = 2
      BY DEF Least
    <2> QED
      BY <2>1, <2>2, <2>3, Zenon
  <1> HIDE DEF all, n
  <1>11. /\ stage'["front"] = "streaming" /\ stage'["back"] = "handshake"
    BY <1>1, <1>10
  <1>12. Out("back")' = Out("back") \o ConnectPacket /\ Out("front")' = Out("front")
    <2>1. /\ all = txbuf["back"] \o ConnectPacket
          /\ n = Least(Len(all), SndBuf - Len(outq["back"]))
      BY DEF all, n
    <2>2. /\ Out("back")' = Out("back") \o ConnectPacket
          /\ \A d \in Ends : d # "back" => Out(d)' = Out(d)
      BY <1>1, <2>1, ConnectFacts, SendMoves, OtherFacts DEF LInv, Typed
    <2> QED
      BY <2>2, OtherFacts
  <1>13. Out("back")' = ConnectPacket /\ Out("front")' = <<>>
    BY <1>2, <1>12, ConnectFacts, ConcatEmptySeq DEF Fresh
  <1>14. rxbuf'["back"] = rxbuf["back"]
    BY <1>1, OtherFacts DEF LInv, Typed, Sized, Streams
  <1>15. In("back")' = DownData
    BY <1>1, <1>2, <1>14 DEF In, Fresh
  <1>16. todo["back"] = DownData
    <2>1. In("back") = (<<>> \o <<>>) \o todo["back"]
      BY <1>2 DEF Fresh, In
    <2>2. todo["back"] \in Seq(Unit)
      BY OtherFacts DEF LInv, Typed, Sized, Streams
    <2> QED
      BY <1>2, <2>1, <2>2, ConcatEmptySeq, EmptySeq DEF Fresh
  <1>17. ~cur'.read /\ pc' = "loop" /\ batch' = batch
    BY <1>1, ReadDone DEF LInv
  <1>18. Reads'
    BY <1>2, <1>3, <1>17, ReadsKept
  <1>19. Len(DownData) >= Len(DownData) - 2
    <2>1. Len(DownData) \in Nat
      BY LenProperties
    <2> QED
      BY <2>1
  <1>20. Connecting'
    BY <1>1, <1>7, <1>11, <1>13, <1>15, <1>16, <1>17, <1>19
       DEF Connecting, Reading, IsRead
  <1> QED
    BY <1>1, <1>13, <1>18, <1>20 DEF Flow, Phase

\* stream_to_remote leaves what goes the other way alone.
LEMMA StreamToRemoteFlow ==
    ASSUME LInv, StreamToRemote
    PROVE  Flow'
  <1> DEFINE e == Encrypt(rxbuf["front"])
  <1>1. /\ open /\ pc = "handle" /\ cur.conn = "front"
        /\ stage["front"] = "streaming" /\ RecvReturns
        /\ UNCHANGED <<inq, stage, ret, open, fin, todo, got, kind>>
        /\ rxbuf' = [rxbuf EXCEPT !["front"] = <<>>]
        /\ Forward("front", "back", e)
    BY DEF StreamToRemote, Handling, ElsewhereSame
  <1>2. Reads /\ Reading
    BY <1>1 DEF LInv, Flow, Reads, Reading, IsRead
  <1>3. Streaming
    BY <1>1, <1>2 DEF LInv, Flow, Phase, Fresh, Connecting
  <1>4. e \in Seq(Unit)
    BY EncryptUnits, OtherFacts DEF LInv, Typed, Sized, Streams
  <1> HIDE DEF e
  <1>5. Out("front")' = Out("front")
    BY <1>1, <1>4, ForwardMoves, OtherFacts DEF LInv, Typed
  <1>6. In("back")' = In("back")
    BY <1>1, OtherFacts DEF In, LInv, Typed, Sized, Streams
  <1>7. ~cur'.read /\ pc' = "loop" /\ batch' = batch
    BY <1>1, ReadDone DEF LInv
  <1>8. Reads'
    BY <1>2, <1>7, ReadsKept
  <1>9. Streaming'
    BY <1>1, <1>3, <1>5, <1>6 DEF Streaming, Confirmation
  <1> QED
    BY <1>1, <1>8, <1>9 DEF Flow, Phase

\* recv of what the remote-proxy says.
LEMMA RecvFromRemoteFlow ==
    ASSUME LInv, RecvFromRemote
    PROVE  Flow'
  <1>1. CASE HandleError
    BY <1>1, ErrorFlow DEF LInv
  <1>2. open /\ pc = "loop" /\ cur.read /\ cur.conn = "back" /\ kind' = kind
    BY DEF RecvFromRemote, Receiving
  <1>3. CASE RecvReturns /\ UNCHANGED <<open, sockVars, connVars, pollVars>>
    <2>1. ~cur'.read /\ pc' = "loop" /\ batch' = batch
      BY <1>3, ReadDone DEF LInv
    <2>2. Out("front")' = Out("front") /\ Out("back")' = Out("back")
      BY <1>3 DEF Out, sockVars, connVars
    <2>3. ~Reading /\ ~Reading'
      BY <1>2, <2>1, OtherFacts DEF Reading, IsRead
    <2>4. Phase'
      BY <1>2, <1>3, <2>2, <2>3, QuietPhase DEF LInv, Flow, sockVars, connVars
    <2>5. Readable("front")' <=> Readable("front")
      BY <1>3 DEF Readable, sockVars
    <2>6. Reads'
      BY <1>2, <2>1, <2>5, ReadsKept DEF LInv, Flow
    <2> QED
      BY <1>2, <1>3, <2>2, <2>4, <2>6 DEF LInv, Flow
  <1>4. CASE /\ inq["back"] # <<>> /\ TakeReceived("back")
             /\ rxbuf' = [rxbuf EXCEPT !["back"] =
                            rxbuf["back"] \o SubSeq(inq["back"], 1, Received("back"))]
             /\ UNCHANGED <<open, outq, fin, todo, got, stage, txbuf, batch, cur>>
    <2>1. \A d \in Ends : In(d)' = In(d)
      BY <1>4, ReceiveMoves, OtherFacts DEF LInv, Typed
    <2>2. /\ In("front")' = In("front") /\ In("back")' = In("back")
          /\ Out("front")' = Out("front") /\ Out("back")' = Out("back")
      BY <1>4, <2>1, OtherFacts DEF Out
    <2>3. rxbuf'["front"] = rxbuf["front"] /\ inq'["front"] = inq["front"]
      BY <1>4, OtherFacts DEF LInv, Typed, Sized, Streams, TakeReceived
    <2>4. Readable("front")' <=> Readable("front")
      BY <1>4, <2>3 DEF Readable
    <2>5. Reads'
      BY <1>2, <1>4, <2>4, ReadsKept DEF LInv, Flow
    <2>6. ~Reading /\ ~Reading'
      BY <1>2, <1>4, OtherFacts DEF Reading, IsRead
    <2>7. Served => Served'
      BY <2>3, <2>6 DEF Served
    <2>8. ~Fresh
      BY <1>4 DEF Fresh
    <2>9. Connecting => Connecting'
      BY <1>2, <1>4, <2>2, <2>3, <2>6 DEF Connecting
    <2>10. Streaming => Streaming'
      BY <1>2, <1>4, <2>2, <2>7 DEF Streaming, Confirmation
    <2> QED
      BY <1>2, <1>4, <2>2, <2>5, <2>8, <2>9, <2>10 DEF LInv, Flow, Phase
  <1> QED
    BY <1>1, <1>3, <1>4 DEF RecvFromRemote

\* The remote-proxy confirms: its reply is all there is, and streaming starts.
LEMMA EnterStreaming ==
    ASSUME Protocol, LInv, open, Connecting, pc # "loop", cur.conn = "back",
           Decrypts(rxbuf["back"]),
           UNCHANGED <<open, inq, todo, fin, kind, batch>>,
           stage'["front"] = "streaming", stage'["back"] = "streaming",
           rxbuf'["back"] = <<>>,
           pc' = "loop", cur' = cur \/ ~cur'.read,
           Out("front")' = Confirmation
    PROVE  Flow'
  <1> DEFINE w == AfterPacket(DownData)
  <1>1. /\ w \in Seq(Unit) /\ Packets(w) /\ Payload(w) = Tail(Payload(DownData))
    BY AfterHandshake, OwnWords DEF Protocol
  <1>2. inq["back"] = <<>> /\ todo["back"] = w
    <2> DEFINE r == rxbuf["back"]
               i == inq["back"]
               t == todo["back"]
    <2>1. r \in Seq(Unit) /\ i \in Seq(Unit) /\ t \in Seq(Unit)
      BY OtherFacts DEF LInv, Typed, Sized, Streams
    <2>2. r \o (i \o t) = DownData /\ Len(t) >= Len(DownData) - 2
      BY InRegrouped, OtherFacts DEF Connecting, LInv, Typed
    <2> HIDE DEF r, i, t
    <2>3. Decrypts(r)
      BY DEF r
    <2>4. i = <<>> /\ t = w
      BY <2>1, <2>2, <2>3, OnlyHandshake, OwnWords DEF Protocol
    <2> QED
      BY <2>4 DEF i, t
  <1>3. In("back")' = w
    <2>1. In("back")' = (<<>> \o <<>>) \o w
      BY <1>2 DEF In
    <2> HIDE DEF w
    <2> QED
      BY <1>1, <2>1, ConcatEmptySeq, EmptySeq
  <1> HIDE DEF w
  <1>4. Out("front")' \o Payload(w) = Confirmation \o Tail(Payload(DownData))
    BY <1>1
  <1>5. Streaming'
    BY <1>1, <1>3, <1>4 DEF Streaming, Confirmation
  <1>6. Readable("front")' <=> Readable("front")
    BY DEF Readable
  <1>7. Reads'
    BY <1>6, ReadsKept DEF LInv, Flow
  <1> QED
    BY <1>5, <1>7 DEF Flow, Phase

\* A packet goes to the application, whether its socket takes it or not.
LEMMA TakesPacket ==
    ASSUME LInv, open, Streaming, pc # "loop", cur.conn = "back",
           Decrypts(rxbuf["back"]),
           UNCHANGED <<open, inq, todo, fin, kind, batch, stage>>,
           rxbuf' = [rxbuf EXCEPT !["back"] = AfterPacket(rxbuf["back"])],
           cur' = cur \/ ~cur'.read, pc' # "loop" => cur'.read,
           Out("front")' = Out("front") \o Decrypted(rxbuf["back"]),
           Out("back")' = Out("back")
    PROVE  Flow'
  <1> DEFINE r == rxbuf["back"]
             x == inq["back"] \o todo["back"]
             d == Decrypted(r)
             a == AfterPacket(r)
             o == Out("front")
  <1>1. r \in Seq(Unit) /\ x \in Seq(Unit) /\ In("back") = r \o x
    BY InRegrouped, OtherFacts DEF LInv, Typed, Sized, Streams
  <1>2. d \in Seq(Unit) /\ a \in Seq(Unit)
    BY <1>1, DecryptFacts
  <1>3. o \in Seq(Unit)
    BY InOutTyped, OtherFacts DEF LInv, Typed
  <1>4. rxbuf'["back"] = a /\ rxbuf'["front"] = rxbuf["front"]
    BY <1>2, OtherFacts DEF LInv, Typed, Sized, Streams
  <1>5. In("back")' = a \o x /\ In("front")' = In("front")
    <2>1. In("back")' = (a \o inq["back"]) \o todo["back"]
      BY <1>4 DEF In
    <2>2. inq["back"] \in Seq(Unit) /\ todo["back"] \in Seq(Unit)
      BY OtherFacts DEF LInv, Typed, Sized, Streams
    <2>3. \A u, v \in Seq(Unit) : (a \o u) \o v = a \o (u \o v)
      <3> HIDE DEF a
      <3> QED
        BY <1>2, Regroup
    <2>4. In("front")' = In("front")
      BY <1>4 DEF In
    <2> QED
      BY <2>1, <2>2, <2>3, <2>4, Zenon
  <1> HIDE DEF x
  <1>6. d \in Seq(Data) /\ Packets(a \o x) /\ r \o x = Encrypt(d) \o (a \o x)
    BY <1>1, PacketsRest DEF Streaming
  <1>7. a \o x \in Seq(Unit)
    <2> HIDE DEF a
    <2> QED
      BY <1>1, <1>2, ConcatProperties
  <1> HIDE DEF r, d, a, o
  <1>8. (o \o d) \o Payload(a \o x) = o \o Payload(Encrypt(d) \o (a \o x))
    BY <1>3, <1>6, <1>7, PayloadLeaves
  <1>9. (o \o d) \o Payload(a \o x) = Confirmation \o Tail(Payload(DownData))
    BY <1>1, <1>6, <1>8 DEF Streaming, o
  <1>10. Out("front")' = o \o d
    BY DEF o, d, r
  <1>11. Streaming'
    BY <1>5, <1>6, <1>9, <1>10 DEF Streaming, Confirmation
  <1>12. Readable("front")' <=> Readable("front")
    BY DEF Readable
  <1>13. Reads'
    BY <1>12, ReadsKept DEF LInv, Flow
  <1> QED
    BY <1>11, <1>13 DEF LInv, Flow, Phase

\* What a callback appends to txbuf and does not send.
LEMMA TxbufGrows ==
    ASSUME Sized, NEW c \in Ends, NEW data \in Seq(Unit),
           txbuf' = [txbuf EXCEPT ![c] = txbuf[c] \o data],
           UNCHANGED <<got, outq>>
    PROVE  Out(c)' = Out(c) \o data /\ \A d \in Ends : d # c => Out(d)' = Out(d)
  <1> DEFINE s == got[c] \o outq[c]
             t == txbuf[c]
  <1>1. s \in Seq(Unit) /\ t \in Seq(Unit)
    BY ConcatProperties DEF Sized, Streams
  <1>2. txbuf'[c] = t \o data
    BY DEF Sized, Streams
  <1>3. Out(c) = s \o t /\ Out(c)' = s \o (t \o data)
    BY <1>2 DEF Out
  <1> HIDE DEF s, t
  <1>4. (s \o t) \o data = s \o (t \o data)
    <2>1. \A u, v \in Seq(Unit) : (s \o u) \o v = s \o (u \o v)
      BY <1>1, Regroup
    <2> QED
      BY <1>1, <2>1, Zenon
  <1>5. \A d \in Ends : d # c => Out(d)' = Out(d)
    BY DEF Out, Sized, Streams
  <1> QED
    BY <1>3, <1>4, <1>5

LEMMA StreamToClientFlow ==
    ASSUME LInv, StreamToClient
    PROVE  Flow'
  <1>1. /\ open /\ pc # "loop" /\ cur.conn = "back" /\ Decrypts(rxbuf["back"])
        /\ stage["back"] = "streaming"
        /\ UNCHANGED <<open, inq, todo, fin, kind, got, stage>>
        /\ rxbuf' = [rxbuf EXCEPT !["back"] = AfterPacket(rxbuf["back"])]
        /\ Forward("back", "front", Decrypted(rxbuf["back"]))
        /\ HandlerReturns(0) \/ UNCHANGED <<batch, cur, pc>>
    BY DEF StreamToClient, HandlingRemote, ElsewhereSame, loopVars
  <1>2. Streaming /\ cur.read
    BY <1>1 DEF LInv, Flow, Phase, Fresh, Connecting, Reads
  <1>3. Decrypted(rxbuf["back"]) \in Seq(Unit)
    BY <1>1, DecryptFacts, OtherFacts DEF LInv, Typed, Sized, Streams
  <1>4. /\ Out("front")' = Out("front") \o Decrypted(rxbuf["back"])
        /\ Out("back")' = Out("back")
    BY <1>1, <1>3, ForwardMoves, OtherFacts DEF LInv, Typed
  <1>5. /\ batch' = batch /\ (cur' = cur \/ ~cur'.read)
        /\ pc' # "loop" => cur'.read
    BY <1>1, <1>2, HandlerReturnsDone DEF LInv
  <1> QED
    BY <1>1, <1>2, <1>4, <1>5, TakesPacket

LEMMA ResponseFlow ==
    ASSUME Protocol, LInv, HandleHandshakeResponse
    PROVE  Flow'
  <1>1. /\ open /\ pc # "loop" /\ cur.conn = "back" /\ Decrypts(rxbuf["back"])
        /\ stage["back"] = "handshake"
        /\ UNCHANGED <<open, inq, todo, fin, kind, got>>
        /\ stage'["front"] = "streaming" /\ stage'["back"] = "streaming"
        /\ HandlerReturns(0)
    BY OtherFacts DEF HandleHandshakeResponse, HandlingRemote, ElsewhereSame
  <1>2. Connecting
    BY <1>1 DEF LInv, Flow, Phase, Fresh, Streaming
  <1>3. pc' = "loop" /\ batch' = batch /\ (cur' = cur \/ ~cur'.read)
    BY <1>1, HandlerReturnsDone DEF LInv
  <1>4. rxbuf'["back"] = <<>>
    BY <1>1, OtherFacts DEF HandleHandshakeResponse, LInv, Typed, Sized, Streams
  <1>5. CASE kind = "http"
    <2>1. Forward("front", "back", Encrypt(rxbuf["front"]))
      BY <1>5 DEF HandleHandshakeResponse
    <2>2. Encrypt(rxbuf["front"]) \in Seq(Unit)
      BY EncryptUnits, OtherFacts DEF LInv, Typed, Sized, Streams
    <2>3. Out("front")' = Out("front")
      BY <1>1, <2>1, <2>2, ForwardMoves, OtherFacts DEF LInv, Typed
    <2>4. Out("front")' = Confirmation
      BY <1>2, <1>5, <2>3 DEF Connecting, Confirmation
    <2> QED
      BY <1>1, <1>2, <1>3, <1>4, <2>4, EnterStreaming
  <1>6. CASE kind # "http"
    <2>1. /\ got["front"] = <<>> /\ outq["front"] = <<>>
          /\ txbuf["front"] = <<>>
      BY <1>2, NothingOut, OtherFacts DEF Connecting, LInv, Typed
    <2>2. Least(1, SndBuf - Len(outq["front"])) = 1
      BY <2>1, EmptySeq DEF Least
    <2>3. /\ outq' = [outq EXCEPT !["front"] = Append(<<>>, Established)]
          /\ txbuf' = [txbuf EXCEPT !["front"] = <<>>]
      BY <1>6, <2>1, <2>2 DEF HandleHandshakeResponse
    <2>4. outq'["front"] = <<Established>> /\ outq'["back"] = outq["back"]
      BY <2>3, OtherFacts DEF LInv, Typed, Sized, Streams
    <2>5. txbuf'["front"] = <<>> /\ txbuf'["back"] = txbuf["back"]
      BY <2>3, OtherFacts DEF LInv, Typed, Sized, Streams
    <2>6. Out("front")' = (<<>> \o <<Established>>) \o <<>>
      BY <1>1, <2>1, <2>4, <2>5 DEF Out
    <2>7. Out("front")' = <<Established>>
      BY <2>6, OwnStreams, ConcatEmptySeq
    <2>8. Out("front")' = Confirmation
      BY <1>6, <2>7 DEF Confirmation, LInv, Typed
    <2> QED
      BY <1>1, <1>2, <1>3, <1>4, <2>8, EnterStreaming
  <1> QED
    BY <1>5, <1>6

\* A failed send loses nothing: what it did not send stays in txbuf.
LEMMA SendFailureFlow ==
    ASSUME Protocol, LInv, SendFailureMasked
    PROVE  Flow'
  <1>1. /\ open /\ pc # "loop" /\ cur.conn = "back" /\ Decrypts(rxbuf["back"])
        /\ UNCHANGED <<open, inq, todo, fin, kind, got, outq>>
        /\ stage' = [c \in Ends |-> "streaming"]
        /\ HandlerReturns(-1)
    BY DEF SendFailureMasked, HandlingRemote, sockVars
  <1>2. pc' = "loop" /\ batch' = batch /\ (cur' = cur \/ ~cur'.read)
    BY <1>1, HandlerReturnsDone DEF LInv
  <1>3. stage'["front"] = "streaming" /\ stage'["back"] = "streaming"
    BY <1>1, OtherFacts
  <1>4. CASE stage["back"] = "streaming"
    <2>1. /\ rxbuf' = [rxbuf EXCEPT !["back"] = AfterPacket(rxbuf["back"])]
          /\ txbuf' = [txbuf EXCEPT !["front"] =
                         txbuf["front"] \o Decrypted(rxbuf["back"])]
      BY <1>4 DEF SendFailureMasked
    <2>2. Streaming
      BY <1>1, <1>4 DEF LInv, Flow, Phase, Fresh, Connecting
    <2>3. stage' = stage
      BY <1>1, <2>2 DEF Streaming, LInv, Typed, Sized, Ends
    <2>4. Decrypted(rxbuf["back"]) \in Seq(Unit)
      BY <1>1, DecryptFacts, OtherFacts DEF LInv, Typed, Sized, Streams
    <2>5. /\ Out("front")' = Out("front") \o Decrypted(rxbuf["back"])
          /\ Out("back")' = Out("back")
      BY <1>1, <2>1, <2>4, TxbufGrows, OtherFacts DEF LInv, Typed
    <2> QED
      BY <1>1, <1>2, <2>1, <2>2, <2>3, <2>5, TakesPacket
  <1>5. CASE stage["back"] # "streaming"
    <2>1. Connecting
      <3>1. ~Decrypts(<<>>)
        BY DEF Decrypts
      <3> QED
        BY <1>1, <1>5, <3>1 DEF LInv, Flow, Phase, Fresh, Streaming
    <2>2. CASE kind = "http"
      <3> DEFINE e == Encrypt(rxbuf["front"])
      <3>1. /\ rxbuf' = [c \in Ends |-> <<>>]
            /\ txbuf' = [txbuf EXCEPT !["back"] = txbuf["back"] \o e]
        BY <1>5, <2>2 DEF SendFailureMasked
      <3>2. rxbuf'["back"] = <<>>
        BY <3>1, OtherFacts
      <3>3. e \in Seq(Unit)
        BY EncryptUnits, OtherFacts DEF LInv, Typed, Sized, Streams
      <3>4. Out("front")' = Out("front")
        BY <1>1, <3>1, <3>3, TxbufGrows, OtherFacts DEF LInv, Typed
      <3>5. Out("front")' = Confirmation
        BY <2>1, <2>2, <3>4 DEF Connecting, Confirmation
      <3> QED
        BY <1>1, <1>2, <1>3, <2>1, <3>2, <3>5, EnterStreaming
    <2>3. CASE kind # "http"
      <3>1. /\ got["front"] = <<>> /\ outq["front"] = <<>>
            /\ txbuf["front"] = <<>>
        BY <2>1, NothingOut, OtherFacts DEF Connecting, LInv, Typed
      <3>2. /\ rxbuf' = [rxbuf EXCEPT !["back"] = <<>>]
            /\ txbuf' = [txbuf EXCEPT !["front"] = <<Established>>]
        BY <1>5, <2>3 DEF SendFailureMasked
      <3>3. rxbuf'["back"] = <<>>
        BY <3>2, OtherFacts DEF LInv, Typed, Sized, Streams
      <3>4. txbuf'["front"] = <<Established>> /\ txbuf'["back"] = txbuf["back"]
        BY <3>2, OtherFacts DEF LInv, Typed, Sized, Streams
      <3>5. Out("front")' = (<<>> \o <<>>) \o <<Established>>
        BY <1>1, <3>1, <3>4 DEF Out
      <3>6. Out("front")' = <<Established>>
        BY <3>5, OwnStreams, ConcatEmptySeq
      <3>7. Out("front")' = Confirmation
        BY <2>3, <3>6 DEF Confirmation, LInv, Typed
      <3> QED
        BY <1>1, <1>2, <1>3, <2>1, <3>3, <3>7, EnterStreaming
    <2> QED
      BY <2>2, <2>3
  <1> QED
    BY <1>4, <1>5

\* Every action conserves.
LEMMA NextFlow ==
    ASSUME Protocol, eager = {}, LInv, [Next]_localVars
    PROVE  Flow'
  <1>1. CASE ConnectFails \/ \E c \in Ends : Fails(c)
    BY <1>1, ErrorFlow DEF ConnectFails, Fails, CallFails, LInv
  <1>2. CASE UNCHANGED localVars
    <2>1. /\ UNCHANGED <<open, inq, todo, fin, stage, rxbuf, kind, batch, cur, pc>>
          /\ Out("front")' = Out("front") /\ Out("back")' = Out("back")
      BY <1>2 DEF localVars, vars, sockVars, connVars, loopVars, Out
    <2>2. Readable("front")' <=> Readable("front")
      BY <2>1 DEF Readable
    <2>3. open => Reads'
      BY <2>1, <2>2 DEF LInv, Flow, Reads, Reading, IsRead
    <2>4. open => Phase'
      BY <2>1, QuietPhase DEF LInv, Flow
    <2> QED
      BY <2>1, <2>3, <2>4 DEF LInv, Flow
  <1>3. CASE \E c \in Ends : Deliver(c) \/ Drain(c) \/ Close(c)
    BY <1>3, DeliverFlow, DrainCloseFlow
  <1>4. CASE EventLoop
    BY <1>4, EventLoopFlow
  <1>5. CASE RecvFromClient \/ RecvFromRemote
    BY <1>5, RecvFromClientFlow, RecvFromRemoteFlow
  <1>6. CASE HandleClientRequest \/ HandleHandshakeResponse
    BY <1>6, ClientRequestFlow, ResponseFlow
  <1>7. CASE StreamToRemote \/ StreamToClient
    BY <1>7, StreamToRemoteFlow, StreamToClientFlow
  <1>8. CASE WaitForMore \/ SendFailureMasked
    BY <1>8, WaitFlow, SendFailureFlow
  <1>9. CASE \E c \in Ends : SendTo(c)
    BY <1>9, SendToFlow
  <1> QED
    BY <1>1, <1>2, <1>3, <1>4, <1>5, <1>6, <1>7, <1>8, <1>9 DEF Next, IoThread

\* Whether the ends wait is settled from the start.
LEMMA Conservation ==
    ASSUME Protocol
    PROVE  Spec => [](eager = {} => LInv)
  <1> DEFINE Inv == Typed /\ (eager = {} => Flow)
  <1>1. Init => Inv
    BY InitTyped, InitFlow
  <1>2. Inv /\ [Next]_localVars => Inv'
    <2> SUFFICES ASSUME Inv, [Next]_localVars PROVE Inv'
      OBVIOUS
    <2>1. Typed'
      BY NextTyped
    <2>2. eager' = eager
      BY DEF Next, IoThread, Deliver, Drain, Close, localVars
    <2>3. eager = {} => Flow'
      BY NextFlow DEF LInv
    <2> QED
      BY <2>1, <2>2, <2>3
  <1>3. Inv => (eager = {} => LInv)
    BY DEF LInv
  <1> QED
    BY <1>1, <1>2, <1>3, PTL DEF Spec

-----------------------------------------------------------------------------
(* What follows                                                            *)

\* What the site says reaches the application: complete, once, in order, and
\* behind the confirmation of a CONNECT, if the ends wait
\* (recvfrom_remote_cb, stream_to_client, sendto_client_cb).
THEOREM DownlinkSafe ==
    ASSUME Protocol
    PROVE  Spec => []DownlinkConserved
  <1>1. ASSUME eager = {} => LInv
        PROVE  DownlinkConserved
    <2> SUFFICES ASSUME eager = {}, open, stage["back"] = "streaming"
                 PROVE  Out("front") \o Payload(In("back"))
                          = Confirmation \o Tail(Payload(DownData))
      BY DEF DownlinkConserved, In, Out, Confirmation
    <2> QED
      BY <1>1 DEF LInv, Flow, Phase, Fresh, Connecting, Streaming
  <1> QED
    BY <1>1, Conservation, PTL

=============================================================================
