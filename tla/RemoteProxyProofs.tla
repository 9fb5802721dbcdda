------------------------- MODULE RemoteProxyProofs -------------------------
(***************************************************************************)
(* Typing, back pressure and conservation in the remote-proxy for every    *)
(* stream, every buffer size and every way the stream is cut.  Typing and  *)
(* conservation hold for both pollers; back pressure is a matter of        *)
(* kqueue, where the two filters of a descriptor are switched one by one.  *)
(***************************************************************************)
EXTENDS RemoteProxy, RelayProofs

USE BackendAssumption, BufferAssumption, FailingAssumption, DataAssumption

\* TypeOK does not say what the buffers hold.
Typed == Sized /\ pc \in {"loop", "handle"}

USE DEF Typed

-----------------------------------------------------------------------------
(* Buffers                                                                 *)

\* The answer to the handshake is two units long.
LEMMA ReplyFacts ==
    Encrypt(<<Reply>>) \in Seq(Unit) /\ Len(Encrypt(<<Reply>>)) = 2
  <1>1. Reply \in {"data"} \X Values
    BY ValuesAssumption DEF Reply
  <1>2. Reply \in Unit
    BY <1>1 DEF Unit
  <1> DEFINE s == <<Reply>>
  <1>3. s \in Seq(Unit) /\ Len(s) = 1
    BY <1>2
  <1> HIDE DEF s
  <1>4. Encrypt(s) \in Seq(Unit) /\ Len(Encrypt(s)) = Len(s) + 1
    BY <1>3, EncryptFacts
  <1> QED
    BY <1>3, <1>4 DEF s

\* Both ends of the handshake are data.
LEMMA RequestFacts ==
    Request \in Data /\ Reply \in Data
  BY ValuesAssumption DEF Reply, Request, Data

-----------------------------------------------------------------------------
(* Typing                                                                  *)

\* A pair that was just accepted.
LEMMA InitTyped == Init => Typed
  BY RelayInitSized DEF Init

LEMMA LocalTyped ==
    ASSUME Typed, RecvFromLocal \/ WaitForMore
    PROVE  Typed'
  <1> USE DEF Sized, sockVars, connVars, pollVars
  <1>1. CASE HandleError
    BY <1>1, ErrorTyped DEF HandleError
  <1>2. CASE RecvFromLocal /\ ~HandleError
    <2>1. /\ TakeReceived("front")
          /\ rxbuf' = [rxbuf EXCEPT !["front"] =
                         rxbuf["front"]
                           \o SubSeq(inq["front"], 1, Received("front"))]
          /\ pc' \in {"handle", "loop"}
          /\ UNCHANGED <<open, outq, fin, todo, got, stage, txbuf, mask, armed,
                         batch, cur>>
      BY <1>2 DEF RecvFromLocal
    <2>2. /\ inq' \in Streams /\ \A c \in Ends : Len(inq'[c]) <= RcvBuf
          /\ SubSeq(inq["front"], 1, Received("front")) \in Seq(Unit)
      BY <2>1, ReceiveFacts DEF Ends
    <2>3. rxbuf["front"] \o SubSeq(inq["front"], 1, Received("front"))
            \in Seq(Unit)
      BY <2>2, ConcatProperties DEF Streams, Ends
    <2> QED
      BY <2>1, <2>2, <2>3 DEF Streams
  <1>3. CASE WaitForMore
    BY <1>3, ReturnsTyped DEF WaitForMore
  <1> QED
    BY <1>1, <1>2, <1>3

\* The values HandleHandshakeRequest assigns.
HandshakeAll == txbuf["front"] \o Encrypt(<<Reply>>)
HandshakeSent == Least(Len(HandshakeAll), SndBuf - Len(outq["front"]))

LEMMA HandshakeTyped ==
    ASSUME Typed, HandleHandshakeRequest
    PROVE  Typed'
  <1> DEFINE all == HandshakeAll
             n == HandshakeSent
  <1>1. all \in Seq(Unit)
    BY ReplyFacts, ConcatProperties, OtherFacts
       DEF Sized, Streams, HandshakeAll
  <1>2. /\ outq["front"] \o SubSeq(all, 1, n) \in Seq(Unit)
        /\ Len(outq["front"] \o SubSeq(all, 1, n)) <= SndBuf
    BY <1>1, SendFacts DEF HandshakeSent, Ends
  <1>3. /\ outq' = [outq EXCEPT !["front"] = outq["front"] \o SubSeq(all, 1, n)]
        /\ rxbuf' = [rxbuf EXCEPT !["front"] = <<>>]
        /\ txbuf' = [txbuf EXCEPT !["front"] = IF n > 0 THEN <<>> ELSE all]
        /\ stage' \in [Ends -> {"none", "handshake", "streaming"}]
        /\ UNCHANGED <<open, inq, fin, todo, got>>
    BY DEF HandleHandshakeRequest, HandshakeAll, HandshakeSent
  <1>4. mask' \in [Ends -> SUBSET Kinds]
    BY MaskFacts DEF HandleHandshakeRequest, Sized, Ends
  <1>5. armed' \in SUBSET Ends
    BY RearmTyped DEF HandleHandshakeRequest
  <1>6. cur' \in LiveEvent \cup {NoEvent} /\ pc' = "loop" /\ batch' = batch
    BY ReturnsTyped DEF HandleHandshakeRequest
  <1>7. <<>> \in Seq(Unit)
    BY EmptySeq
  <1> HIDE DEF all, n
  <1> QED
    BY <1>1, <1>2, <1>3, <1>4, <1>5, <1>6, <1>7 DEF Sized, Streams

LEMMA StreamToServerTyped ==
    ASSUME Typed, StreamToServer
    PROVE  Typed'
  <1>1. /\ Decrypted(rxbuf["front"]) \in Seq(Unit)
        /\ AfterPacket(rxbuf["front"]) \in Seq(Unit)
    BY DecryptFacts DEF StreamToServer, Sized, Streams, Ends
  <1>2. /\ txbuf' \in Streams /\ outq' \in Streams
        /\ \A e \in Ends : Len(outq'[e]) <= SndBuf
        /\ mask' \in [Ends -> SUBSET Kinds] /\ armed' \in SUBSET Ends
    BY <1>1, ForwardTyped DEF StreamToServer, Ends
  <1>3. /\ rxbuf' = [rxbuf EXCEPT !["front"] = AfterPacket(rxbuf["front"])]
        /\ UNCHANGED <<open, inq, fin, todo, got, stage>>
    BY DEF StreamToServer
  <1>4. /\ cur' \in LiveEvent \cup {NoEvent}
        /\ pc' \in {"loop", "handle"} /\ batch' = batch
    BY ReturnsTyped DEF StreamToServer, Sized, loopVars
  <1> QED
    BY <1>1, <1>2, <1>3, <1>4 DEF Sized, Streams

LEMMA RecvFromServerTyped ==
    ASSUME Typed, RecvFromServer
    PROVE  Typed'
  <1> DEFINE data == SubSeq(inq["back"], 1, Received("back"))
  <1>1. CASE HandleError
    BY <1>1, ErrorTyped DEF HandleError
  <1>2. CASE RecvReturns /\ UNCHANGED <<open, sockVars, connVars, pollVars>>
    BY <1>2, ReturnsTyped DEF Sized, sockVars, connVars, pollVars
  <1>3. CASE /\ TakeReceived("back")
             /\ UNCHANGED <<open, fin, todo, got, stage, rxbuf>>
             /\ Forward("back", "front", Encrypt(data))
             /\ RecvReturns \/ UNCHANGED loopVars
    <2>1. /\ inq' \in Streams /\ \A c \in Ends : Len(inq'[c]) <= RcvBuf
          /\ data \in Seq(Unit)
      BY <1>3, ReceiveFacts DEF Ends
    <2>2. Encrypt(data) \in Seq(Unit)
      BY <2>1, EncryptFacts
    <2>3. /\ txbuf' \in Streams /\ outq' \in Streams
          /\ \A e \in Ends : Len(outq'[e]) <= SndBuf
          /\ mask' \in [Ends -> SUBSET Kinds] /\ armed' \in SUBSET Ends
      BY <1>3, <2>2, ForwardTyped DEF Ends
    <2>4. /\ cur' \in LiveEvent \cup {NoEvent}
          /\ pc' \in {"loop", "handle"} /\ batch' = batch
      BY <1>3, ReturnsTyped DEF Sized, loopVars
    <2> QED
      BY <1>3, <2>1, <2>3, <2>4 DEF Sized
  <1> QED
    BY <1>1, <1>2, <1>3 DEF RecvFromServer

LEMMA SendToTyped ==
    ASSUME Typed, NEW c \in Ends, SendTo(c)
    PROVE  Typed'
  <1> DEFINE n == Least(Len(txbuf[c]), SndBuf - Len(outq[c]))
  <1>1. /\ Unsent(txbuf[c], n) \in Seq(Unit)
        /\ outq[c] \o SubSeq(txbuf[c], 1, n) \in Seq(Unit)
        /\ Len(outq[c] \o SubSeq(txbuf[c], 1, n)) <= SndBuf
    BY SendFacts DEF Sized, Streams
  <1>2. /\ outq' = [outq EXCEPT ![c] = outq[c] \o SubSeq(txbuf[c], 1, n)]
        /\ txbuf' = [txbuf EXCEPT ![c] = Unsent(txbuf[c], n)]
        /\ UNCHANGED <<open, inq, fin, todo, got, stage, rxbuf>>
        /\ pc = "loop" /\ SendReturns
    BY DEF SendTo, Sending
  <1>3. mask' \in [Ends -> SUBSET Kinds] /\ armed' \in SUBSET Ends
    <2>1. CASE UNCHANGED pollVars
      BY <2>1 DEF Sized, pollVars
    <2>2. CASE /\ mask' = [mask EXCEPT ![c] = UnwatchWriteMask(@),
                                      ![Other(c)] = WatchReadMask(@)]
               /\ Rearm(Ends)
      BY <2>2, MaskFacts, RearmTyped DEF Sized
    <2> QED
      BY <2>1, <2>2 DEF SendTo
  <1>4. cur' \in LiveEvent \cup {NoEvent} /\ pc' = "loop" /\ batch' = batch
    BY <1>2, ReturnsTyped
  <1> HIDE DEF n
  <1> QED
    BY <1>1, <1>2, <1>3, <1>4 DEF Sized, Streams

\* Every action keeps the types.
LEMMA NextTyped == Typed /\ [Next]_vars => Typed'
  <1> SUFFICES ASSUME Typed, [Next]_vars PROVE Typed'
    OBVIOUS
  <1>1. ASSUME NEW c \in Ends, Deliver(c) \/ Fetch(c) \/ Finish(c)
        PROVE  Typed'
    BY <1>1, NetworkTyped DEF Deliver, Arrive, Fetch, Finish, loopVars
  <1>2. CASE PollerWait \/ NextEvent
    BY <1>2, PollerTyped DEF PollerWait, NextEvent
  <1>3. CASE CloseOnEof \/ ConnectFails \/ \E c \in Ends : CallFails(c)
    BY <1>3, ErrorTyped DEF CloseOnEof, ConnectFails, CallFails, HandleError
  <1>4. CASE RecvFromLocal \/ WaitForMore
    BY <1>4, LocalTyped
  <1>5. CASE HandleHandshakeRequest
    BY <1>5, HandshakeTyped
  <1>6. CASE StreamToServer
    BY <1>6, StreamToServerTyped
  <1>7. CASE RecvFromServer
    BY <1>7, RecvFromServerTyped
  <1>8. ASSUME NEW c \in Ends, SendTo(c)
        PROVE  Typed'
    BY <1>8, SendToTyped
  <1>9. CASE UNCHANGED vars
    BY <1>9 DEF vars, sockVars, connVars, pollVars, loopVars, Sized
  <1> QED
    BY <1>1, <1>2, <1>3, <1>4, <1>5, <1>6, <1>7, <1>8, <1>9 DEF Next, IoThread

\* remote-proxy.c keeps every variable in its range and every socket within
\* its buffers, with either poller.
THEOREM TypeCorrect == Spec => []TypeOK
  <1>1. Typed => TypeOK
    BY DEF Sized, TypeOK
  <1> QED
    BY InitTyped, NextTyped, <1>1, PTL DEF Spec

-----------------------------------------------------------------------------
(* Back pressure                                                           *)

\* Of an event one flag is set, and the one being handled was taken out.
EventsPlain ==
    /\ \A e \in batch \cup {cur} :
          e = NoEvent \/ \E c \in Ends : e = Read(c) \/ e = Write(c) \/ e = Eof(c)
    /\ cur \notin batch
    /\ pc = "handle" => cur = Read("front")

\* Nobody reads for a peer that has output pending, and nobody is told to
\* write who has none: events are not made stale by the ones before them.
EventsTimely ==
    \A c \in Ends :
        /\ Read(c) \in batch \cup {cur} => txbuf[Other(c)] = <<>>
        /\ Write(c) \in batch \cup {cur} => txbuf[c] # <<>>

\* Before the handshake there is no connection to the server and no output.
Unconnected ==
    /\ stage["front"] = "handshake"
    /\ \A c \in Ends : txbuf[c] = <<>> /\ outq[c] = <<>>
    /\ mask["front"] = {"in"} /\ mask["back"] = {}
    /\ \A e \in batch \cup {cur} : e.conn = "front"

Paused ==
    \A c \in Ends :
        /\ txbuf[c] # <<>> <=> "out" \in mask[c]
        /\ txbuf[c] # <<>> <=> "in" \notin mask[Other(c)]

Connected == stage["front"] = "streaming" /\ Paused

Flow ==
    open => /\ EventsPlain
            /\ EventsTimely
            /\ stage["back"] = "none" => Unconnected
            /\ stage["back"] # "none" => Connected
            /\ Len(txbuf["front"]) <= RecvMax + 1

IInv == Typed /\ Flow

\* The forms of events are all different.
LEMMA FormsDiffer ==
    ASSUME NEW c \in Ends, NEW d \in Ends
    PROVE  /\ Read(c) # Write(d) /\ Read(c) # Eof(d) /\ Write(c) # Eof(d)
           /\ Read(c) # NoEvent /\ Write(c) # NoEvent /\ Eof(c) # NoEvent
           /\ Read(c) = Read(d) => c = d
           /\ Write(c) = Write(d) => c = d
           /\ Read(c).conn = c /\ Write(c).conn = c /\ Eof(c).conn = c
           /\ NoEvent.conn = "front" /\ NoEvent \notin LiveEvent
  BY DEF Read, Write, Eof, NoEvent, LiveEvent

\* The event in hand, by what is done about it.
LEMMA CurFacts ==
    ASSUME EventsPlain, NEW c \in Ends
    PROVE  /\ Receiving(c) => cur = Read(c)
           /\ Sending(c) => cur = Write(c)
           /\ Handling(c) => c = "front" /\ cur = Read("front")
  <1>1. cur = NoEvent \/ \E d \in Ends : cur = Read(d) \/ cur = Write(d)
                                          \/ cur = Eof(d)
    BY DEF EventsPlain
  <1>2. Receiving(c) => cur = Read(c)
    BY <1>1 DEF Receiving, NoEvent, Read, Write, Eof
  <1>3. Sending(c) => cur = Write(c)
    BY <1>1 DEF Sending, NoEvent, Read, Write, Eof
  <1>4. Handling(c) => c = "front" /\ cur = Read("front")
    BY DEF Handling, EventsPlain, Read
  <1> QED
    BY <1>2, <1>3, <1>4

\* An event of one flag is over when its callback returns.
LEMMA Served ==
    ASSUME NEW c \in Ends
    PROVE  /\ RecvReturns /\ cur = Read(c) => cur' = NoEvent
           /\ SendReturns /\ cur = Write(c) => cur' = NoEvent
  BY DEF RecvReturns, SendReturns, Read, Write, NoEvent, Remaining

\* On kqueue the filters are independent.
LEMMA KqueueMasks ==
    ASSUME Backend = "kqueue", NEW m
    PROVE  /\ WatchReadMask(m) = m \cup {"in"}
           /\ WatchWriteMask(m) = m \cup {"out"}
           /\ UnwatchReadMask(m) = m \ {"in"}
           /\ UnwatchWriteMask(m) = m \ {"out"}
  BY DEF WatchReadMask, WatchWriteMask, UnwatchReadMask, UnwatchWriteMask,
         Enabled, Disabled

\* What Forward leaves pending, and whom it pauses.
LEMMA ForwardFlow ==
    ASSUME Typed, Backend = "kqueue", NEW c \in Ends, NEW d \in Ends, c # d,
           NEW data \in Seq(Unit), data # <<>>, txbuf[d] = <<>>,
           Forward(c, d, data)
    PROVE  /\ txbuf' = [txbuf EXCEPT ![d] = txbuf'[d]]
           /\ txbuf'[d] # <<>> <=> Blocks(d, data)
           /\ Len(txbuf'[d]) <= Len(data)
           /\ Blocks(d, data) =>
                 mask' = [mask EXCEPT ![c] = mask[c] \ {"in"},
                                      ![d] = mask[d] \cup {"out"}]
           /\ ~Blocks(d, data) => mask' = mask
  <1> DEFINE all == txbuf[d] \o data
             n == Least(Len(all), SndBuf - Len(outq[d]))
             blocked == n = 0 \/ n < Len(all)
  <1>1. all = data
    BY ConcatEmptySeq
  <1>2. Len(data) \in Nat \ {0} /\ Len(txbuf[d]) = 0
    BY EmptySeq, EmptyFacts
  <1>3. /\ n \in 0 .. Len(data)
        /\ Unsent(data, n) \in Seq(Unit)
        /\ Len(Unsent(data, n)) = Len(data) - n
    BY <1>1, SendFacts
  <1>4. /\ SndBuf - Len(outq[d]) \in Nat
    BY EmptyFacts DEF Sized, Streams
  <1>5. blocked <=> Blocks(d, data)
    BY <1>1, <1>2, <1>4 DEF Blocks, Least
  <1>6. txbuf'[d] = Unsent(data, n)
        /\ txbuf' = [txbuf EXCEPT ![d] = txbuf'[d]]
    <2>1. txbuf' = [txbuf EXCEPT ![d] = Unsent(all, n)]
      BY DEF Forward
    <2>2. txbuf \in Streams
      BY DEF Sized
    <2> HIDE DEF all, n
    <2> QED
      BY <1>1, <2>1, <2>2 DEF Streams
  <1>7. txbuf'[d] # <<>> <=> Len(data) - n # 0
    BY <1>3, <1>6, EmptyFacts
  <1>8. blocked <=> Len(data) - n # 0
    BY <1>1, <1>2, <1>3
  <1>9. /\ blocked => mask' = [mask EXCEPT ![c] = UnwatchReadMask(@),
                                           ![d] = WatchWriteMask(@)]
        /\ ~blocked => mask' = mask
    BY DEF Forward, pollVars
  <1>10. mask \in [Ends -> SUBSET Kinds]
    BY DEF Sized
  <1>11. blocked => mask' = [mask EXCEPT ![c] = mask[c] \ {"in"},
                                         ![d] = mask[d] \cup {"out"}]
    BY <1>9, <1>10, KqueueMasks
  <1> HIDE DEF n, all, blocked
  <1> QED
    BY <1>2, <1>3, <1>5, <1>6, <1>7, <1>8, <1>9, <1>11

\* Nothing is pending at first.
LEMMA InitFlow == Init => Flow
  <1> SUFFICES ASSUME Init PROVE Flow
    OBVIOUS
  <1> USE DEF Init, RelayInit
  <1>1. EventsPlain
    BY DEF EventsPlain
  <1>2. EventsTimely
    BY FormsDiffer DEF EventsTimely
  <1>3. Unconnected
    BY FormsDiffer DEF Unconnected, WatchMask, Ends
  <1>4. stage["back"] = "none" /\ Len(txbuf["front"]) <= RecvMax + 1
    BY EmptySeq DEF Ends
  <1> QED
    BY <1>1, <1>2, <1>3, <1>4 DEF Flow

\* An event that is collected is timely, since interest follows the buffers.
LEMMA PollerWaitFlow ==
    ASSUME IInv, Backend = "kqueue", PollerWait
    PROVE  Flow'
  <1>1. /\ batch' = KqueueEvents /\ cur = NoEvent /\ cur' = NoEvent
        /\ pc' = "loop" /\ open
        /\ UNCHANGED <<open, stage, txbuf, outq, mask>>
    BY DEF PollerWait, sockVars, connVars
  <1>2. \A e \in batch' : \E c \in Ends :
              \/ "in" \in mask[c] /\ (e = Read(c) \/ e = Eof(c))
              \/ "out" \in mask[c] /\ e = Write(c)
    BY <1>1, KqueueFacts
  <1>3. EventsPlain'
    BY <1>1, <1>2, FormsDiffer DEF EventsPlain
  <1>4. \A c \in Ends : /\ Read(c) \in batch' => "in" \in mask[c]
                        /\ Write(c) \in batch' => "out" \in mask[c]
    BY <1>2, FormsDiffer
  <1>5. \A c \in Ends : /\ "in" \in mask[c] => txbuf[Other(c)] = <<>>
                        /\ "out" \in mask[c] => txbuf[c] # <<>>
    <2>1. CASE stage["back"] = "none"
      BY <1>1, <2>1, OtherFacts DEF IInv, Flow, Unconnected, Ends
    <2>2. CASE stage["back"] # "none"
      BY <1>1, <2>2, OtherFacts DEF IInv, Flow, Connected, Paused, Ends
    <2> QED
      BY <2>1, <2>2
  <1>6. EventsTimely'
    BY <1>1, <1>4, <1>5, FormsDiffer DEF EventsTimely
  <1>7. ASSUME stage["back"] = "none"
        PROVE  Unconnected'
    <2>1. Unconnected
      BY <1>1, <1>7 DEF IInv, Flow
    <2>2. \A e \in batch' : e.conn = "front"
      BY <1>2, <2>1, FormsDiffer DEF Unconnected, Ends
    <2> QED
      BY <1>1, <2>1, <2>2, FormsDiffer, OtherFacts DEF Unconnected
  <1>8. stage["back"] # "none" => Connected'
    BY <1>1 DEF IInv, Flow, Connected, Paused
  <1> QED
    BY <1>1, <1>3, <1>6, <1>7, <1>8 DEF IInv, Flow

\* Steps that touch neither buffers of output nor interest, and events no
\* more than by serving or picking one.
LEMMA QuietFlow ==
    ASSUME IInv, UNCHANGED <<open, stage, txbuf, mask>>,
           open => /\ batch' \cup {cur'} \subseteq batch \cup {cur, NoEvent}
                   /\ cur' \notin batch'
                   /\ pc' = "handle" => cur' = Read("front")
                   /\ \A c \in Ends : outq[c] = <<>> => outq'[c] = <<>>
    PROVE  Flow'
  <1> SUFFICES ASSUME open PROVE Flow'
    BY DEF Flow
  <1>1. EventsPlain'
    BY DEF IInv, Flow, EventsPlain
  <1>2. EventsTimely'
    BY FormsDiffer DEF IInv, Flow, EventsTimely
  <1>3. ASSUME stage["back"] = "none"
        PROVE  Unconnected'
    BY <1>3, FormsDiffer, OtherFacts DEF IInv, Flow, Unconnected
  <1>4. stage["back"] # "none" => Connected'
    BY DEF IInv, Flow, Connected, Paused
  <1> QED
    BY <1>1, <1>2, <1>3, <1>4 DEF IInv, Flow

\* A batch has events only.
LEMMA NoEventNotInBatch ==
    ASSUME Sized
    PROVE  NoEvent \notin batch
  BY FormsDiffer, OtherFacts DEF Sized

\* Picking an event.
LEMMA NextEventFlow ==
    ASSUME IInv, NextEvent
    PROVE  Flow'
  <1>1. PICK e \in batch : cur' = e /\ batch' = batch \ {e}
    BY DEF NextEvent
  <1>2. pc' = "loop" /\ UNCHANGED <<open, stage, txbuf, mask, outq>>
    BY DEF NextEvent, sockVars, connVars, pollVars
  <1> QED
    BY <1>1, <1>2, QuietFlow

\* The network does not touch what the process keeps.
LEMMA NetworkFlow ==
    ASSUME IInv, NEW c \in Ends, Deliver(c) \/ Fetch(c) \/ Finish(c)
    PROVE  Flow'
  <1>1. /\ UNCHANGED <<open, stage, txbuf, mask, batch, cur, pc>>
        /\ open
    BY DEF Deliver, Arrive, Fetch, Finish, connVars, loopVars
  <1>2. \A d \in Ends : outq[d] = <<>> => outq'[d] = <<>>
    <2>1. CASE Fetch(c)
      BY <2>1 DEF Fetch, IInv, Sized, Streams
    <2>2. CASE Deliver(c) \/ Finish(c)
      BY <2>2 DEF Deliver, Arrive, Finish
    <2> QED
      BY <2>1, <2>2
  <1>3. cur \notin batch /\ (pc = "handle" => cur = Read("front"))
    BY <1>1 DEF IInv, Flow, EventsPlain
  <1> QED
    BY <1>1, <1>2, <1>3, QuietFlow

\* A pair that is gone.
LEMMA ErrorFlow ==
    ASSUME HandleError
    PROVE  Flow'
  BY DEF HandleError, Flow

\* Reading from local sends nothing.
LEMMA LocalFlow ==
    ASSUME IInv, RecvFromLocal \/ WaitForMore
    PROVE  Flow'
  <1>1. CASE HandleError
    BY <1>1, ErrorFlow
  <1>2. CASE RecvFromLocal /\ ~HandleError
    <2>1. /\ UNCHANGED <<open, stage, txbuf, mask, outq, batch, cur>>
          /\ open /\ Receiving("front")
      BY <1>2 DEF RecvFromLocal, Receiving, pollVars
    <2>2. cur = Read("front") /\ cur \notin batch
      BY <2>1, CurFacts, OtherFacts DEF IInv, Flow, EventsPlain
    <2> QED
      BY <2>1, <2>2, QuietFlow
  <1>3. CASE WaitForMore
    <2>1. /\ UNCHANGED <<open, stage, txbuf, mask, outq, batch>>
          /\ open /\ Handling("front") /\ RecvReturns
      BY <1>3 DEF WaitForMore, Handling, RecvReturns, sockVars, connVars,
                  pollVars
    <2>2. cur' = NoEvent /\ pc' = "loop"
      BY <2>1, CurFacts, Served, OtherFacts DEF IInv, Flow, RecvReturns
    <2>3. NoEvent \notin batch
      BY NoEventNotInBatch DEF IInv
    <2> QED
      BY <2>1, <2>2, <2>3, QuietFlow
  <1> QED
    BY <1>1, <1>2, <1>3

\* The answer to the handshake fits the empty send buffer whole.
LEMMA HandshakeFlow ==
    ASSUME IInv, HandleHandshakeRequest
    PROVE  Flow'
  <1>1. Handling("front") /\ open /\ stage["front"] = "handshake"
    BY DEF HandleHandshakeRequest, Handling
  <1>2. Unconnected
    BY <1>1 DEF IInv, Flow, Connected
  <1>3. HandshakeSent > 0
    <2>1. txbuf["front"] = <<>> /\ Len(outq["front"]) = 0
      BY <1>2, EmptySeq, OtherFacts DEF Unconnected
    <2>2. Len(HandshakeAll) = 2
      BY <2>1, ReplyFacts, ConcatEmptySeq DEF HandshakeAll
    <2> QED
      BY <2>1, <2>2 DEF HandshakeSent, Least
  <1>4. /\ txbuf' = [txbuf EXCEPT !["front"] = <<>>]
        /\ stage' = [c \in Ends |-> "streaming"]
        /\ mask' = [mask EXCEPT !["back"] = {"in"}]
        /\ UNCHANGED <<open, batch>> /\ pc' = "loop"
        /\ RecvReturns
    BY <1>3 DEF HandleHandshakeRequest, HandshakeAll, HandshakeSent, WatchMask,
                RecvReturns
  <1>5. cur' = NoEvent
    BY <1>1, <1>4, CurFacts, Served, OtherFacts DEF IInv, Flow
  <1>6. \A c \in Ends : txbuf'[c] = <<>>
    BY <1>2, <1>4 DEF Unconnected, IInv, Sized, Streams
  <1>7. mask' = [c \in Ends |-> {"in"}]
    BY <1>2, <1>4 DEF Unconnected, IInv, Sized, Ends
  <1>8. EventsPlain'
    BY <1>1, <1>4, <1>5, NoEventNotInBatch
       DEF IInv, Flow, EventsPlain
  <1>9. EventsTimely'
    BY <1>1, <1>2, <1>4, <1>5, <1>6, FormsDiffer, OtherFacts
       DEF IInv, Flow, EventsTimely, Unconnected, Other
  <1>10. Connected'
    BY <1>4, <1>6, <1>7, OtherFacts DEF Connected, Paused, Other
  <1>11. Len(txbuf'["front"]) <= RecvMax + 1
    BY <1>6, EmptySeq, OtherFacts
  <1> QED
    BY <1>4, <1>8, <1>9, <1>10, <1>11, OtherFacts DEF Flow

\* Forwarding what was read from c: pending output pauses c and ends the
\* event, whose successors in the batch do not depend on it.
LEMMA ForwardStep ==
    ASSUME IInv, Backend = "kqueue", open, stage["back"] # "none",
           NEW c \in Ends, NEW d \in Ends, d = Other(c), cur = Read(c),
           NEW data \in Seq(Unit), data # <<>>,
           d = "front" => Len(data) <= RecvMax + 1,
           Forward(c, d, data),
           UNCHANGED <<open, stage, batch>>,
           Blocks(d, data) => cur' = NoEvent /\ pc' = "loop",
           ~Blocks(d, data) => UNCHANGED <<cur, pc>>
    PROVE  Flow'
  <1>1. c # d /\ c = Other(d)
    BY DEF Other, Ends
  <1>2. EventsPlain /\ EventsTimely /\ Connected
    BY DEF IInv, Flow
  <1>3. txbuf[d] = <<>>
    BY <1>2 DEF EventsTimely
  <1>4. /\ txbuf' = [txbuf EXCEPT ![d] = txbuf'[d]]
        /\ txbuf'[d] # <<>> <=> Blocks(d, data)
        /\ Len(txbuf'[d]) <= Len(data)
        /\ Blocks(d, data) => mask' = [mask EXCEPT ![c] = mask[c] \ {"in"},
                                                   ![d] = mask[d] \cup {"out"}]
        /\ ~Blocks(d, data) => mask' = mask
    BY <1>1, <1>3, ForwardFlow DEF IInv
  <1>5. txbuf'[c] = txbuf[c] /\ Ends = {c, d}
    BY <1>1, <1>4 DEF IInv, Sized, Streams, Ends
  <1>6. EventsPlain'
    BY <1>2, NoEventNotInBatch DEF EventsPlain, IInv
  <1>7. EventsTimely'
    <2>1. Read(c) \notin batch
      BY <1>2 DEF EventsPlain
    <2>2. Write(d) \notin batch \cup {cur}
      BY <1>2, <1>3 DEF EventsTimely
    <2>3. Other(d) = c /\ Other(c) = d
      BY <1>1
    <2>4. /\ Read(c) \in batch' \cup {cur'} => txbuf'[d] = <<>>
          /\ Read(d) \in batch' \cup {cur'} => txbuf'[c] = <<>>
          /\ Write(c) \in batch' \cup {cur'} => txbuf'[c] # <<>>
          /\ Write(d) \in batch' \cup {cur'} => txbuf'[d] # <<>>
      BY <1>1, <1>2, <1>4, <1>5, <2>1, <2>2, <2>3, FormsDiffer
         DEF EventsTimely
    <2> QED
      BY <1>5, <2>3, <2>4 DEF EventsTimely
  <1>8. Connected'
    <2>1. /\ txbuf[c] # <<>> <=> "out" \in mask[c]
          /\ txbuf[c] # <<>> <=> "in" \notin mask[d]
          /\ txbuf[d] # <<>> <=> "out" \in mask[d]
          /\ txbuf[d] # <<>> <=> "in" \notin mask[c]
      BY <1>1, <1>2 DEF Connected, Paused
    <2>2. mask \in [Ends -> SUBSET Kinds]
      BY DEF IInv, Sized
    <2>3. /\ txbuf'[c] # <<>> <=> "out" \in mask'[c]
          /\ txbuf'[c] # <<>> <=> "in" \notin mask'[d]
          /\ txbuf'[d] # <<>> <=> "out" \in mask'[d]
          /\ txbuf'[d] # <<>> <=> "in" \notin mask'[c]
      <3>1. CASE Blocks(d, data)
        <4>1. mask'[c] = mask[c] \ {"in"} /\ mask'[d] = mask[d] \cup {"out"}
          BY <1>1, <1>4, <2>2, <3>1
        <4> QED
          BY <1>3, <1>4, <1>5, <2>1, <3>1, <4>1
      <3>2. CASE ~Blocks(d, data)
        BY <1>3, <1>4, <1>5, <2>1, <3>2
      <3> QED
        BY <3>1, <3>2
    <2> QED
      BY <1>1, <1>2, <1>5, <2>3 DEF Connected, Paused
  <1>9. Len(txbuf'["front"]) <= RecvMax + 1
    <2>1. Len(txbuf'[d]) \in Nat /\ Len(data) \in Nat
      <3>1. txbuf' \in Streams
        BY ForwardTyped DEF IInv
      <3> QED
        BY <3>1, EmptyFacts DEF Streams
    <2>2. CASE d = "front"
      BY <1>4, <2>1, <2>2
    <2>3. CASE c = "front"
      BY <1>5, <2>3 DEF IInv, Flow
    <2> QED
      BY <1>5, <2>2, <2>3, OtherFacts
  <1> QED
    BY <1>6, <1>7, <1>8, <1>9 DEF Flow

\* A packet from local is forwarded.
LEMMA StreamToServerFlow ==
    ASSUME IInv, Backend = "kqueue", StreamToServer
    PROVE  Flow'
  <1> DEFINE data == Decrypted(rxbuf["front"])
  <1>1. /\ open /\ Handling("front") /\ stage["front"] = "streaming"
        /\ Decrypts(rxbuf["front"]) /\ Forward("front", "back", data)
        /\ UNCHANGED <<open, stage>>
        /\ Blocks("back", data) => RecvReturns
        /\ ~Blocks("back", data) => UNCHANGED loopVars
    BY DEF StreamToServer, Handling
  <1>2. data \in Seq(Unit) /\ data # <<>>
    BY <1>1, DecryptFacts, OtherFacts DEF IInv, Sized, Streams
  <1>3. stage["back"] # "none"
    BY <1>1 DEF IInv, Flow, Unconnected
  <1>4. cur = Read("front")
    BY <1>1, CurFacts, OtherFacts DEF IInv, Flow
  <1>5. /\ batch' = batch
        /\ Blocks("back", data) => cur' = NoEvent /\ pc' = "loop"
        /\ ~Blocks("back", data) => UNCHANGED <<cur, pc>>
    BY <1>1, <1>4, Served, OtherFacts DEF RecvReturns, loopVars
  <1> HIDE DEF data
  <1> QED
    BY <1>1, <1>2, <1>3, <1>4, <1>5, ForwardStep, OtherFacts

\* What the server says is forwarded, at most one read at a time.
LEMMA RecvFromServerFlow ==
    ASSUME IInv, Backend = "kqueue", RecvFromServer
    PROVE  Flow'
  <1> DEFINE data == Encrypt(SubSeq(inq["back"], 1, Received("back")))
  <1>1. open /\ Receiving("back") /\ cur = Read("back") /\ pc = "loop"
    BY CurFacts, OtherFacts DEF IInv, Flow, RecvFromServer, Receiving
  <1>2. CASE HandleError
    BY <1>2, ErrorFlow
  <1>3. CASE RecvReturns /\ UNCHANGED <<open, sockVars, connVars, pollVars>>
    <2>1. cur' = NoEvent /\ pc' = "loop" /\ batch' = batch
      BY <1>1, <1>3, Served, OtherFacts DEF RecvReturns
    <2>2. UNCHANGED <<open, stage, txbuf, mask, outq>>
      BY <1>3 DEF sockVars, connVars, pollVars
    <2> QED
      BY <2>1, <2>2, QuietFlow, NoEventNotInBatch DEF IInv
  <1>4. CASE /\ UNCHANGED <<open, stage>>
             /\ Forward("back", "front", data)
             /\ Blocks("front", data) => RecvReturns
             /\ ~Blocks("front", data) => UNCHANGED loopVars
    <2>1. /\ SubSeq(inq["back"], 1, Received("back")) \in Seq(Unit)
          /\ Len(SubSeq(inq["back"], 1, Received("back"))) = Received("back")
          /\ Received("back") \in Nat /\ Received("back") <= RecvMax
      <3>1. Len(inq["back"]) \in Nat
        BY EmptyFacts, OtherFacts DEF IInv, Sized, Streams
      <3> QED
        BY <3>1, ReceiveFacts, OtherFacts DEF IInv
    <2>2. data \in Seq(Unit) /\ Len(data) = Received("back") + 1
      BY <2>1, EncryptFacts
    <2>3. data # <<>> /\ Len(data) <= RecvMax + 1
      <3> HIDE DEF data
      <3> QED
        BY <2>1, <2>2, EmptyFacts
    <2>4. stage["back"] # "none"
      BY <1>1, FormsDiffer, OtherFacts DEF IInv, Flow, Unconnected
    <2>5. /\ batch' = batch
          /\ Blocks("front", data) => cur' = NoEvent /\ pc' = "loop"
          /\ ~Blocks("front", data) => UNCHANGED <<cur, pc>>
      BY <1>1, <1>4, Served, OtherFacts DEF RecvReturns, loopVars
    <2> HIDE DEF data
    <2> QED
      BY <1>1, <1>4, <2>2, <2>3, <2>4, <2>5, ForwardStep, OtherFacts
  <1> QED
    BY <1>2, <1>3, <1>4 DEF RecvFromServer

\* Sending all that is pending lets the peer be read again.
LEMMA SendToFlow ==
    ASSUME IInv, Backend = "kqueue", NEW c \in Ends, SendTo(c)
    PROVE  Flow'
  <1> DEFINE n == Least(Len(txbuf[c]), SndBuf - Len(outq[c]))
             d == Other(c)
  <1>1. open /\ Sending(c) /\ cur = Write(c) /\ pc = "loop"
    BY CurFacts DEF IInv, Flow, SendTo, Sending
  <1>2. EventsPlain /\ EventsTimely
    BY <1>1 DEF IInv, Flow
  <1>3. txbuf[c] # <<>> /\ Connected /\ stage["back"] # "none"
    BY <1>1, <1>2 DEF IInv, Flow, EventsTimely, Unconnected
  <1>4. /\ n \in 0 .. Len(txbuf[c])
        /\ Unsent(txbuf[c], n) \in Seq(Unit)
        /\ Len(Unsent(txbuf[c], n)) = Len(txbuf[c]) - n
        /\ Len(txbuf[c]) \in Nat \ {0}
    BY <1>3, SendFacts, EmptySeq DEF IInv, Sized, Streams
  <1>5. txbuf' = [txbuf EXCEPT ![c] = Unsent(txbuf[c], n)]
        /\ UNCHANGED <<open, stage, batch>> /\ pc' = "loop" /\ SendReturns
    BY <1>1 DEF SendTo, SendReturns
  <1>6. cur' = NoEvent
    BY <1>1, <1>5, Served
  <1>7. c # d /\ c = Other(d) /\ d \in Ends /\ Ends = {c, d}
    BY DEF Other, Ends
  <1>8. /\ Resumes(c, n) => mask' = [mask EXCEPT ![c] = mask[c] \ {"out"},
                                                ![d] = mask[d] \cup {"in"}]
        /\ ~Resumes(c, n) => mask' = mask
    <2>1. mask \in [Ends -> SUBSET Kinds]
      BY DEF IInv, Sized
    <2>2. /\ Resumes(c, n) => mask' = [mask EXCEPT ![c] = UnwatchWriteMask(@),
                                                  ![d] = WatchReadMask(@)]
          /\ ~Resumes(c, n) => mask' = mask
      BY DEF SendTo, pollVars
    <2> HIDE DEF n, d
    <2> QED
      BY <1>7, <2>1, <2>2, KqueueMasks
  <1> HIDE DEF n, d
  <1>9. /\ txbuf'[c] = <<>> <=> Resumes(c, n)
        /\ Len(txbuf'[c]) <= Len(txbuf[c])
        /\ txbuf'[d] = txbuf[d]
    <2>1. txbuf'[c] = Unsent(txbuf[c], n) /\ txbuf'[d] = txbuf[d]
      BY <1>5, <1>7 DEF IInv, Sized, Streams
    <2>2. txbuf'[c] = <<>> <=> Len(txbuf[c]) - n = 0
      BY <1>4, <2>1, EmptyFacts
    <2> QED
      BY <1>4, <2>1, <2>2 DEF Resumes
  <1>10. EventsPlain'
    BY <1>2, <1>5, <1>6, NoEventNotInBatch DEF EventsPlain, IInv
  <1>11. EventsTimely'
    <2>1. Write(c) \notin batch
      BY <1>1, <1>2 DEF EventsPlain
    <2>2. Read(d) \notin batch
      BY <1>2, <1>3, <1>7 DEF EventsTimely
    <2>3. Other(c) = d
      BY DEF d
    <2>4. /\ Read(c) \in batch' \cup {cur'} => txbuf'[d] = <<>>
          /\ Read(d) \in batch' \cup {cur'} => txbuf'[c] = <<>>
          /\ Write(c) \in batch' \cup {cur'} => txbuf'[c] # <<>>
          /\ Write(d) \in batch' \cup {cur'} => txbuf'[d] # <<>>
      BY <1>2, <1>5, <1>6, <1>7, <1>9, <2>1, <2>2, <2>3, FormsDiffer
         DEF EventsTimely
    <2> QED
      BY <1>7, <2>3, <2>4 DEF EventsTimely
  <1>12. Connected'
    <2>1. /\ txbuf[c] # <<>> <=> "out" \in mask[c]
          /\ txbuf[c] # <<>> <=> "in" \notin mask[d]
          /\ txbuf[d] # <<>> <=> "out" \in mask[d]
          /\ txbuf[d] # <<>> <=> "in" \notin mask[c]
      BY <1>3, <1>7 DEF Connected, Paused, d
    <2>2. mask \in [Ends -> SUBSET Kinds]
      BY DEF IInv, Sized
    <2>3. /\ txbuf'[c] # <<>> <=> "out" \in mask'[c]
          /\ txbuf'[c] # <<>> <=> "in" \notin mask'[d]
          /\ txbuf'[d] # <<>> <=> "out" \in mask'[d]
          /\ txbuf'[d] # <<>> <=> "in" \notin mask'[c]
      <3>1. CASE Resumes(c, n)
        <4>1. mask'[c] = mask[c] \ {"out"} /\ mask'[d] = mask[d] \cup {"in"}
          BY <1>7, <1>8, <2>2, <3>1
        <4> QED
          BY <1>9, <2>1, <3>1, <4>1
      <3>2. CASE ~Resumes(c, n)
        BY <1>3, <1>8, <1>9, <2>1, <3>2
      <3> QED
        BY <3>1, <3>2
    <2>4. Other(c) = d /\ Other(d) = c
      BY <1>7 DEF d
    <2> QED
      BY <1>3, <1>5, <1>7, <2>3, <2>4 DEF Connected, Paused
  <1>13. Len(txbuf'["front"]) <= RecvMax + 1
    <2>1. Len(txbuf["front"]) <= RecvMax + 1
      BY <1>1 DEF IInv, Flow
    <2>2. CASE d = "front"
      BY <1>9, <2>1, <2>2
    <2>3. CASE c = "front"
      <3>1. txbuf'[c] = Unsent(txbuf[c], n)
        BY <1>5 DEF IInv, Sized, Streams
      <3>2. Len(txbuf'[c]) \in Nat
        BY <1>4, <3>1, EmptyFacts
      <3> QED
        BY <1>4, <1>9, <2>1, <2>3, <3>2
    <2> QED
      BY <1>7, <2>2, <2>3, OtherFacts
  <1> QED
    BY <1>3, <1>5, <1>10, <1>11, <1>12, <1>13 DEF Flow

\* Every action keeps the flow.
LEMMA NextFlow ==
    ASSUME IInv, Backend = "kqueue", [Next]_vars
    PROVE  Flow'
  <1>1. ASSUME NEW c \in Ends, Deliver(c) \/ Fetch(c) \/ Finish(c)
        PROVE  Flow'
    BY <1>1, NetworkFlow
  <1>2. CASE PollerWait
    BY <1>2, PollerWaitFlow
  <1>3. CASE NextEvent
    BY <1>3, NextEventFlow
  <1>4. CASE CloseOnEof \/ ConnectFails \/ \E c \in Ends : CallFails(c)
    BY <1>4, ErrorFlow DEF CloseOnEof, ConnectFails, CallFails
  <1>5. CASE RecvFromLocal \/ WaitForMore
    BY <1>5, LocalFlow
  <1>6. CASE HandleHandshakeRequest
    BY <1>6, HandshakeFlow
  <1>7. CASE StreamToServer
    BY <1>7, StreamToServerFlow
  <1>8. CASE RecvFromServer
    BY <1>8, RecvFromServerFlow
  <1>9. ASSUME NEW c \in Ends, SendTo(c)
        PROVE  Flow'
    BY <1>9, SendToFlow
  <1>10. CASE UNCHANGED vars
    BY <1>10, QuietFlow DEF vars, sockVars, connVars, pollVars, loopVars, IInv,
                            Flow, EventsPlain
  <1> QED
    BY <1>1, <1>2, <1>3, <1>4, <1>5, <1>6, <1>7, <1>8, <1>9, <1>10
       DEF Next, IoThread

\* The invariant of the theorems below.
LEMMA Inductive ==
    ASSUME Backend = "kqueue"
    PROVE  Spec => []IInv
  <1>1. Init => IInv
    BY InitTyped, InitFlow DEF IInv
  <1>2. IInv /\ [Next]_vars => IInv'
    BY NextTyped, NextFlow DEF IInv
  <1> QED
    BY <1>1, <1>2, PTL DEF Spec

\* With kqueue, stream_to_server, recvfrom_server_cb and the sendto callbacks
\* pause a side exactly as long as its peer has output pending.
THEOREM BackPressure ==
    ASSUME Backend = "kqueue"
    PROVE  Spec => []PausedWhilePending
  <1>1. ASSUME IInv
        PROVE  PausedWhilePending
    <2> SUFFICES ASSUME open, stage["back"] # "none", NEW c \in Ends
                 PROVE  /\ (txbuf[c] # <<>>) = ("out" \in mask[c])
                        /\ (txbuf[c] # <<>>) = ("in" \notin mask[Other(c)])
      BY DEF PausedWhilePending
    <2>1. /\ txbuf[c] # <<>> <=> "out" \in mask[c]
          /\ txbuf[c] # <<>> <=> "in" \notin mask[Other(c)]
      BY <1>1 DEF IInv, Flow, Connected, Paused
    <2> QED
      BY <2>1
  <1> QED
    BY <1>1, Inductive, PTL

\* With kqueue, a sendto callback is never called with nothing to send, in
\* which case a stale errno could make it tear the pair down.
THEOREM SendsSomething ==
    ASSUME Backend = "kqueue"
    PROVE  Spec => []NoEmptySend
  <1>1. ASSUME IInv
        PROVE  NoEmptySend
    <2> SUFFICES ASSUME NEW c \in Ends, Sending(c)
                 PROVE  txbuf[c] # <<>>
      BY DEF NoEmptySend
    <2>1. open /\ EventsPlain /\ EventsTimely
      BY <1>1 DEF IInv, Flow, Sending
    <2> QED
      BY <2>1, CurFacts DEF EventsTimely
  <1> QED
    BY <1>1, Inductive, PTL

\* With kqueue, a slow local-proxy costs the remote-proxy one packet of
\* memory, whatever the server sends.
THEOREM OutputBounded ==
    ASSUME Backend = "kqueue"
    PROVE  Spec => []BoundedOutput
  <1>1. ASSUME IInv
        PROVE  BoundedOutput
    BY <1>1 DEF IInv, Flow, BoundedOutput
  <1> QED
    BY <1>1, Inductive, PTL

-----------------------------------------------------------------------------
(* Conservation                                                            *)

\* The last packet of s is complete, too.
Whole(s) ==
    /\ Packets(s)
    /\ \A i \in 1 .. Len(s) : ~IsData(s[i]) => i + s[i][2] <= Len(s)

\* Before the server is reached nothing was sent to anyone, and the
\* local-proxy holds back everything but its request.
Asking ==
    /\ In("front") = UpData /\ In("back") = DownData
    /\ Out("front") = <<>> /\ Out("back") = <<>>
    /\ Len(todo["front"]) >= Len(UpData) - 2
    /\ stage["back"] = "none" /\ inq["back"] = <<>>

\* From then on what came out and what is on its way make up what was said.
Streaming ==
    /\ Out("back") \o Payload(In("front")) = Tail(Payload(UpData))
    /\ Payload(Out("front")) \o In("back") = <<Reply>> \o DownData
    /\ Packets(In("front")) /\ Whole(Out("front"))
    /\ In("back") \in Seq(Data)

Conserved ==
    open => /\ rxbuf["back"] = <<>>
            /\ IF stage["front"] = "streaming" THEN Streaming ELSE Asking

CInv == Typed /\ Conserved

\* A packet after whole packets.
LEMMA LastPacket ==
    ASSUME NEW x, NEW s \in Seq(Unit), NEW m \in Nat, NEW k \in Nat,
           Len(s) = m, Len(x) = m + (1 + k), Whole(s),
           \A i \in 1 .. m : x[i] = s[i],
           x[m + 1] = Len4(k),
           \A i \in 1 .. k : IsData(x[m + (1 + i)])
    PROVE  Whole(x)
  <1>1. \A i \in 1 .. m : ~IsData(s[i]) =>
           /\ i + s[i][2] <= m
           /\ \A j \in i + 1 .. m : /\ j <= i + s[i][2] => IsData(s[j])
                                    /\ j = i + s[i][2] + 1 => ~IsData(s[j])
    BY DEF Whole, Packets
  <1>2. ~IsData(x[m + 1]) /\ x[m + 1][2] = k
    BY DEF Len4, IsData
  <1>3. ASSUME NEW i \in m + 2 .. m + (1 + k)
        PROVE  IsData(x[i])
    <2>1. i - (m + 1) \in 1 .. k /\ m + (1 + (i - (m + 1))) = i
      OBVIOUS
    <2> QED
      BY <2>1
  <1>4. ~IsData(x[1])
    <2>1. CASE m = 0
      BY <1>2, <2>1
    <2>2. CASE m # 0
      <3>1. s # <<>>
        BY <2>2, EmptyFacts
      <3> QED
        BY <2>2, <3>1 DEF Whole, Packets
    <2> QED
      BY <2>1, <2>2
  <1>5. ASSUME NEW i \in 1 .. m, ~IsData(x[i])
        PROVE  /\ i + x[i][2] <= m + (1 + k)
               /\ \A j \in i + 1 .. m + (1 + k) :
                     /\ j <= i + x[i][2] => IsData(x[j])
                     /\ j = i + x[i][2] + 1 => ~IsData(x[j])
    <2> DEFINE n == x[i][2]
    <2>1. n \in Nat
      <3>1. s[i] \in Unit
        BY ElementOfSeq
      <3> QED
        BY <1>5, <3>1 DEF Unit, IsData
    <2>2. i + n <= m
      BY <1>1, <1>5
    <2>3. \A j \in i + 1 .. m : /\ j <= i + n => IsData(s[j])
                                /\ j = i + n + 1 => ~IsData(s[j])
      BY <1>1, <1>5
    <2> HIDE DEF n
    <2>4. ASSUME NEW j \in i + 1 .. m + (1 + k)
          PROVE  /\ j <= i + n => IsData(x[j])
                 /\ j = i + n + 1 => ~IsData(x[j])
      <3>1. CASE j <= m
        BY <2>3, <3>1
      <3>2. CASE j > m
        <4>1. ~(j <= i + n) /\ (j = i + n + 1 => j = m + 1)
          BY <2>1, <2>2, <3>2
        <4> QED
          BY <1>2, <4>1
      <3> QED
        BY <3>1, <3>2
    <2> QED
      BY <2>1, <2>2, <2>4 DEF n
  <1>6. ASSUME NEW i \in m + 1 .. m + (1 + k), ~IsData(x[i])
        PROVE  /\ i + x[i][2] <= m + (1 + k)
               /\ \A j \in i + 1 .. m + (1 + k) :
                     /\ j <= i + x[i][2] => IsData(x[j])
                     /\ j = i + x[i][2] + 1 => ~IsData(x[j])
    <2>1. i = m + 1
      <3>1. i \notin m + 2 .. m + (1 + k)
        BY <1>3, <1>6, Zenon
      <3> QED
        BY <3>1
    <2>2. x[i][2] = k
      BY <1>2, <2>1
    <2>3. \A j \in i + 1 .. m + (1 + k) : IsData(x[j]) /\ ~(j = i + k + 1)
      BY <1>3, <2>1
    <2> QED
      BY <2>1, <2>2, <2>3
  <1>7. \A i \in 1 .. m + (1 + k) : ~IsData(x[i]) =>
           /\ i + x[i][2] <= m + (1 + k)
           /\ \A j \in i + 1 .. m + (1 + k) :
                 /\ j <= i + x[i][2] => IsData(x[j])
                 /\ j = i + x[i][2] + 1 => ~IsData(x[j])
    <2>1. \A i \in 1 .. m + (1 + k) : i \in 1 .. m \/ i \in m + 1 .. m + (1 + k)
      OBVIOUS
    <2> QED
      BY <1>5, <1>6, <2>1, Zenon
  <1> QED
    BY <1>4, <1>7 DEF Whole, Packets

\* So encrypting adds a packet.
LEMMA WholeMore ==
    ASSUME NEW s \in Seq(Unit), NEW d \in Seq(Data), Whole(s)
    PROVE  Whole(s \o Encrypt(d))
  <1> DEFINE e == Encrypt(d)
  <1>1. d \in Seq(Unit) /\ Len(d) \in Nat /\ Len(s) \in Nat
    BY DataUnits, LenProperties
  <1>2. /\ e \in Seq(Unit) /\ Len(e) = 1 + Len(d)
        /\ e[1] = Len4(Len(d)) /\ \A i \in 1 .. Len(d) : e[1 + i] = d[i]
    BY <1>1, PacketIndex
  <1> HIDE DEF e
  <1>3. /\ Len(s \o e) = Len(s) + Len(e)
        /\ \A i \in 1 .. Len(s) : (s \o e)[i] = s[i]
        /\ \A i \in 1 .. Len(e) : (s \o e)[Len(s) + i] = e[i]
    BY <1>2, ConcatIndex
  <1>4. (s \o e)[Len(s) + 1] = Len4(Len(d))
    BY <1>1, <1>2, <1>3
  <1>5. ASSUME NEW i \in 1 .. Len(d)
        PROVE  IsData((s \o e)[Len(s) + (1 + i)])
    <2>1. 1 + i \in 1 .. Len(e)
      BY <1>1, <1>2
    <2>2. (s \o e)[Len(s) + (1 + i)] = d[i]
      BY <1>2, <1>3, <2>1
    <2>3. d[i] \in Data
      BY ElementOfSeq
    <2> QED
      BY <2>2, <2>3 DEF Data, IsData
  <1>6. Len(s \o e) = Len(s) + (1 + Len(d))
    BY <1>2, <1>3
  <1>7. Whole(s \o e)
    BY <1>1, <1>3, <1>4, <1>5, <1>6, LastPacket
  <1> QED
    BY <1>7 DEF e

-----------------------------------------------------------------------------
(* Conservation, step by step                                              *)

LEMMA InitConserved ==
    ASSUME Protocol, Init
    PROVE  Conserved
  <1>1. <<>> \in Seq(Unit) /\ UpData \in Seq(Unit) /\ DownData \in Seq(Unit)
    BY DEF Protocol
  <1>2. \A s \in Seq(Unit) : <<>> \o s = s
    BY ConcatEmptySeq
  <1>3. <<>> \o <<>> = <<>>
    BY <1>1, <1>2
  <1>4. Len(UpData) \in Nat
    BY <1>1, LenProperties
  <1>5. /\ rxbuf = [c \in Ends |-> <<>>] /\ txbuf = [c \in Ends |-> <<>>]
        /\ inq = [c \in Ends |-> <<>>] /\ outq = [c \in Ends |-> <<>>]
        /\ got = [c \in Ends |-> <<>>]
        /\ todo = [c \in Ends |-> IF c = "front" THEN UpData ELSE DownData]
        /\ stage = [c \in Ends |-> IF c = "front" THEN "handshake" ELSE "none"]
    BY DEF Init, RelayInit
  <1>6. In("front") = UpData /\ In("back") = DownData
    BY <1>1, <1>2, <1>3, <1>5, OtherFacts DEF In
  <1>7. Out("front") = <<>> /\ Out("back") = <<>>
    BY <1>3, <1>5, OtherFacts DEF Out
  <1> QED
    BY <1>4, <1>5, <1>6, <1>7, OtherFacts DEF Conserved, Asking

\* Nothing but the streams and the stage counts.
LEMMA SameConserved ==
    ASSUME Conserved, UNCHANGED <<open, sockVars, connVars>>
    PROVE  Conserved'
  BY DEF Conserved, Asking, Streaming, In, Out, sockVars, connVars

LEMMA ErrorConserved ==
    ASSUME HandleError
    PROVE  Conserved'
  BY DEF HandleError, Conserved

\* The poller, and callbacks that leave the streams alone.
LEMMA QuietConserved ==
    ASSUME Conserved,
           \/ PollerWait \/ NextEvent \/ CloseOnEof \/ WaitForMore
           \/ ConnectFails \/ \E c \in Ends : CallFails(c)
    PROVE  Conserved'
  <1>1. CASE HandleError
    BY <1>1, ErrorConserved
  <1>2. CASE UNCHANGED <<open, sockVars, connVars>>
    BY <1>2, SameConserved
  <1> QED
    BY <1>1, <1>2
       DEF PollerWait, NextEvent, CloseOnEof, WaitForMore, ConnectFails, CallFails

\* The network changes nothing, and a patient local-proxy waits.
LEMMA NetworkConserved ==
    ASSUME Protocol, CInv, NEW c \in Ends, Deliver(c) \/ Fetch(c) \/ Finish(c)
    PROVE  Conserved'
  <1>1. \A d \in Ends : In(d)' = In(d) /\ Out(d)' = Out(d)
    BY NetworkMoves DEF CInv, Deliver
  <1>2. /\ In("front")' = In("front") /\ In("back")' = In("back")
        /\ Out("front")' = Out("front") /\ Out("back")' = Out("back")
    BY <1>1, OtherFacts
  <1>3. UNCHANGED <<open, stage, rxbuf>> /\ open
    BY DEF Deliver, Arrive, Fetch, Finish, connVars
  <1>4. ASSUME Streaming
        PROVE  Streaming'
    BY <1>2, <1>4 DEF Streaming
  <1>5. ASSUME Asking
        PROVE  Asking'
    <2>1. CASE Arrive(c) /\ Deliver(c)
      <3>1. c = "front"
        BY <1>5, <2>1 DEF Asking, Arrive, Ends
      <3>2. got["front"] = <<>>
        BY <1>5, NothingOut, OtherFacts DEF Asking, CInv
      <3>3. Len(Encrypt(<<Reply>>)) = 2 /\ Len(got["front"]) = 0
        BY <3>2, ReplyFacts, EmptySeq
      <3>4. Len(Encrypt(<<Request>>)) = 2
        BY RequestFacts, HandshakeUnits
      <3>5. Len(todo["front"]) > Len(UpData) - 2
        <4>1. MaySend("front") /\ ~Eager
          BY <2>1, <3>1 DEF Deliver, Protocol
        <4>2. \/ Len(todo["front"]) > Len(UpData) - Len(Encrypt(<<Request>>))
              \/ Len(got["front"]) >= Len(Encrypt(<<Reply>>))
          BY <4>1, OtherFacts DEF MaySend
        <4> DEFINE e == Len(Encrypt(<<Request>>))
                   f == Len(Encrypt(<<Reply>>))
        <4>3. e = 2 /\ f = 2
          BY <3>3, <3>4
        <4> HIDE DEF e, f
        <4>4. \/ Len(todo["front"]) > Len(UpData) - e
              \/ Len(got["front"]) >= f
          BY <4>2 DEF e, f
        <4> QED
          BY <3>3, <4>3, <4>4
      <3>6. /\ todo' = [todo EXCEPT !["front"] = Tail(todo["front"])]
            /\ inq' = [inq EXCEPT !["front"] = Append(inq["front"], Head(todo["front"]))]
            /\ todo["front"] # <<>> /\ todo["front"] \in Seq(Unit)
        BY <2>1, <3>1, OtherFacts DEF Arrive, CInv, Sized, Streams
      <3>7. Len(Tail(todo["front"])) = Len(todo["front"]) - 1
        BY <3>6, HeadTailProperties
      <3>8. Len(todo["front"]) \in Nat /\ Len(UpData) \in Nat
        BY <3>6, LenProperties
      <3>9. /\ todo'["front"] = Tail(todo["front"]) /\ inq'["back"] = inq["back"]
        BY <3>6, OtherFacts DEF CInv, Sized, Streams
      <3>10. Len(todo'["front"]) >= Len(UpData) - 2
        BY <3>5, <3>7, <3>8, <3>9
      <3> QED
        BY <1>2, <1>3, <1>5, <3>9, <3>10 DEF Asking
    <2>2. CASE Fetch(c) \/ Finish(c)
      <3>1. UNCHANGED <<inq, todo>>
        BY <2>2 DEF Fetch, Finish
      <3> QED
        BY <1>2, <1>3, <1>5, <3>1 DEF Asking
    <2> QED
      BY <2>1, <2>2 DEF Deliver
  <1> QED
    BY <1>3, <1>4, <1>5 DEF Conserved, CInv

\* recvfrom_local_cb moves what it received to rxbuf.
LEMMA RecvFromLocalConserved ==
    ASSUME CInv, RecvFromLocal
    PROVE  Conserved'
  <1>1. CASE HandleError
    BY <1>1, ErrorConserved
  <1>2. CASE /\ TakeReceived("front")
             /\ rxbuf' = [rxbuf EXCEPT !["front"] =
                            rxbuf["front"] \o SubSeq(inq["front"], 1, Received("front"))]
             /\ UNCHANGED <<open, outq, fin, todo, got, stage, txbuf>>
    <2>1. \A d \in Ends : In(d)' = In(d)
      BY <1>2, ReceiveMoves, OtherFacts DEF CInv
    <2>2. In("front")' = In("front") /\ In("back")' = In("back")
      BY <2>1, OtherFacts
    <2>3. Out("front")' = Out("front") /\ Out("back")' = Out("back")
      BY <1>2 DEF Out
    <2>4. rxbuf'["back"] = rxbuf["back"] /\ inq'["back"] = inq["back"]
      BY <1>2, OtherFacts DEF CInv, Sized, Streams, TakeReceived
    <2> QED
      BY <1>2, <2>2, <2>3, <2>4 DEF CInv, Conserved, Asking, Streaming
  <1> QED
    BY <1>1, <1>2 DEF RecvFromLocal

\* The sendto callbacks move what was pending to the send buffer.
LEMMA SendToConserved ==
    ASSUME CInv, NEW c \in Ends, SendTo(c)
    PROVE  Conserved'
  <1>1. \A d \in Ends : Out(d)' = Out(d)
    BY FlushMoves DEF CInv, SendTo
  <1>2. Out("front")' = Out("front") /\ Out("back")' = Out("back")
    BY <1>1, OtherFacts
  <1>3. UNCHANGED <<open, inq, todo, stage, rxbuf>>
    BY DEF SendTo
  <1> QED
    BY <1>2, <1>3 DEF CInv, Conserved, Asking, Streaming, In

\* stream_to_server takes a packet off and adds its data to the output.
LEMMA StreamToServerConserved ==
    ASSUME CInv, StreamToServer
    PROVE  Conserved'
  <1> DEFINE r == rxbuf["front"]
             w == inq["front"] \o todo["front"]
             d == Decrypted(r)
             a == AfterPacket(r)
  <1>1. /\ UNCHANGED <<open, inq, todo, got, stage>> /\ Decrypts(r)
        /\ rxbuf' = [rxbuf EXCEPT !["front"] = a] /\ Streaming
        /\ Forward("front", "back", d) /\ rxbuf["back"] = <<>>
    BY DEF StreamToServer, Handling, CInv, Conserved
  <1>2. r \in Seq(Unit) /\ w \in Seq(Unit) /\ In("front") = r \o w
    BY InRegrouped, OtherFacts DEF CInv, Sized, Streams
  <1>3. Packets(r \o w)
    BY <1>1, <1>2 DEF Streaming
  <1>4. d \in Seq(Unit) /\ a \in Seq(Unit)
    BY <1>1, <1>2, DecryptFacts
  <1>5. rxbuf' \in Streams /\ rxbuf'["front"] = a /\ rxbuf'["back"] = <<>>
    BY <1>1, <1>4, OtherFacts DEF CInv, Sized, Streams
  <1>6. Out("back")' = Out("back") \o d /\ Out("front")' = Out("front")
    BY <1>1, <1>4, ForwardMoves, OtherFacts DEF CInv
  <1>7. In("front")' = a \o w
    <2>1. In("front")' = (a \o inq["front"]) \o todo["front"]
      BY <1>1, <1>5 DEF In
    <2>2. inq["front"] \in Seq(Unit) /\ todo["front"] \in Seq(Unit)
      BY OtherFacts DEF CInv, Sized, Streams
    <2>3. \A u, v \in Seq(Unit) : (a \o u) \o v = a \o (u \o v)
      <3> HIDE DEF a
      <3> QED
        BY <1>4, Regroup
    <2> QED
      BY <2>1, <2>2, <2>3, Zenon
  <1>8. In("back")' = In("back")
    BY <1>1, <1>5 DEF In
  <1>9. Out("back") \in Seq(Unit)
    BY InOutTyped, OtherFacts DEF CInv
  <1> HIDE DEF w
  <1>10. d \in Seq(Data) /\ Packets(a \o w) /\ r \o w = Encrypt(d) \o (a \o w)
    BY <1>1, <1>2, <1>3, PacketsRest
  <1> HIDE DEF r, d, a
  <1>11. (Out("back") \o d) \o Payload(a \o w)
           = Out("back") \o Payload(Encrypt(d) \o (a \o w))
    <2>1. a \o w \in Seq(Unit)
      BY <1>2, <1>4, ConcatProperties
    <2> QED
      BY <1>9, <1>10, <2>1, PayloadLeaves
  <1>12. Out("back")' \o Payload(In("front")') = Tail(Payload(UpData))
    BY <1>1, <1>2, <1>6, <1>7, <1>10, <1>11 DEF Streaming
  <1>13. Streaming'
    BY <1>1, <1>6, <1>7, <1>8, <1>10, <1>12 DEF Streaming
  <1> QED
    BY <1>1, <1>5, <1>13 DEF Conserved, CInv, StreamToServer

\* recvfrom_server_cb packs what it received; before the server is reached
\* there is nothing to receive.
LEMMA RecvFromServerConserved ==
    ASSUME CInv, RecvFromServer
    PROVE  Conserved'
  <1> DEFINE k == Received("back")
             q == inq["back"]
             d == SubSeq(q, 1, k)
             post == SubSeq(q, k + 1, Len(q))
  <1>1. CASE HandleError
    BY <1>1, ErrorConserved
  <1>2. CASE UNCHANGED <<open, sockVars, connVars, pollVars>>
    BY <1>2, SameConserved DEF CInv
  <1>3. CASE /\ q # <<>> /\ TakeReceived("back")
             /\ UNCHANGED <<open, todo, got, stage, rxbuf>>
             /\ Forward("back", "front", Encrypt(d))
    <2>1. open
      BY DEF RecvFromServer, Receiving
    <2>2. Streaming /\ stage["front"] = "streaming" /\ rxbuf["back"] = <<>>
      BY <1>3, <2>1 DEF CInv, Conserved, Asking
    <2>3. /\ q \in Seq(Unit) /\ k \in 0 .. Len(q)
          /\ inq' = [inq EXCEPT !["back"] = post]
      BY <1>3, ReceiveFacts, OtherFacts DEF CInv, Sized, Streams, TakeReceived
    <2>4. d \in Seq(Unit) /\ post \in Seq(Unit) /\ d \o post = q
      BY <2>3, CutFacts, CutJoin
    <2>5. /\ In("back") = q \o todo["back"] /\ todo["back"] \in Seq(Unit)
      <3>1. todo["back"] \in Seq(Unit)
        BY OtherFacts DEF CInv, Sized, Streams
      <3>2. <<>> \o q = q
        BY <2>3, ConcatEmptySeq
      <3> QED
        BY <2>2, <3>1, <3>2 DEF In
    <2>6. inq'["back"] = post /\ inq'["front"] = inq["front"]
      BY <2>3, OtherFacts DEF CInv, Sized, Streams
    <2>7. In("back")' = post \o todo["back"] /\ In("front")' = In("front")
      <3>1. <<>> \o post = post
        BY <2>4, ConcatEmptySeq
      <3>2. In("front")' = In("front")
        BY <1>3, <2>6 DEF In
      <3>3. In("back")' = (<<>> \o post) \o todo["back"]
        BY <1>3, <2>2, <2>6 DEF In
      <3> QED
        BY <3>1, <3>2, <3>3
    <2> HIDE DEF d, post, q, k
    <2>8. In("back") = d \o (post \o todo["back"])
      <3>1. \A u, v \in Seq(Unit) : (d \o u) \o v = d \o (u \o v)
        BY <2>4, Regroup
      <3>2. (d \o post) \o todo["back"] = d \o (post \o todo["back"])
        BY <2>4, <2>5, <3>1, Zenon
      <3> QED
        BY <2>4, <2>5, <3>2
    <2> DEFINE x == post \o todo["back"]
    <2>9. x \in Seq(Unit)
      BY <2>4, <2>5, ConcatProperties
    <2> HIDE DEF x
    <2>10. In("back") = d \o x /\ In("back")' = x
      BY <2>7, <2>8 DEF x
    <2>11. d \in Seq(Data) /\ x \in Seq(Data)
      BY <2>2, <2>4, <2>9, <2>10, DataParts DEF Streaming
    <2> DEFINE o == Out("front")
               e == Encrypt(d)
    <2>12. o \in Seq(Unit)
      BY InOutTyped, OtherFacts DEF CInv
    <2>13. e \in Seq(Unit)
      BY <2>4, EncryptUnits
    <2> HIDE DEF e
    <2>14. Out("front")' = o \o e /\ Out("back")' = Out("back")
      BY <1>3, <2>13, ForwardMoves, OtherFacts DEF CInv, e
    <2> HIDE DEF o
    <2>15. Payload(o \o e) \o x = Payload(o) \o (d \o x)
      BY <2>9, <2>11, <2>12, PayloadPacked DEF e
    <2>16. Whole(o \o e)
      BY <2>2, <2>11, <2>12, WholeMore DEF Streaming, o, e
    <2>17. Streaming'
      BY <2>2, <2>7, <2>10, <2>11, <2>14, <2>15, <2>16 DEF Streaming, o
    <2> QED
      BY <1>3, <2>2, <2>17 DEF Conserved
  <1> QED
    BY <1>1, <1>2, <1>3 DEF RecvFromServer

\* handle_handshake_request answers, and drops nothing but the request.
LEMMA HandshakeConserved ==
    ASSUME Protocol, CInv, HandleHandshakeRequest
    PROVE  Conserved'
  <1> DEFINE r == rxbuf["front"]
             i == inq["front"]
             w == todo["front"]
             e == Encrypt(<<Reply>>)
             all == txbuf["front"] \o e
             n == Least(Len(all), SndBuf - Len(outq["front"]))
  <1>1. /\ open /\ Asking /\ rxbuf["back"] = <<>> /\ Decrypts(r)
        /\ UNCHANGED <<open, inq, todo, got>>
    BY DEF HandleHandshakeRequest, Handling, CInv, Conserved
  <1>2. r \in Seq(Unit) /\ i \in Seq(Unit) /\ w \in Seq(Unit)
    BY OtherFacts DEF CInv, Sized, Streams
  <1>3. r \o (i \o w) = UpData
    BY <1>1, InRegrouped, OtherFacts DEF Asking, CInv
  <1>4. Len(w) >= Len(UpData) - 2
    BY <1>1 DEF Asking
  <1>5. i = <<>> /\ w = AfterPacket(UpData)
    <2> HIDE DEF r, i, w
    <2> QED
      BY <1>1, <1>2, <1>3, <1>4, RequestFacts, OnlyHandshake DEF Protocol
  <1>6. Packets(w) /\ Payload(w) = Tail(Payload(UpData))
    <2> HIDE DEF w
    <2> QED
      BY <1>5, RequestFacts, AfterHandshake DEF Protocol
  <1>7. /\ got["front"] = <<>> /\ outq["front"] = <<>> /\ txbuf["front"] = <<>>
    BY <1>1, NothingOut, OtherFacts DEF Asking, CInv
  <1>8. e \in Seq(Unit) /\ Len(e) = 2
    BY ReplyFacts
  <1>9. all = e /\ Len(outq["front"]) = 0
    <2> HIDE DEF e
    <2> QED
      BY <1>7, <1>8, ConcatEmptySeq, EmptySeq
  <1>10. n = 2
    <2> HIDE DEF e, all
    <2>1. Len(all) = 2
      BY <1>8, <1>9
    <2>2. SndBuf - Len(outq["front"]) = SndBuf
      BY <1>9
    <2>3. Least(2, SndBuf) = 2
      BY DEF Least
    <2> QED
      BY <2>1, <2>2, <2>3, Zenon
  <1>11. /\ outq' = [outq EXCEPT !["front"] = outq["front"] \o SubSeq(all, 1, n)]
         /\ rxbuf' = [rxbuf EXCEPT !["front"] = <<>>]
         /\ txbuf' = [txbuf EXCEPT !["front"] = IF n > 0 THEN <<>> ELSE all]
         /\ stage' = [c \in Ends |-> IF n > 0 THEN "streaming" ELSE "handshake"]
    BY DEF HandleHandshakeRequest
  <1> HIDE DEF n
  <1>12. SubSeq(all, 1, n) = e /\ <<>> \o e = e
    <2> HIDE DEF e
    <2>1. SubSeq(e, 1, Len(e)) = e
      BY <1>8, SubSeqFull
    <2>2. SubSeq(e, 1, 2) = e
      BY <1>8, <2>1, Zenon
    <2>3. <<>> \o e = e
      BY <1>8, ConcatEmptySeq
    <2> QED
      BY <1>9, <1>10, <2>2, <2>3, Zenon
  <1> HIDE DEF all, e
  <1>13. /\ outq'["front"] = e /\ outq'["back"] = outq["back"]
         /\ rxbuf'["front"] = <<>> /\ rxbuf'["back"] = rxbuf["back"]
         /\ txbuf'["front"] = <<>> /\ txbuf'["back"] = txbuf["back"]
         /\ stage'["front"] = "streaming"
    BY <1>7, <1>10, <1>11, <1>12, OtherFacts DEF CInv, Sized, Streams
  <1>14. In("front")' = w
    <2>1. \A s \in Seq(Unit) : <<>> \o s = s
      BY ConcatEmptySeq
    <2>2. In("front")' = (<<>> \o <<>>) \o w
      BY <1>1, <1>5, <1>13 DEF In
    <2>3. <<>> \in Seq(Unit)
      BY EmptySeq
    <2> QED
      BY <1>2, <2>1, <2>2, <2>3
  <1>15. Out("front")' = e
    <2>1. Out("front")' = (<<>> \o e) \o <<>>
      BY <1>1, <1>7, <1>13 DEF Out
    <2> QED
      BY <1>8, <1>12, <2>1, ConcatEmptySeq
  <1>16. In("back")' = DownData /\ Out("back")' = <<>>
    BY <1>1, <1>13 DEF In, Out, Asking
  <1>17. Payload(e) = <<Reply>> /\ Whole(e)
    <2> DEFINE y == <<Reply>>
    <2>1. y \in Seq(Data)
      BY RequestFacts, HandshakeUnits
    <2> HIDE DEF y
    <2>2. Payload(Encrypt(y)) = y
      BY <2>1, PayloadOfPacket
    <2>3. Whole(<<>>) /\ <<>> \in Seq(Unit)
      BY EmptySeq DEF Whole, Packets
    <2>4. Whole(<<>> \o Encrypt(y))
      BY <2>1, <2>3, WholeMore
    <2> QED
      BY <1>12, <2>2, <2>4 DEF y, e
  <1>18. <<>> \o Payload(w) = Payload(w)
    BY <1>2, PayloadType, ConcatEmptySeq
  <1> HIDE DEF w
  <1>19. Streaming'
    BY <1>6, <1>14, <1>15, <1>16, <1>17, <1>18 DEF Streaming, Protocol
  <1> QED
    BY <1>1, <1>13, <1>19 DEF Conserved

LEMMA NextConserved ==
    ASSUME Protocol, CInv, [Next]_vars
    PROVE  CInv'
  <1>1. Typed'
    BY NextTyped DEF CInv
  <1>2. CASE UNCHANGED vars
    BY <1>1, <1>2, SameConserved DEF CInv, vars
  <1>3. CASE Next
    BY <1>1, <1>3, QuietConserved, NetworkConserved, RecvFromLocalConserved,
       HandshakeConserved, StreamToServerConserved, RecvFromServerConserved,
       SendToConserved DEF CInv, Next, IoThread
  <1> QED
    BY <1>2, <1>3

LEMMA Conservation ==
    ASSUME Protocol
    PROVE  Spec => []CInv
  <1>1. Init => CInv
    BY InitTyped, InitConserved DEF CInv
  <1>2. CInv /\ [Next]_vars => CInv'
    BY NextConserved
  <1> QED
    BY <1>1, <1>2, PTL DEF Spec

\* What stream_to_server and sendto_server_cb make of the packets of a
\* patient local-proxy: all of the data in them, in order, and nothing else,
\* wherever recv and send cut the stream.
THEOREM UplinkSafe ==
    ASSUME Protocol
    PROVE  Spec => []UplinkConserved
  <1>1. ASSUME CInv
        PROVE  UplinkConserved
    BY <1>1 DEF CInv, Conserved, Streaming, UplinkConserved, In, Out
  <1> QED
    BY <1>1, Conservation, PTL

\* What recvfrom_server_cb and sendto_local_cb make of the server's data:
\* packets of all of it, in order, after the answer to the handshake.
THEOREM DownlinkSafe ==
    ASSUME Protocol
    PROVE  Spec => []DownlinkConserved
  <1>1. ASSUME CInv
        PROVE  DownlinkConserved
    <2> SUFFICES ASSUME open, stage["front"] = "streaming"
                 PROVE  Payload(Out("front")) \o rxbuf["back"] \o inq["back"]
                          \o todo["back"] = <<Reply>> \o DownData
      BY DEF DownlinkConserved, Out
    <2> DEFINE p == Payload(Out("front"))
               q == inq["back"]
               t == todo["back"]
    <2>1. p \o In("back") = <<Reply>> \o DownData /\ rxbuf["back"] = <<>>
      BY <1>1 DEF CInv, Conserved, Streaming
    <2>2. p \in Seq(Unit)
      BY <1>1, PayloadType, InOutTyped, OtherFacts DEF CInv
    <2>3. q \in Seq(Unit) /\ t \in Seq(Unit)
      BY <1>1, OtherFacts DEF CInv, Sized, Streams
    <2>4. In("back") = q \o t
      BY <2>1, <2>3, ConcatEmptySeq DEF In
    <2> HIDE DEF p, q, t
    <2>5. p \o <<>> = p /\ (p \o q) \o t = p \o (q \o t)
      BY <2>2, <2>3, ConcatEmptySeq, Regroup
    <2>6. ((p \o <<>>) \o q) \o t = <<Reply>> \o DownData
      BY <2>1, <2>4, <2>5
    <2> QED
      BY <2>1, <2>6 DEF p, q, t
  <1> QED
    BY <1>1, Conservation, PTL

\* The stream to the local-proxy is cut into packets, and rxbuf of local
\* starts with a packet: neither side ever takes data for a length.
THEOREM FramedAlways ==
    ASSUME Protocol
    PROVE  Spec => []Framed
  <1>1. ASSUME CInv
        PROVE  Framed
    <2>1. CASE open /\ Streaming
      BY <2>1 DEF Streaming, Whole, Framed, In, Out
    <2>2. CASE open /\ Asking
      <3>1. Packets(<<>>)
        BY EmptySeq DEF Packets
      <3> QED
        BY <2>2, <3>1 DEF Asking, Framed, In, Out, Protocol
    <2> QED
      BY <1>1, <2>1, <2>2 DEF CInv, Conserved, Framed
  <1> QED
    BY <1>1, Conservation, PTL

=============================================================================
