----------------------- MODULE LocalProxyUplinkProofs -----------------------
(***************************************************************************)
(* What the local-proxy makes of a request on its way to the remote-proxy, *)
(* however early and however late the far ends say what they have to say.  *)
(***************************************************************************)
EXTENDS LocalProxyProofs

USE BackendAssumption, BufferAssumption, FailingAssumption, DataAssumption

\* The application sends bytes: no length of a packet among them.
Words == UpData \in Seq(Data)

\* No length says 0.
NoZero(s) == \A i \in 1 .. Len(s) : s[i] # Len4(0)

\* One says 0 at most, of a plain request, behind the first packet and more.
OneZero(s) ==
    \A i \in 1 .. Len(s) : s[i] = Len4(0) =>
        /\ kind = "http" /\ i > 3
        /\ \A j \in 1 .. Len(s) : s[j] = Len4(0) => j = i

Legit == {<<Connect>> \o s : s \in Forwarded}

\* What was said and is still to be said is the request, behind the first
\* packet.
Passed ==
    /\ Payload(Out("back")) \o In("front") \in Legit
    /\ In("front") \in Seq(Data)

\* A read event finds data.
Finds ==
    Reading => IF pc = "loop" THEN Readable("front") \/ rxbuf["front"] # <<>>
               ELSE rxbuf["front"] # <<>>

\* Accepted: of a CONNECT, no more than its head can have come.
Asking ==
    /\ stage["front"] = "handshake" /\ stage["back"] = "none"
    /\ In("front") = UpData
    /\ Out("front") = <<>> /\ Out("back") = <<>>
    /\ rxbuf["back"] = <<>> /\ inq["back"] = <<>>
    /\ kind = "https" => Len(todo["front"]) >= Len(UpData) - HeadLen
    /\ Served

\* The remote-proxy was asked to connect.  The plain request waits in rxbuf,
\* unless some of it has been forwarded already.
Waiting ==
    /\ stage["front"] = "streaming" /\ stage["back"] = "handshake"
    /\ Passed /\ Finds
    /\ kind = "https" /\ ~Reading => rxbuf["front"] = <<>>
    /\ kind = "http" /\ rxbuf["front"] = <<>> => Len(Out("back")) > 2
    /\ Len(Out("back")) > 1
    /\ NoZero(Out("back"))

\* The remote-proxy has replied.
Relaying ==
    /\ stage["front"] = "streaming" /\ stage["back"] = "streaming"
    /\ Passed /\ Served

Uplink == Asking \/ Waiting \/ Relaying

UInv == Typed /\ OneZero(Out("back")) /\ (open => Reads /\ Uplink)

-----------------------------------------------------------------------------
(* Lengths that say 0                                                      *)

LEMMA NoZeroConcat ==
    ASSUME NEW s \in Seq(Unit), NEW t \in Seq(Unit), NoZero(s), NoZero(t)
    PROVE  NoZero(s \o t)
  <1> DEFINE x == s \o t
  <1>1. /\ Len(s) \in Nat /\ Len(t) \in Nat /\ Len(x) = Len(s) + Len(t)
        /\ \A i \in 1 .. Len(s) + Len(t) :
             x[i] = IF i <= Len(s) THEN s[i] ELSE t[i - Len(s)]
    BY ConcatProperties, LenProperties
  <1> HIDE DEF x
  <1>2. ASSUME NEW i \in 1 .. Len(x)
        PROVE  x[i] # Len4(0)
    <2>1. CASE i <= Len(s)
      BY <1>1, <2>1 DEF NoZero
    <2>2. CASE ~(i <= Len(s))
      <3>1. i - Len(s) \in 1 .. Len(t)
        BY <1>1, <2>2
      <3> QED
        BY <1>1, <2>2, <3>1 DEF NoZero
    <2> QED
      BY <2>1, <2>2
  <1> QED
    BY <1>2 DEF NoZero, x

\* A packet with data in it.
LEMMA NoZeroPacket ==
    ASSUME NEW d \in Seq(Data), d # <<>>
    PROVE  NoZero(Encrypt(d))
  <1> DEFINE e == Encrypt(d)
  <1>1. d \in Seq(Unit) /\ Len(d) \in Nat /\ Len(d) # 0
    BY DataUnits, EmptyFacts
  <1>2. /\ Len(e) = 1 + Len(d)
        /\ e[1] = Len4(Len(d)) /\ \A i \in 1 .. Len(d) : e[1 + i] = d[i]
    BY <1>1, PacketIndex
  <1> HIDE DEF e
  <1>3. e[1] # Len4(0)
    BY <1>1, <1>2 DEF Len4
  <1>4. ASSUME NEW i \in 1 .. Len(d)
        PROVE  e[1 + i] # Len4(0)
    <2>1. d[i] \in Data
      BY ElementOfSeq
    <2>2. Len4(0) \notin Data
      BY DEF Len4, Data
    <2> QED
      BY <1>2, <2>1, <2>2
  <1>5. ASSUME NEW i \in 1 .. 1 + Len(d), i # 1
        PROVE  e[i] # Len4(0)
    <2>1. i - 1 \in 1 .. Len(d) /\ 1 + (i - 1) = i
      BY <1>1, <1>5
    <2> QED
      BY <1>4, <2>1
  <1> QED
    BY <1>2, <1>3, <1>5 DEF NoZero, e

\* Where the first such length can be in what is appended to o.
LEMMA ZeroIndex ==
    ASSUME NEW o \in Seq(Unit), NEW e \in Seq(Unit), NEW x, x = o \o e,
           NEW i \in 1 .. Len(x), x[i] = Len4(0)
    PROVE  /\ i \in 1 .. Len(o) => o[i] = Len4(0)
           /\ i \notin 1 .. Len(o) =>
                /\ i > Len(o)
                /\ i - Len(o) \in 1 .. Len(e) /\ e[i - Len(o)] = Len4(0)
  <1>1. /\ Len(o) \in Nat /\ Len(e) \in Nat /\ Len(x) = Len(o) + Len(e)
        /\ \A j \in 1 .. Len(o) + Len(e) :
             x[j] = IF j <= Len(o) THEN o[j] ELSE e[j - Len(o)]
    BY ConcatProperties, LenProperties
  <1>2. i \in Nat /\ 1 <= i /\ i <= Len(o) + Len(e)
    BY <1>1
  <1>3. x[i] = IF i <= Len(o) THEN o[i] ELSE e[i - Len(o)]
    BY <1>1
  <1>4. CASE i <= Len(o)
    BY <1>1, <1>2, <1>3, <1>4
  <1>5. CASE ~(i <= Len(o))
    BY <1>1, <1>2, <1>3, <1>5
  <1> QED
    BY <1>4, <1>5

\* Packets with data leave it at one.
LEMMA OneZeroMore ==
    ASSUME NEW o \in Seq(Unit), NEW e \in Seq(Unit), OneZero(o), NoZero(e)
    PROVE  OneZero(o \o e)
  <1> DEFINE x == o \o e
  <1>1. ASSUME NEW i \in 1 .. Len(x), x[i] = Len4(0)
        PROVE  i \in 1 .. Len(o) /\ o[i] = Len4(0)
    <2>1. i \in 1 .. Len(o) => o[i] = Len4(0)
      BY <1>1, ZeroIndex
    <2>2. i \notin 1 .. Len(o) =>
            i - Len(o) \in 1 .. Len(e) /\ e[i - Len(o)] = Len4(0)
      BY <1>1, ZeroIndex
    <2> QED
      BY <2>1, <2>2 DEF NoZero
  <1> HIDE DEF x
  <1>2. OneZero(x)
    BY <1>1 DEF OneZero
  <1> QED
    BY <1>2 DEF x

\* One without data, behind more than the first packet, is the one.
LEMMA OneZeroLast ==
    ASSUME NEW o \in Seq(Unit), NoZero(o), Len(o) > 2, kind = "http"
    PROVE  OneZero(o \o Encrypt(<<>>))
  <1> DEFINE e == Encrypt(<<>>)
             x == o \o e
             l == Len(o)
  <1>1. e \in Seq(Unit) /\ Len(e) = 1
    <2> DEFINE d == <<>>
    <2>1. d \in Seq(Unit) /\ Len(d) = 0
      BY EmptySeq
    <2> HIDE DEF d, e, x, l
    <2>2. Encrypt(d) \in Seq(Unit) /\ Len(Encrypt(d)) = 1 + Len(d)
      BY <2>1, PacketIndex
    <2> QED
      BY <2>1, <2>2 DEF d, e
  <1>2. l \in Nat /\ l > 2
    BY LenProperties
  <1> HIDE DEF e
  <1>3. ASSUME NEW i \in 1 .. Len(x), x[i] = Len4(0)
        PROVE  i = l + 1
    <2>1. i \in 1 .. l => o[i] = Len4(0)
      BY <1>1, <1>3, ZeroIndex
    <2>2. i \notin 1 .. l
      BY <2>1 DEF NoZero
    <2>3. i > l /\ i - l \in 1 .. Len(e)
      BY <1>1, <1>3, <2>2, ZeroIndex
    <2>4. i \in Int
      BY <1>3
    <2> HIDE DEF l, x
    <2> QED
      BY <1>1, <1>2, <2>3, <2>4
  <1> HIDE DEF l, x
  <1>4. l + 1 > 3
    BY <1>2
  <1>5. OneZero(x)
    BY <1>3, <1>4 DEF OneZero
  <1> QED
    BY <1>5 DEF x, e

LEMMA NoZeroOne ==
    ASSUME NEW s, NoZero(s)
    PROVE  OneZero(s)
  BY DEF NoZero, OneZero

LEMMA OneZeroKept ==
    ASSUME OneZero(Out("back")), Out("back")' = Out("back"), kind' = kind
    PROVE  OneZero(Out("back"))'
  BY DEF OneZero

LEMMA NoZeroConnect == NoZero(ConnectPacket)
  <1> DEFINE d == <<Connect>>
  <1>1. d \in Seq(Data) /\ d # <<>>
    BY OwnWords, HandshakeUnits
  <1> HIDE DEF d
  <1>2. NoZero(Encrypt(d))
    BY <1>1, NoZeroPacket
  <1> QED
    BY <1>2 DEF d, ConnectPacket

LEMMA LegitKept ==
    ASSUME kind' = kind
    PROVE  Legit' = Legit
  BY DEF Legit, Forwarded

-----------------------------------------------------------------------------
(* The request, step by step                                               *)

LEMMA UplinkStarts ==
    ASSUME Init
    PROVE  Asking /\ Reads /\ NoZero(Out("back"))
  <1>1. <<>> \in Seq(Unit) /\ UpData \in Seq(Unit)
    BY EmptySeq
  <1>2. \A s \in Seq(Unit) : <<>> \o s = s
    BY ConcatEmptySeq
  <1>3. <<>> \o <<>> = <<>>
    BY <1>1, <1>2
  <1>4. /\ rxbuf = [c \in Ends |-> <<>>] /\ txbuf = [c \in Ends |-> <<>>]
        /\ inq = [c \in Ends |-> <<>>] /\ outq = [c \in Ends |-> <<>>]
        /\ got = [c \in Ends |-> <<>>] /\ batch = {} /\ cur = NoEvent
        /\ todo["front"] = UpData
        /\ stage = [c \in Ends |-> IF c = "front" THEN "handshake" ELSE "none"]
        /\ pc = "loop"
    BY OtherFacts DEF Init, RelayInit
  <1>5. In("front") = UpData
    BY <1>1, <1>2, <1>3, <1>4, OtherFacts DEF In
  <1>6. Out("front") = <<>> /\ Out("back") = <<>>
    BY <1>3, <1>4, OtherFacts DEF Out
  <1>7. ~Reading
    BY <1>4 DEF Reading, IsRead, NoEvent
  <1>8. Reads
    BY <1>4, <1>7 DEF Reads
  <1>9. Len(UpData) >= Len(UpData) - HeadLen
    <2> DEFINE k == Len(UpData)
    <2>1. k \in Nat /\ HeadLen \in 1 .. k
      BY HeadAssumption, LenProperties
    <2> HIDE DEF k
    <2>2. k >= k - HeadLen
      BY <2>1
    <2> QED
      BY <2>2 DEF k
  <1>10. Asking
    BY <1>4, <1>5, <1>6, <1>7, <1>9, OtherFacts DEF Asking, Served
  <1>11. NoZero(<<>>)
    BY EmptySeq DEF NoZero
  <1> QED
    BY <1>6, <1>8, <1>10, <1>11

\* Steps that leave the request where it is.
LEMMA UplinkQuiet ==
    ASSUME Uplink, UNCHANGED <<stage, kind>>,
           In("front")' = In("front"), Out("back")' = Out("back"),
           rxbuf'["front"] = rxbuf["front"], Reading => Reading', Finds',
           Asking => /\ Out("front")' = <<>>
                     /\ rxbuf'["back"] = <<>> /\ inq'["back"] = <<>>
                     /\ kind = "https" =>
                          Len(todo'["front"]) >= Len(UpData) - HeadLen
    PROVE  Uplink'
  <1>1. Served => Served'
    BY DEF Served, Finds
  <1>2. Passed => Passed'
    BY LegitKept DEF Passed
  <1>3. Asking => Asking'
    BY <1>1 DEF Asking
  <1>4. Waiting => Waiting'
    BY <1>2 DEF Waiting, NoZero
  <1>5. Relaying => Relaying'
    BY <1>1, <1>2 DEF Relaying
  <1> QED
    BY <1>3, <1>4, <1>5 DEF Uplink

LEMMA FindsData == Uplink => Finds
  BY DEF Uplink, Asking, Waiting, Relaying, Served, Finds

LEMMA UplinkLoop ==
    ASSUME UInv, EventLoop, ~CloseOnEof
    PROVE  OneZero(Out("back"))' /\ (open' => Reads' /\ Uplink')
  <1>1. /\ UNCHANGED <<open, sockVars, connVars, kind, pc>> /\ open
        /\ PollerWait \/ NextEvent
    BY DEF EventLoop, PollerWait, NextEvent
  <1>2. /\ Out("front")' = Out("front") /\ Out("back")' = Out("back")
        /\ In("front")' = In("front")
    BY <1>1 DEF In, Out, sockVars, connVars
  <1>3. Reads /\ Uplink /\ Finds
    BY <1>1, FindsData DEF UInv
  <1>4. Readable("front")' <=> Readable("front")
    BY <1>1 DEF Readable, sockVars
  <1>5. Reads' /\ (Reading => Reading') /\ Finds'
    <2>1. CASE PollerWait
      <3>1. cur' = cur
        BY <2>1 DEF PollerWait
      <3>2. (Reading' <=> Reading) /\ Finds'
        BY <1>1, <1>3, <1>4, <3>1 DEF Finds, Reading, IsRead, connVars
      <3> QED
        BY <1>3, <2>1, <3>2, PollerWaitReads
    <2>2. CASE NextEvent
      <3>1. /\ Reads' /\ ~Reading /\ pc' = "loop"
            /\ Reading' => Readable("front")
        BY <1>3, <2>2, NextEventReads
      <3>2. Finds'
        BY <1>4, <3>1 DEF Finds
      <3> QED
        BY <3>1, <3>2
    <2> QED
      BY <1>1, <2>1, <2>2
  <1>6. UNCHANGED <<stage, rxbuf, inq, todo>>
    BY <1>1 DEF sockVars, connVars
  <1>7. Uplink'
    BY <1>1, <1>2, <1>3, <1>5, <1>6, UplinkQuiet DEF Asking
  <1>8. OneZero(Out("back"))'
    BY <1>1, <1>2, OneZeroKept DEF UInv
  <1> QED
    BY <1>5, <1>7, <1>8

\* The pair is gone.
LEMMA UplinkGone ==
    ASSUME UInv, HandleError, kind' = kind
    PROVE  OneZero(Out("back"))' /\ (open' => Reads' /\ Uplink')
  <1>1. Out("back")' = Out("back")
    BY DEF HandleError, Out, sockVars, connVars
  <1> QED
    BY <1>1, OneZeroKept DEF HandleError, UInv

\* Whatever arrives, whatever is read, whoever closes.
LEMMA UplinkNetwork ==
    ASSUME UInv, NEW c \in Ends, Deliver(c) \/ Drain(c) \/ Close(c)
    PROVE  OneZero(Out("back"))' /\ (open' => Reads' /\ Uplink')
  <1>1. \A d \in Ends : In(d)' = In(d) /\ Out(d)' = Out(d)
    BY NetworkMoves DEF UInv, Typed, Deliver, Drain, Close
  <1>2. /\ In("front")' = In("front") /\ In("back")' = In("back")
        /\ Out("front")' = Out("front") /\ Out("back")' = Out("back")
    BY <1>1, OtherFacts
  <1>3. /\ UNCHANGED <<open, rxbuf, stage, kind, batch, cur, pc>>
        /\ open /\ fin \subseteq fin'
    BY DEF Deliver, Drain, Close, Arrive, Fetch, Finish, connVars, loopVars
  <1>4. Reads /\ Uplink /\ Finds
    BY <1>3, FindsData DEF UInv
  <1>5. \/ UNCHANGED <<inq, todo>>
        \/ /\ Deliver(c) /\ stage[c] # "none" /\ todo[c] # <<>>
           /\ inq' = [inq EXCEPT ![c] = Append(inq[c], Head(todo[c]))]
           /\ todo' = [todo EXCEPT ![c] = Tail(todo[c])]
    BY DEF Deliver, Drain, Close, Arrive, Fetch, Finish
  <1>6. inq[c] \in Seq(Unit) /\ todo[c] \in Seq(Unit)
    BY DEF UInv, Typed, Sized, Streams
  <1>7. Readable("front") => Readable("front")'
    <2>1. CASE UNCHANGED <<inq, todo>>
      BY <1>3, <2>1 DEF Readable
    <2>2. CASE ~UNCHANGED <<inq, todo>>
      <3>1. todo[c] # <<>> /\ Head(todo[c]) \in Unit
        BY <1>5, <1>6, <2>2, HeadTailProperties
      <3>2. Append(inq[c], Head(todo[c])) # <<>>
        <4> DEFINE a == Append(inq[c], Head(todo[c]))
        <4>1. Len(a) = Len(inq[c]) + 1 /\ Len(inq[c]) \in Nat
          BY <1>6, <3>1, AppendProperties, LenProperties
        <4> HIDE DEF a
        <4>2. Len(a) # 0
          BY <4>1
        <4> QED
          BY <4>2, EmptySeq DEF a
      <3>3. inq'[c] # <<>> /\ (c # "front" => inq'["front"] = inq["front"])
        BY <1>5, <2>2, <3>2, OtherFacts DEF UInv, Typed, Sized, Streams
      <3> QED
        BY <1>3, <3>3 DEF Readable
    <2> QED
      BY <2>1, <2>2
  <1>8. Reads'
    BY <1>3, <1>4, <1>7, ReadsKept DEF Reads
  <1>9. (Reading => Reading') /\ Finds'
    BY <1>3, <1>4, <1>7 DEF Finds, Reading, IsRead
  <1>10. ASSUME Asking
         PROVE  /\ inq'["back"] = <<>>
                /\ kind = "https" =>
                     Len(todo'["front"]) >= Len(UpData) - HeadLen
    <2>1. CASE UNCHANGED <<inq, todo>>
      BY <1>10, <2>1 DEF Asking
    <2>2. CASE ~UNCHANGED <<inq, todo>>
      <3>1. c = "front"
        BY <1>5, <1>10, <2>2 DEF Asking, Ends
      <3>2. inq'["back"] = <<>> /\ todo'["front"] = Tail(todo["front"])
        BY <1>5, <1>10, <2>2, <3>1, OtherFacts
           DEF Asking, UInv, Typed, Sized, Streams
      <3>3. got["front"] = <<>>
        BY <1>10, NothingOut, OtherFacts DEF Asking, UInv, Typed
      <3>4. kind = "https" => Len(todo["front"]) > Len(UpData) - HeadLen
        BY <1>5, <2>2, <3>1, <3>3, OtherFacts DEF Deliver, MaySend
      <3>5. Len(Tail(todo["front"])) = Len(todo["front"]) - 1
        BY <1>5, <1>6, <2>2, <3>1, HeadTailProperties
      <3> DEFINE k == Len(UpData)
                 l == Len(todo["front"])
                 m == Len(todo'["front"])
      <3>6. /\ k \in Nat /\ l \in Nat /\ HeadLen \in 1 .. k /\ m = l - 1
            /\ kind = "https" => l > k - HeadLen
        BY <1>6, <3>1, <3>2, <3>4, <3>5, HeadAssumption, LenProperties
      <3> HIDE DEF k, l, m
      <3>7. kind = "https" => m >= k - HeadLen
        BY <3>6
      <3> QED
        BY <3>2, <3>7 DEF k, m
    <2> QED
      BY <2>1, <2>2
  <1>11. Uplink'
    BY <1>2, <1>3, <1>4, <1>9, <1>10, UplinkQuiet DEF Asking
  <1>12. OneZero(Out("back"))'
    BY <1>2, <1>3, OneZeroKept DEF UInv
  <1> QED
    BY <1>8, <1>11, <1>12

\* The callbacks that do not read from the application, and forward nothing to
\* the remote-proxy.
LEMMA UplinkAside ==
    ASSUME UInv, open, UNCHANGED <<open, stage, kind, fin>>,
           batch' = batch, cur' = cur \/ ~cur'.read, pc' # "loop" => cur'.read,
           ~Reading,
           inq'["front"] = inq["front"], todo'["front"] = todo["front"],
           rxbuf'["front"] = rxbuf["front"], Out("back")' = Out("back"),
           Asking => /\ Out("front")' = <<>>
                     /\ rxbuf'["back"] = <<>> /\ inq'["back"] = <<>>
    PROVE  OneZero(Out("back"))' /\ (open' => Reads' /\ Uplink')
  <1>1. Reads /\ Uplink
    BY DEF UInv
  <1>2. ~Reading' /\ Finds'
    BY DEF Finds, Reading, IsRead
  <1>3. Readable("front")' <=> Readable("front")
    BY DEF Readable
  <1>4. Reads'
    BY <1>1, <1>3, ReadsKept
  <1>5. In("front")' = In("front")
    BY DEF In
  <1>6. Uplink'
    BY <1>1, <1>2, <1>5, UplinkQuiet DEF Asking
  <1>7. OneZero(Out("back"))'
    BY OneZeroKept DEF UInv
  <1> QED
    BY <1>4, <1>6, <1>7

LEMMA UplinkSendTo ==
    ASSUME UInv, NEW c \in Ends, SendTo(c)
    PROVE  OneZero(Out("back"))' /\ (open' => Reads' /\ Uplink')
  <1>1. \A d \in Ends : Out(d)' = Out(d)
    BY FlushMoves DEF UInv, Typed, SendTo, ElsewhereSame
  <1>2. Out("front")' = Out("front") /\ Out("back")' = Out("back")
    BY <1>1, OtherFacts
  <1>3. /\ UNCHANGED <<open, inq, todo, fin, stage, rxbuf, kind>>
        /\ open /\ ~cur.read /\ pc = "loop" /\ SendReturns
    BY DEF SendTo, Sending, ElsewhereSame
  <1>4. ~cur'.read /\ pc' = "loop" /\ batch' = batch
    BY <1>3, ReadDone DEF UInv
  <1>5. ~Reading
    BY <1>3 DEF Reading, IsRead
  <1> QED
    BY <1>2, <1>3, <1>4, <1>5, UplinkAside DEF Asking

LEMMA UplinkWait ==
    ASSUME UInv, WaitForMore
    PROVE  OneZero(Out("back"))' /\ (open' => Reads' /\ Uplink')
  <1>1. /\ UNCHANGED <<open, sockVars, connVars, kind>> /\ open
        /\ cur.conn = "back" /\ HandlerReturns(0)
    BY DEF WaitForMore, HandlingRemote
  <1>2. Out("front")' = Out("front") /\ Out("back")' = Out("back")
    BY <1>1 DEF Out, sockVars, connVars
  <1>3. pc' = "loop" /\ batch' = batch /\ (cur' = cur \/ ~cur'.read)
    BY <1>1, HandlerReturnsDone DEF UInv
  <1>4. ~Reading
    BY <1>1, OtherFacts DEF Reading, IsRead
  <1>5. UNCHANGED <<stage, rxbuf, inq, todo, fin>>
    BY <1>1 DEF sockVars, connVars
  <1> QED
    BY <1>1, <1>2, <1>3, <1>4, <1>5, UplinkAside DEF Asking

LEMMA UplinkRecvFromRemote ==
    ASSUME UInv, RecvFromRemote
    PROVE  OneZero(Out("back"))' /\ (open' => Reads' /\ Uplink')
  <1>1. /\ open /\ pc = "loop" /\ cur.read /\ cur.conn = "back" /\ kind' = kind
        /\ ~Reading
    BY OtherFacts DEF RecvFromRemote, Receiving, Reading, IsRead
  <1>2. CASE HandleError
    BY <1>1, <1>2, UplinkGone
  <1>3. CASE RecvReturns /\ UNCHANGED <<open, sockVars, connVars, pollVars>>
    <2>1. ~cur'.read /\ pc' = "loop" /\ batch' = batch
      BY <1>3, ReadDone DEF UInv
    <2>2. Out("front")' = Out("front") /\ Out("back")' = Out("back")
      BY <1>3 DEF Out, sockVars, connVars
    <2>3. UNCHANGED <<stage, rxbuf, inq, todo, fin>>
      BY <1>3 DEF sockVars, connVars
    <2> QED
      BY <1>1, <1>3, <2>1, <2>2, <2>3, UplinkAside DEF Asking
  <1>4. CASE /\ inq["back"] # <<>> /\ TakeReceived("back")
             /\ rxbuf' = [rxbuf EXCEPT !["back"] =
                            rxbuf["back"] \o SubSeq(inq["back"], 1, Received("back"))]
             /\ UNCHANGED <<open, outq, fin, todo, got, stage, txbuf, batch, cur>>
    <2>1. rxbuf'["front"] = rxbuf["front"] /\ inq'["front"] = inq["front"]
      BY <1>4, OtherFacts DEF UInv, Typed, Sized, Streams, TakeReceived
    <2>2. Out("back")' = Out("back")
      BY <1>4 DEF Out
    <2>3. ~Asking
      BY <1>4 DEF Asking
    <2>4. todo'["front"] = todo["front"]
      BY <1>4
    <2> QED
      BY <1>1, <1>4, <2>1, <2>2, <2>3, <2>4, UplinkAside
  <1> QED
    BY <1>2, <1>3, <1>4 DEF RecvFromRemote

\* recv of the application's words.
LEMMA UplinkRecvFromClient ==
    ASSUME UInv, RecvFromClient
    PROVE  OneZero(Out("back"))' /\ (open' => Reads' /\ Uplink')
  <1>1. CASE HandleError
    BY <1>1, UplinkGone DEF RecvFromClient
  <1>2. CASE ~HandleError
    <2>1. /\ open /\ Reading /\ cur.read /\ pc = "loop"
          /\ TakeReceived("front")
          /\ rxbuf' = [rxbuf EXCEPT !["front"] =
                         rxbuf["front"]
                           \o SubSeq(inq["front"], 1, Received("front"))]
          /\ pc' \in {"handle", "loop"}
          /\ UNCHANGED <<open, outq, fin, todo, got, stage, txbuf, batch, cur,
                         kind>>
          /\ ~(inq["front"] = <<>> /\ "front" \in fin)
      BY <1>2 DEF RecvFromClient, Receiving, Reading, IsRead
    <2>2. \A d \in Ends : In(d)' = In(d)
      BY <2>1, ReceiveMoves, OtherFacts DEF UInv, Typed
    <2>3. /\ In("front")' = In("front")
          /\ Out("front")' = Out("front") /\ Out("back")' = Out("back")
      BY <2>1, <2>2, OtherFacts DEF Out
    <2>4. rxbuf'["back"] = rxbuf["back"] /\ inq'["back"] = inq["back"]
      BY <2>1, OtherFacts DEF UInv, Typed, Sized, Streams, TakeReceived
    <2>5. Reads /\ Uplink /\ Finds
      BY <2>1, FindsData DEF UInv
    <2>6. Reads'
      BY <2>1, <2>5, ReadsKept
    <2>7. rxbuf'["front"] # <<>>
      <3> DEFINE q == inq["front"]
                 r == rxbuf["front"]
                 pre == SubSeq(q, 1, Received("front"))
      <3>1. q \in Seq(Unit) /\ r \in Seq(Unit)
        BY OtherFacts DEF UInv, Typed, Sized, Streams
      <3>2. /\ pre \in Seq(Unit) /\ Len(pre) = Received("front")
            /\ q # <<>> => Received("front") > 0
        BY ReceiveFacts, OtherFacts DEF UInv, Typed
      <3>3. rxbuf'["front"] = r \o pre
        BY <2>1, OtherFacts DEF UInv, Typed, Sized, Streams
      <3> HIDE DEF q, r, pre
      <3>4. Len(r \o pre) = Len(r) + Len(pre) /\ r \o pre \in Seq(Unit)
        BY <3>1, <3>2, ConcatProperties
      <3>5. Len(r) \in Nat /\ Len(pre) \in Nat /\ (r # <<>> => Len(r) # 0)
        BY <3>1, <3>2, EmptyFacts
      <3>6. q # <<>> \/ r # <<>>
        BY <2>1, <2>5 DEF Finds, Readable, q, r
      <3>7. Len(r \o pre) # 0
        BY <3>2, <3>4, <3>5, <3>6
      <3> QED
        BY <3>3, <3>7, EmptySeq
    <2>8. Reading' /\ Finds'
      BY <2>1, <2>7 DEF Finds, Reading, IsRead
    <2>9. Asking => Asking'
      BY <2>1, <2>3, <2>4, <2>7, <2>8 DEF Asking, Served
    <2>10. Passed => Passed'
      BY <2>1, <2>3, LegitKept DEF Passed
    <2>11. Waiting => Waiting'
      BY <2>1, <2>3, <2>7, <2>8, <2>10 DEF Waiting, NoZero
    <2>12. Relaying => Relaying'
      BY <2>1, <2>7, <2>8, <2>10 DEF Relaying, Served
    <2>13. OneZero(Out("back"))'
      BY <2>1, <2>3, OneZeroKept DEF UInv
    <2> QED
      BY <2>5, <2>6, <2>9, <2>11, <2>12, <2>13 DEF Uplink
  <1> QED
    BY <1>1, <1>2

\* What may be left of a CONNECT once its head, or a part of it, is dropped.
Rests == {SubSeq(UpData, k + 1, Len(UpData)) : k \in 1 .. HeadLen}

\* The rest of a CONNECT of which no more than the head was read.
LEMMA HeadRead ==
    ASSUME NEW r \in Seq(Unit), r # <<>>, NEW i \in Seq(Unit),
           NEW t \in Seq(Unit), r \o (i \o t) = UpData,
           Len(t) >= Len(UpData) - HeadLen
    PROVE  i \o t \in Rests
  <1> DEFINE x == UpData
             h == HeadLen
             k == Len(r)
             l == Len(x)
             y == i \o t
  <1>1. x \in Seq(Unit) /\ h \in 1 .. l
    BY HeadAssumption
  <1> HIDE DEF x, h
  <1>2. /\ y \in Seq(Unit) /\ Len(y) = Len(i) + Len(t)
        /\ Len(i) \in Nat /\ Len(t) \in Nat
    BY ConcatProperties, LenProperties
  <1>3. l = k + Len(y) /\ k \in Nat /\ k # 0 /\ l \in Nat
    BY <1>1, <1>2, ConcatProperties, EmptyFacts DEF x
  <1>4. k \in 1 .. h /\ k \in 0 .. l
    <2> DEFINE m == Len(i)
               n == Len(t)
    <2>1. /\ l = k + (m + n) /\ m \in Nat /\ n \in Nat
          /\ n >= l - h /\ h \in 1 .. l
      BY <1>1, <1>2, <1>3 DEF x, h
    <2> HIDE DEF k, l, m, n
    <2>2. k >= 1 /\ k <= h /\ k <= l
      BY <1>3, <2>1
    <2> QED
      BY <1>3, <2>1, <2>2
  <1> DEFINE p == SubSeq(x, 1, k)
             q == SubSeq(x, k + 1, l)
  <1>5. /\ p \in Seq(Unit) /\ q \in Seq(Unit) /\ Len(p) = k
    BY <1>1, <1>4, CutFacts
  <1>6. p \o q = x
    BY <1>1, <1>4, CutJoin
  <1>7. r \o y = p \o q /\ Len(r) = Len(p)
    BY <1>5, <1>6 DEF x
  <1> HIDE DEF y, p, q
  <1>8. y = q
    BY <1>2, <1>5, <1>7, SameCut
  <1> QED
    BY <1>4, <1>8 DEF y, q, x, h, Rests

\* handle_client_request asks the remote-proxy to connect, and drops what it
\* has of a CONNECT.
LEMMA UplinkRequest ==
    ASSUME Words, UInv, HandleClientRequest
    PROVE  OneZero(Out("back"))' /\ (open' => Reads' /\ Uplink')
  <1> DEFINE r == rxbuf["front"]
             i == inq["front"]
             t == todo["front"]
             all == txbuf["back"] \o ConnectPacket
             n == Least(Len(all), SndBuf - Len(outq["back"]))
  <1>1. /\ open /\ pc = "handle" /\ cur.conn = "front"
        /\ stage["front"] = "handshake" /\ RecvReturns
        /\ UNCHANGED <<inq, ret, open, fin, todo, got, kind>>
        /\ outq' = [outq EXCEPT !["back"] = outq["back"] \o SubSeq(all, 1, n)]
        /\ txbuf' = [txbuf EXCEPT !["back"] = Unsent(all, n)]
        /\ stage' = [front |-> IF n = Len(all) THEN "streaming" ELSE "handshake",
                     back |-> "handshake"]
        /\ rxbuf' = [rxbuf EXCEPT !["front"] = IF kind = "http" THEN r ELSE <<>>]
    BY DEF HandleClientRequest, Handling, ElsewhereSame, RequestKept
  <1>2. Asking /\ Reads
    BY <1>1 DEF UInv, Uplink, Waiting, Relaying
  <1>3. Reading /\ r # <<>>
    BY <1>1, <1>2 DEF Asking, Reads, Served, Reading, IsRead
  <1>4. /\ r \in Seq(Unit) /\ i \in Seq(Unit) /\ t \in Seq(Unit)
        /\ i \o t \in Seq(Unit)
    BY ConcatProperties, OtherFacts DEF UInv, Typed, Sized, Streams
  <1>5. r \o (i \o t) = UpData
    BY <1>2, InRegrouped, OtherFacts DEF Asking, UInv, Typed
  <1>6. got["back"] = <<>> /\ outq["back"] = <<>> /\ txbuf["back"] = <<>>
    BY <1>2, NothingOut, OtherFacts DEF Asking, UInv, Typed
  <1>7. all = ConnectPacket
    BY <1>6, ConnectFacts, ConcatEmptySeq
  <1>8. n = Len(all)
    <2>1. Len(all) = 2
      BY <1>7, ConnectFacts
    <2>2. SndBuf - Len(outq["back"]) = SndBuf
      BY <1>6, EmptySeq
    <2>3. Least(2, SndBuf) = 2
      BY DEF Least
    <2> QED
      BY <2>1, <2>2, <2>3, Zenon
  <1> HIDE DEF all, n
  <1>9. stage'["front"] = "streaming" /\ stage'["back"] = "handshake"
    BY <1>1, <1>8
  <1>10. Out("back")' = ConnectPacket
    <2>1. /\ all = txbuf["back"] \o ConnectPacket
          /\ n = Least(Len(all), SndBuf - Len(outq["back"]))
      BY DEF all, n
    <2>2. Out("back")' = Out("back") \o ConnectPacket
      BY <1>1, <2>1, ConnectFacts, SendMoves, OtherFacts DEF UInv, Typed
    <2> QED
      BY <1>2, <2>2, ConnectFacts, ConcatEmptySeq DEF Asking
  <1>11. ~cur'.read /\ pc' = "loop" /\ batch' = batch
    BY <1>1, ReadDone DEF UInv
  <1>12. Reads'
    BY <1>2, <1>3, <1>11, ReadsKept
  <1>13. ~Reading' /\ Finds'
    BY <1>11 DEF Finds, Reading, IsRead
  <1>14. rxbuf'["front"] = IF kind = "http" THEN r ELSE <<>>
    BY <1>1, OtherFacts DEF UInv, Typed, Sized, Streams
  <1>15. Payload(Out("back")') = <<Connect>>
    BY <1>10, PayloadOfPacket, OwnWords, HandshakeUnits DEF ConnectPacket
  <1>16. In("front")' \in Forwarded
    <2>1. In("front")' = (rxbuf'["front"] \o i) \o t
      BY <1>1 DEF In
    <2>2. CASE kind = "http"
      <3>1. In("front")' = In("front")
        BY <1>14, <2>1, <2>2 DEF In
      <3> QED
        BY <1>2, <2>2, <3>1 DEF Asking, Forwarded
    <2>3. CASE kind # "http"
      <3>1. In("front")' = i \o t
        BY <1>4, <1>14, <2>1, <2>3, ConcatEmptySeq
      <3>2. Len(t) >= Len(UpData) - HeadLen
        BY <1>2, <2>3 DEF Asking, UInv, Typed
      <3> HIDE DEF r, i, t
      <3>3. i \o t \in Rests
        BY <1>3, <1>4, <1>5, <3>2, HeadRead DEF r, i, t
      <3> QED
        BY <2>3, <3>1, <3>3 DEF Forwarded, Rests
    <2> QED
      BY <2>2, <2>3
  <1>17. In("front")' \in Seq(Data)
    <2>1. r \o (i \o t) \in Seq(Data)
      BY <1>5 DEF Words
    <2> HIDE DEF r, i, t
    <2>2. i \o t \in Seq(Data)
      BY <1>4, <2>1, DataParts
    <2>3. CASE kind = "http"
      <3>1. In("front")' = In("front")
        BY <1>1, <1>14, <2>3 DEF In, r, i, t
      <3> QED
        BY <1>2, <3>1 DEF Asking, Words
    <2>4. CASE kind # "http"
      <3>1. In("front")' = (<<>> \o inq["front"]) \o todo["front"]
        BY <1>1, <1>14, <2>4 DEF In
      <3>2. <<>> \o i = i
        BY <1>4, ConcatEmptySeq
      <3> QED
        BY <2>2, <3>1, <3>2 DEF i, t
    <2> QED
      BY <2>3, <2>4
  <1>18. Passed'
    <2>1. <<Connect>> \o In("front")' \in Legit
      BY <1>16 DEF Legit
    <2>2. Legit' = Legit
      BY <1>1, LegitKept
    <2> QED
      BY <1>15, <1>17, <2>1, <2>2 DEF Passed
  <1>19. NoZero(Out("back")')
    BY <1>10, NoZeroConnect
  <1>20. Waiting'
    <2>1. Len(Out("back")') > 1
      <3> DEFINE k == Len(Out("back")')
      <3>1. k = 2
        BY <1>10, ConnectFacts, Zenon
      <3> HIDE DEF k
      <3>2. k > 1
        BY <3>1
      <3> QED
        BY <3>2 DEF k
    <2>2. NoZero(Out("back"))'
      BY <1>19 DEF NoZero
    <2>3. IF kind' = "http" THEN rxbuf'["front"] # <<>> ELSE rxbuf'["front"] = <<>>
      BY <1>1, <1>3, <1>14
    <2> HIDE DEF r, i, t
    <2> QED
      BY <1>9, <1>13, <1>18, <2>1, <2>2, <2>3 DEF Waiting
  <1>21. OneZero(Out("back"))'
    BY <1>19 DEF NoZero, OneZero
  <1> QED
    BY <1>12, <1>20, <1>21 DEF Uplink

\* stream_to_remote packs all there is, and there is something.
LEMMA UplinkStream ==
    ASSUME UInv, StreamToRemote
    PROVE  OneZero(Out("back"))' /\ (open' => Reads' /\ Uplink')
  <1> DEFINE r == rxbuf["front"]
             x == inq["front"] \o todo["front"]
             o == Out("back")
             e == Encrypt(r)
  <1>1. /\ open /\ pc = "handle" /\ cur.conn = "front"
        /\ stage["front"] = "streaming" /\ RecvReturns
        /\ UNCHANGED <<inq, stage, ret, open, fin, todo, got, kind>>
        /\ rxbuf' = [rxbuf EXCEPT !["front"] = <<>>]
        /\ Forward("front", "back", e)
    BY DEF StreamToRemote, Handling, ElsewhereSame
  <1>2. Reads /\ Reading
    BY <1>1 DEF UInv, Reads, Reading, IsRead
  <1>3. Waiting \/ Relaying
    BY <1>1 DEF UInv, Uplink, Asking
  <1>4. r # <<>> /\ Passed
    BY <1>1, <1>2, <1>3 DEF Waiting, Relaying, Served, Finds
  <1>5. r \in Seq(Unit) /\ x \in Seq(Unit) /\ In("front") = r \o x
    BY InRegrouped, OtherFacts DEF UInv, Typed, Sized, Streams
  <1>6. o \in Seq(Unit)
    BY InOutTyped, OtherFacts DEF UInv, Typed
  <1> HIDE DEF r, e
  <1>7. e \in Seq(Unit)
    BY <1>5, EncryptUnits DEF e
  <1>8. Out("back")' = o \o e
    BY <1>1, <1>7, ForwardMoves, OtherFacts DEF UInv, Typed
  <1>9. rxbuf'["front"] = <<>>
    BY <1>1, OtherFacts DEF UInv, Typed, Sized, Streams
  <1>10. In("front")' = x
    <2>1. In("front")' = (<<>> \o inq["front"]) \o todo["front"]
      BY <1>1, <1>9 DEF In
    <2>2. <<>> \o inq["front"] = inq["front"]
      BY ConcatEmptySeq, OtherFacts DEF UInv, Typed, Sized, Streams
    <2> QED
      BY <2>1, <2>2
  <1> HIDE DEF x, o
  <1>11. r \in Seq(Data) /\ x \in Seq(Data)
    BY <1>4, <1>5, DataParts DEF Passed
  <1>12. Payload(o \o e) \o x = Payload(o) \o (r \o x)
    BY <1>5, <1>6, <1>11, PayloadPacked DEF e
  <1>13. NoZero(e)
    BY <1>4, <1>11, NoZeroPacket DEF e
  <1>14. ~cur'.read /\ pc' = "loop" /\ batch' = batch
    BY <1>1, ReadDone DEF UInv
  <1>15. Reads'
    BY <1>2, <1>14, ReadsKept
  <1>16. ~Reading' /\ Finds' /\ Served'
    BY <1>9, <1>14 DEF Finds, Served, Reading, IsRead
  <1>17. Passed'
    <2>1. Payload(o) \o (r \o x) \in Legit
      BY <1>4, <1>5 DEF Passed, o
    <2>2. Legit' = Legit
      BY <1>1, LegitKept
    <2> QED
      BY <1>8, <1>10, <1>11, <1>12, <2>1, <2>2 DEF Passed
  <1>18. OneZero(Out("back"))'
    <2>1. OneZero(o)
      BY DEF UInv, o
    <2>2. OneZero(o \o e)
      BY <1>6, <1>7, <1>13, <2>1, OneZeroMore
    <2> QED
      BY <1>1, <1>8, <2>2 DEF OneZero
  <1>19. Waiting => Waiting'
    <2> SUFFICES ASSUME Waiting PROVE Waiting'
      OBVIOUS
    <2>1. NoZero(o)
      BY DEF Waiting, o
    <2>2. NoZero(o \o e)
      BY <1>6, <1>7, <1>13, <2>1, NoZeroConcat
    <2>3. Payload(o) \o In("front") \in Legit
      BY <1>4 DEF Passed, o
    <2>4. Len(o \o e) > 2
      <3> DEFINE k == Len(o)
                 l == Len(e)
                 m == Len(r)
      <3>1. Len(o \o e) = k + l /\ k \in Nat
        BY <1>6, <1>7, ConcatProperties, LenProperties
      <3>2. l = 1 + m /\ m \in Nat /\ m # 0
        BY <1>4, <1>5, PacketIndex, EmptyFacts DEF e
      <3>3. kind = "http" /\ r = <<>> => k > 2
        BY DEF Waiting, o, r
      <3>4. k > 1
        BY DEF Waiting, o
      <3> HIDE DEF k, l, m
      <3> QED
        BY <3>1, <3>2, <3>4
    <2>5. NoZero(Out("back"))' /\ Len(Out("back")') > 2
      BY <1>8, <2>2, <2>4 DEF NoZero
    <2>6. stage' = stage /\ Len(Out("back")') > 1
      <3> DEFINE k == Len(Out("back")')
      <3>1. k > 2 /\ k \in Nat
        BY <1>6, <1>7, <1>8, <2>5, ConcatProperties, LenProperties
      <3> HIDE DEF k
      <3>2. k > 1
        BY <3>1
      <3> QED
        BY <1>1, <3>2 DEF k
    <2> QED
      BY <1>9, <1>16, <1>17, <2>5, <2>6 DEF Waiting
  <1>20. Relaying => Relaying'
    BY <1>1, <1>16, <1>17 DEF Relaying
  <1> QED
    BY <1>3, <1>15, <1>18, <1>19, <1>20 DEF Uplink

\* The reply comes: what is left of a plain request goes out, be it nothing,
\* and streaming starts.
Enters ==
    /\ open /\ pc # "loop" /\ cur.conn = "back"
    /\ UNCHANGED <<open, inq, todo, fin, kind, batch>>
    /\ stage'["front"] = "streaming" /\ stage'["back"] = "streaming"
    /\ rxbuf'["front"] = IF kind = "http" THEN <<>> ELSE rxbuf["front"]
    /\ pc' = "loop" /\ (cur' = cur \/ ~cur'.read)
    /\ Out("back")' = IF kind = "http"
                      THEN Out("back") \o Encrypt(rxbuf["front"])
                      ELSE Out("back")

LEMMA UplinkEnters ==
    ASSUME UInv, Waiting, Enters
    PROVE  OneZero(Out("back"))' /\ (open' => Reads' /\ Uplink')
  <1> DEFINE r == rxbuf["front"]
             x == inq["front"] \o todo["front"]
             o == Out("back")
             e == Encrypt(r)
  <1>1. r \in Seq(Unit) /\ x \in Seq(Unit) /\ In("front") = r \o x
    BY InRegrouped, OtherFacts DEF UInv, Typed, Sized, Streams
  <1>2. o \in Seq(Unit) /\ NoZero(o)
    BY InOutTyped, OtherFacts DEF UInv, Typed, Waiting
  <1>3. ~Reading /\ ~Reading'
    BY OtherFacts DEF Reading, IsRead, Enters
  <1>4. rxbuf'["front"] = <<>>
    BY <1>3 DEF Waiting, UInv, Typed, Enters
  <1>5. In("front")' = x
    <2>1. In("front")' = (<<>> \o inq["front"]) \o todo["front"]
      BY <1>4 DEF In, Enters
    <2>2. <<>> \o inq["front"] = inq["front"]
      BY ConcatEmptySeq, OtherFacts DEF UInv, Typed, Sized, Streams
    <2> QED
      BY <2>1, <2>2
  <1>6. Passed /\ Legit' = Legit
    BY LegitKept DEF Waiting, Enters
  <1> HIDE DEF r, x, o, e
  <1>7. r \in Seq(Data) /\ x \in Seq(Data)
    BY <1>1, <1>6, DataParts DEF Passed
  <1>8. Payload(o) \o (r \o x) \in Legit
    BY <1>1, <1>6 DEF Passed, o
  <1>9. Served'
    BY <1>3, <1>4 DEF Served
  <1>10. Readable("front")' <=> Readable("front")
    BY DEF Readable, Enters
  <1>11. Reads'
    BY <1>10, ReadsKept DEF UInv, Enters
  <1>12. CASE kind = "http"
    <2>1. Out("back")' = o \o e
      BY <1>12 DEF o, e, r, Enters
    <2>2. Payload(o \o e) \o x = Payload(o) \o (r \o x)
      <3>1. o \in Seq(Unit)
        BY <1>2
      <3> QED
        BY <1>1, <1>7, <3>1, PayloadPacked DEF e
    <2>3. Passed'
      BY <1>5, <1>6, <1>7, <1>8, <2>1, <2>2 DEF Passed
    <2>4. OneZero(o \o e)
      <3>1. CASE r = <<>>
        <4>1. Len(o) > 2
          BY <1>12, <3>1 DEF Waiting, o, r
        <4>2. OneZero(o \o Encrypt(<<>>))
          BY <1>2, <1>12, <4>1, OneZeroLast
        <4> QED
          BY <3>1, <4>2 DEF e
      <3>2. CASE r # <<>>
        <4>1. e \in Seq(Unit)
          BY <1>1, EncryptUnits DEF e
        <4>2. NoZero(e)
          BY <1>7, <3>2, NoZeroPacket DEF e
        <4>3. OneZero(o)
          BY <1>2, NoZeroOne
        <4> QED
          BY <1>2, <4>1, <4>2, <4>3, OneZeroMore
      <3> QED
        BY <3>1, <3>2
    <2>5. OneZero(Out("back"))'
      BY <2>1, <2>4 DEF OneZero, Enters
    <2>6. Relaying'
      BY <1>9, <2>3 DEF Relaying, Enters
    <2> QED
      BY <1>11, <2>5, <2>6 DEF Uplink
  <1>13. CASE kind # "http"
    <2>1. Out("back")' = Out("back") /\ r = <<>>
      BY <1>4, <1>13 DEF Enters, r
    <2>2. r \o x = x
      BY <1>1, <2>1, ConcatEmptySeq
    <2>3. Passed'
      BY <1>5, <1>6, <1>7, <1>8, <2>1, <2>2 DEF Passed, o
    <2>4. OneZero(Out("back"))'
      BY <2>1, OneZeroKept DEF UInv, Enters
    <2>5. Relaying'
      BY <1>9, <2>3 DEF Relaying, Enters
    <2> QED
      BY <1>11, <2>4, <2>5 DEF Uplink
  <1> QED
    BY <1>12, <1>13

LEMMA UplinkResponse ==
    ASSUME UInv, HandleHandshakeResponse
    PROVE  OneZero(Out("back"))' /\ (open' => Reads' /\ Uplink')
  <1>1. /\ open /\ pc # "loop" /\ cur.conn = "back"
        /\ stage["back"] = "handshake"
        /\ UNCHANGED <<open, inq, todo, fin, kind, got>>
        /\ stage'["front"] = "streaming" /\ stage'["back"] = "streaming"
        /\ HandlerReturns(0)
    BY OtherFacts DEF HandleHandshakeResponse, HandlingRemote, ElsewhereSame
  <1>2. Waiting
    BY <1>1 DEF UInv, Uplink, Asking, Relaying
  <1>3. pc' = "loop" /\ batch' = batch /\ (cur' = cur \/ ~cur'.read)
    BY <1>1, HandlerReturnsDone DEF UInv
  <1>4. rxbuf'["front"] = IF kind = "http" THEN <<>> ELSE rxbuf["front"]
    BY OtherFacts DEF HandleHandshakeResponse, UInv, Typed, Sized, Streams
  <1>5. CASE kind = "http"
    <2>1. Forward("front", "back", Encrypt(rxbuf["front"]))
      BY <1>5 DEF HandleHandshakeResponse
    <2>2. Encrypt(rxbuf["front"]) \in Seq(Unit)
      BY EncryptUnits, OtherFacts DEF UInv, Typed, Sized, Streams
    <2>3. Out("back")' = Out("back") \o Encrypt(rxbuf["front"])
      BY <1>1, <2>1, <2>2, ForwardMoves, OtherFacts DEF UInv, Typed
    <2> QED
      BY <1>1, <1>2, <1>3, <1>4, <1>5, <2>3, UplinkEnters DEF Enters
  <1>6. CASE kind # "http"
    <2>1. outq'["back"] = outq["back"] /\ txbuf'["back"] = txbuf["back"]
      BY <1>6, OtherFacts
         DEF HandleHandshakeResponse, UInv, Typed, Sized, Streams
    <2>2. Out("back")' = Out("back")
      BY <1>1, <2>1 DEF Out
    <2> QED
      BY <1>1, <1>2, <1>3, <1>4, <1>6, <2>2, UplinkEnters DEF Enters
  <1> QED
    BY <1>5, <1>6

LEMMA UplinkStreamToClient ==
    ASSUME UInv, StreamToClient
    PROVE  OneZero(Out("back"))' /\ (open' => Reads' /\ Uplink')
  <1>1. /\ open /\ pc # "loop" /\ cur.conn = "back" /\ Decrypts(rxbuf["back"])
        /\ stage["back"] = "streaming"
        /\ UNCHANGED <<open, inq, todo, fin, kind, got, stage>>
        /\ rxbuf' = [rxbuf EXCEPT !["back"] = AfterPacket(rxbuf["back"])]
        /\ Forward("back", "front", Decrypted(rxbuf["back"]))
        /\ HandlerReturns(0) \/ UNCHANGED <<batch, cur, pc>>
    BY DEF StreamToClient, HandlingRemote, ElsewhereSame, loopVars
  <1>2. Decrypted(rxbuf["back"]) \in Seq(Unit)
    BY <1>1, DecryptFacts, OtherFacts DEF UInv, Typed, Sized, Streams
  <1>3. Out("back")' = Out("back")
    BY <1>1, <1>2, ForwardMoves, OtherFacts DEF UInv, Typed
  <1>4. /\ batch' = batch /\ (cur' = cur \/ ~cur'.read)
        /\ pc' # "loop" => cur'.read
    BY <1>1, HandlerReturnsDone DEF UInv, Reads
  <1>5. ~Reading
    BY <1>1, OtherFacts DEF Reading, IsRead
  <1>6. rxbuf'["front"] = rxbuf["front"]
    BY <1>1, OtherFacts DEF UInv, Typed, Sized, Streams
  <1>7. ~Asking
    BY <1>1 DEF Asking
  <1> QED
    BY <1>1, <1>3, <1>4, <1>5, <1>6, <1>7, UplinkAside

\* A failed send loses nothing: what it did not send stays in txbuf.
LEMMA UplinkSendFailure ==
    ASSUME UInv, SendFailureMasked
    PROVE  OneZero(Out("back"))' /\ (open' => Reads' /\ Uplink')
  <1>1. /\ open /\ pc # "loop" /\ cur.conn = "back" /\ Decrypts(rxbuf["back"])
        /\ UNCHANGED <<open, inq, todo, fin, kind, got, outq>>
        /\ stage' = [c \in Ends |-> "streaming"]
        /\ HandlerReturns(-1)
    BY DEF SendFailureMasked, HandlingRemote, sockVars
  <1>2. pc' = "loop" /\ batch' = batch /\ (cur' = cur \/ ~cur'.read)
    BY <1>1, HandlerReturnsDone DEF UInv
  <1>3. stage'["front"] = "streaming" /\ stage'["back"] = "streaming"
    BY <1>1, OtherFacts
  <1>4. Waiting \/ Relaying
    <2>1. ~Decrypts(<<>>)
      BY DEF Decrypts
    <2> QED
      BY <1>1, <2>1 DEF UInv, Uplink, Asking
  <1>5. CASE Relaying
    <2>1. stage["back"] = "streaming" /\ stage' = stage
      BY <1>1, <1>5 DEF Relaying, UInv, Typed, Sized, Ends
    <2>2. /\ rxbuf' = [rxbuf EXCEPT !["back"] = AfterPacket(rxbuf["back"])]
          /\ txbuf' = [txbuf EXCEPT !["front"] =
                         txbuf["front"] \o Decrypted(rxbuf["back"])]
      BY <2>1 DEF SendFailureMasked
    <2>3. rxbuf'["front"] = rxbuf["front"] /\ txbuf'["back"] = txbuf["back"]
      BY <2>2, OtherFacts DEF UInv, Typed, Sized, Streams
    <2>4. Out("back")' = Out("back")
      BY <1>1, <2>3 DEF Out
    <2>5. ~Reading
      BY <1>1, OtherFacts DEF Reading, IsRead
    <2>6. ~Asking
      BY <1>5 DEF Relaying, Asking
    <2> QED
      BY <1>1, <1>2, <2>1, <2>3, <2>4, <2>5, <2>6, UplinkAside
  <1>6. CASE Waiting
    <2>1. stage["back"] # "streaming"
      BY <1>6 DEF Waiting
    <2>2. CASE kind = "http"
      <3> DEFINE e == Encrypt(rxbuf["front"])
      <3>1. /\ rxbuf' = [c \in Ends |-> <<>>]
            /\ txbuf' = [txbuf EXCEPT !["back"] = txbuf["back"] \o e]
        BY <2>1, <2>2 DEF SendFailureMasked
      <3>2. rxbuf'["front"] = IF kind = "http" THEN <<>> ELSE rxbuf["front"]
        BY <2>2, <3>1, OtherFacts
      <3>3. e \in Seq(Unit)
        BY EncryptUnits, OtherFacts DEF UInv, Typed, Sized, Streams
      <3>4. Out("back")' = Out("back") \o e
        BY <1>1, <3>1, <3>3, TxbufGrows, OtherFacts DEF UInv, Typed
      <3> QED
        BY <1>1, <1>2, <1>3, <1>6, <2>2, <3>2, <3>4, UplinkEnters DEF Enters
    <2>3. CASE kind # "http"
      <3>1. /\ rxbuf' = [rxbuf EXCEPT !["back"] = <<>>]
            /\ txbuf' = [txbuf EXCEPT !["front"] = <<Established>>]
        BY <2>1, <2>3 DEF SendFailureMasked
      <3>2. rxbuf'["front"] = IF kind = "http" THEN <<>> ELSE rxbuf["front"]
        BY <2>3, <3>1, OtherFacts DEF UInv, Typed, Sized, Streams
      <3>3. txbuf'["back"] = txbuf["back"]
        BY <3>1, OtherFacts DEF UInv, Typed, Sized, Streams
      <3>4. Out("back")' = Out("back")
        BY <1>1, <3>3 DEF Out
      <3> QED
        BY <1>1, <1>2, <1>3, <1>6, <2>3, <3>2, <3>4, UplinkEnters DEF Enters
    <2> QED
      BY <2>2, <2>3
  <1> QED
    BY <1>4, <1>5, <1>6

\* Every action keeps the request.
LEMMA UplinkNext ==
    ASSUME Words, UInv, [Next]_localVars
    PROVE  OneZero(Out("back"))' /\ (open' => Reads' /\ Uplink')
  <1>1. CASE ConnectFails \/ (\E c \in Ends : Fails(c)) \/ (EventLoop /\ CloseOnEof)
    BY <1>1, UplinkGone
       DEF ConnectFails, Fails, CallFails, EventLoop, CloseOnEof
  <1>2. CASE UNCHANGED localVars
    <2>1. /\ UNCHANGED <<open, inq, todo, fin, stage, rxbuf, kind, batch, cur, pc>>
          /\ Out("front")' = Out("front") /\ Out("back")' = Out("back")
      BY <1>2 DEF localVars, vars, sockVars, connVars, loopVars, Out
    <2>2. /\ Readable("front")' <=> Readable("front")
          /\ In("front")' = In("front")
      BY <2>1 DEF Readable, In
    <2>3. open => Reads'
      BY <2>1, <2>2 DEF UInv, Reads, Reading, IsRead
    <2>4. open => Uplink'
      <3> SUFFICES ASSUME open PROVE Uplink'
        OBVIOUS
      <3>1. Uplink /\ Finds
        BY FindsData DEF UInv
      <3>2. Finds' /\ (Reading => Reading')
        BY <2>1, <2>2, <3>1 DEF Finds, Reading, IsRead
      <3> QED
        BY <2>1, <2>2, <3>1, <3>2, UplinkQuiet DEF Asking
    <2>5. OneZero(Out("back"))'
      BY <2>1, OneZeroKept DEF UInv
    <2> QED
      BY <2>1, <2>3, <2>4, <2>5
  <1>3. CASE \E c \in Ends : Deliver(c) \/ Drain(c) \/ Close(c)
    BY <1>3, UplinkNetwork
  <1>4. CASE EventLoop /\ ~CloseOnEof
    BY <1>4, UplinkLoop
  <1>5. CASE RecvFromClient \/ RecvFromRemote
    BY <1>5, UplinkRecvFromClient, UplinkRecvFromRemote
  <1>6. CASE HandleClientRequest \/ HandleHandshakeResponse
    BY <1>6, UplinkRequest, UplinkResponse
  <1>7. CASE StreamToRemote \/ StreamToClient
    BY <1>7, UplinkStream, UplinkStreamToClient
  <1>8. CASE WaitForMore \/ SendFailureMasked
    BY <1>8, UplinkWait, UplinkSendFailure
  <1>9. CASE \E c \in Ends : SendTo(c)
    BY <1>9, UplinkSendTo
  <1> QED
    BY <1>1, <1>2, <1>3, <1>4, <1>5, <1>6, <1>7, <1>8, <1>9 DEF Next, IoThread

LEMMA RequestConserved ==
    ASSUME Words
    PROVE  Spec => []UInv
  <1>1. Init => UInv
    BY InitTyped, UplinkStarts, NoZeroOne DEF UInv, Uplink
  <1>2. UInv /\ [Next]_localVars => UInv'
    <2> SUFFICES ASSUME UInv, [Next]_localVars PROVE UInv'
      OBVIOUS
    <2>1. Typed'
      BY NextTyped DEF UInv
    <2>2. OneZero(Out("back"))' /\ (open' => Reads' /\ Uplink')
      BY UplinkNext
    <2> QED
      BY <2>1, <2>2 DEF UInv
  <1> QED
    BY <1>1, <1>2, PTL DEF Spec

-----------------------------------------------------------------------------
(* What follows                                                            *)

\* What the application says reaches the remote-proxy behind the connect
\* request: complete, once, in order (recvfrom_client_cb and its handlers,
\* handle_handshake_response, sendto_remote_cb).  When the far ends speak does
\* not matter, nor in how many reads the request comes; of a CONNECT the first
\* read is not forwarded.
THEOREM UplinkSafe ==
    ASSUME Words
    PROVE  Spec => []UplinkConserved
  <1>1. ASSUME UInv
        PROVE  UplinkConserved
    <2> SUFFICES ASSUME open, stage["back"] # "none"
                 PROVE  Payload(Out("back")) \o rxbuf["front"] \o inq["front"]
                          \o todo["front"] \in Legit
      BY DEF UplinkConserved, Out, Sent, Legit
    <2> DEFINE p == Payload(Out("back"))
               r == rxbuf["front"]
               q == inq["front"]
               t == todo["front"]
    <2>1. p \in Seq(Unit)
      BY <1>1, PayloadType, InOutTyped, OtherFacts DEF UInv, Typed
    <2>2. r \in Seq(Unit) /\ q \in Seq(Unit) /\ t \in Seq(Unit)
      BY <1>1, OtherFacts DEF UInv, Typed, Sized, Streams
    <2>3. p \o ((r \o q) \o t) \in Legit
      BY <1>1 DEF UInv, Uplink, Asking, Waiting, Relaying, Passed, In
    <2> HIDE DEF p, r, q, t
    <2>4. \A u, v \in Seq(Unit) : (p \o u) \o v = p \o (u \o v)
      BY <2>1, Regroup
    <2>5. r \o q \in Seq(Unit)
      BY <2>2, ConcatProperties
    <2>6. ((p \o r) \o q) \o t = p \o ((r \o q) \o t)
      <3>1. (p \o r) \o q = p \o (r \o q)
        BY <2>2, <2>4, Zenon
      <3>2. (p \o (r \o q)) \o t = p \o ((r \o q) \o t)
        BY <2>2, <2>4, <2>5, Zenon
      <3> QED
        BY <3>1, <3>2
    <2> QED
      BY <2>3, <2>6 DEF p, r, q, t
  <1> QED
    BY <1>1, RequestConserved, PTL

\* handle_handshake_response sends one packet without data at most, and only
\* if stream_to_remote had forwarded some of a plain request before the reply;
\* nobody else sends one, whatever the far ends say when.
THEOREM EmptyPacketOnlyEarly ==
    ASSUME Words
    PROVE  Spec => []EmptyOnlyAfterEarly
  <1>1. ASSUME UInv
        PROVE  EmptyOnlyAfterEarly
    <2>1. OneZero(Sent)
      BY <1>1 DEF UInv, Out, Sent
    <2>2. Len(ConnectPacket) + 1 = 3
      BY ConnectFacts
    <2> QED
      BY <2>1, <2>2 DEF OneZero, EmptyOnlyAfterEarly
  <1> QED
    BY <1>1, RequestConserved, PTL

=============================================================================
