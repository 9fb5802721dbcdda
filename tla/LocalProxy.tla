----------------------------- MODULE LocalProxy -----------------------------
(***************************************************************************)
(* The callbacks of local-proxy.c for one pair: front is `client', the     *)
(* connection of an application, back is `remote', the connection to the   *)
(* remote-proxy.  The application speaks HTTP, the remote-proxy packets.   *)
(* The first unit of a request's head holds its first line, which is all   *)
(* that handle_client_request needs: how it is parsed is another module's  *)
(* matter.  The rest of the head may come in later reads.                  *)
(***************************************************************************)
EXTENDS Relay, Integers

CONSTANTS
    HeadLen,  \* units of UpData that are the request's head
    Eager     \* ends that may say more than they must before they are
              \* answered: "front" follows a plain request with its body at
              \* once, a site behind CONNECT speaks first, "back" passes it on

ASSUME HeadAssumption == HeadLen \in 1 .. Len(UpData)
ASSUME EagerAssumption == Eager \subseteq Ends

VARIABLES
    kind,  \* what the application asks for: "http" or "https" (CONNECT)
    ret,   \* ret of recvfrom_remote_cb
    eager  \* the ends that do, for as long as the pair lives

localVars == <<vars, kind, ret, eager>>

Connect == <<"data", "connect">>
Reply == <<"data", "reply">>
Established == <<"data", "200">>

ASSUME ValuesAssumption == {"connect", "reply", "200"} \subseteq Values

ConnectPacket == Encrypt(<<Connect>>)

Init ==
    /\ RelayInit
    /\ kind \in {"http", "https"}
    /\ ret = -1
    /\ eager \in SUBSET Eager

\* The application sends the head of its request and, unless it is eager,
\* waits for an answer before it goes on; the remote-proxy answers the
\* handshake, and the site behind it the request.
MaySend(c) ==
    \/ /\ c = "front"
       /\ \/ "front" \in eager /\ kind = "http"
          \/ Len(todo[c]) > Len(UpData) - HeadLen
          \/ got[c] # <<>>
    \/ /\ c = "back"
       /\ Len(got[c]) >= Len(ConnectPacket)
       /\ \/ "back" \in eager /\ kind = "https"
          \/ Len(todo[c]) > Len(DownData) - Len(Encrypt(<<Reply>>))
          \/ Len(got[c]) > Len(ConnectPacket)

Deliver(c) == MaySend(c) /\ Arrive(c) /\ UNCHANGED <<kind, ret, eager>>
Drain(c) == Fetch(c) /\ UNCHANGED <<kind, ret, eager>>
Close(c) == Finish(c) /\ UNCHANGED <<kind, ret, eager>>

\* Nothing but the interest and the buffers below change in most callbacks.
ElsewhereSame == UNCHANGED <<open, fin, todo, got, kind>>

-----------------------------------------------------------------------------
(* recvfrom_client_cb                                                      *)

RecvFromClient ==
    /\ Receiving("front")
    /\ UNCHANGED <<kind, ret>>
    /\ IF inq["front"] = <<>> /\ "front" \in fin THEN HandleError
       ELSE /\ TakeReceived("front")
            /\ rxbuf' = [rxbuf EXCEPT !["front"] =
                           @ \o SubSeq(inq["front"], 1, Received("front"))]
            /\ pc' = IF Received("front") < RecvMax THEN "handle" ELSE "loop"
            /\ UNCHANGED <<open, outq, fin, todo, got, stage, txbuf, pollVars,
                           batch, cur>>

\* A mutation of RequestKept: rxbuf is always reset.
RequestDropped == FALSE

\* Whether the request stays in rxbuf until the reply.
RequestKept == kind = "http"

\* handle_client_request: connect to the remote-proxy and ask it to connect
\* to the site.  What has been read of the request is kept only for http, and
\* what is read from now on is streamed, before the reply too.
HandleClientRequest ==
    /\ Handling("front")
    /\ stage["front"] = "handshake"
    /\ UNCHANGED <<inq, ret>> /\ ElsewhereSame
    /\ LET all == txbuf["back"] \o ConnectPacket
           n == Least(Len(all), SndBuf - Len(outq["back"]))
           sent == n = Len(all)
       IN  /\ outq' = [outq EXCEPT !["back"] = @ \o SubSeq(all, 1, n)]
           /\ txbuf' = [txbuf EXCEPT !["back"] = Unsent(all, n)]
           /\ stage' = [front |-> IF sent THEN "streaming" ELSE "handshake",
                        back |-> "handshake"]
           /\ mask' = IF sent THEN [mask EXCEPT !["back"] = WatchMask]
                      ELSE [front |-> UnwatchReadMask(mask["front"]),
                            back |-> WatchWriteMask(WatchMask)]
    /\ rxbuf' = [rxbuf EXCEPT !["front"] = IF RequestKept THEN @ ELSE <<>>]
    /\ Rearm({c \in Ends : mask'[c] # mask[c]})
    /\ RecvReturns

\* The remote-proxy is out of reach.
ConnectFails ==
    /\ Failing
    /\ Handling("front")
    /\ stage["front"] = "handshake"
    /\ HandleError /\ UNCHANGED <<kind, ret>>

\* stream_to_remote: all of rxbuf, nothing included, becomes one packet.
StreamToRemote ==
    /\ Handling("front")
    /\ stage["front"] = "streaming"
    /\ UNCHANGED <<inq, stage, ret>> /\ ElsewhereSame
    /\ rxbuf' = [rxbuf EXCEPT !["front"] = <<>>]
    /\ Forward("front", "back", Encrypt(rxbuf["front"]))
    /\ RecvReturns

-----------------------------------------------------------------------------
(* recvfrom_remote_cb: what was read is handled after every recv; "again"  *)
(* stands for "handle" when the read was full and recv is called again.    *)
(* ret is what the last handler returned, -1 before the first.             *)

HandlingRemote == open /\ pc \in {"handle", "again"} /\ cur.conn = "back"

\* A handler returns r: recv again, or return r (0 here) to the event loop.
HandlerReturns(r) ==
    IF pc = "again" THEN pc' = "loop" /\ ret' = r /\ UNCHANGED <<batch, cur>>
    ELSE RecvReturns /\ ret' = -1

\* recv has nothing more: the callback returns ret.
RecvFromRemote ==
    /\ Receiving("back")
    /\ UNCHANGED kind
    /\ IF inq["back"] = <<>> THEN
          IF "back" \in fin \/ ret # 0 THEN HandleError /\ ret' = -1
          ELSE /\ RecvReturns /\ ret' = -1
               /\ UNCHANGED <<open, sockVars, connVars, pollVars>>
       ELSE /\ TakeReceived("back")
            /\ rxbuf' = [rxbuf EXCEPT !["back"] =
                           @ \o SubSeq(inq["back"], 1, Received("back"))]
            /\ pc' = IF Received("back") < RecvMax THEN "handle" ELSE "again"
            /\ UNCHANGED <<open, outq, fin, todo, got, stage, txbuf, pollVars,
                           batch, cur, ret>>

\* No complete packet: both handlers return 0.
WaitForMore ==
    /\ HandlingRemote
    /\ ~Decrypts(rxbuf["back"])
    /\ HandlerReturns(0)
    /\ UNCHANGED <<open, sockVars, connVars, pollVars, kind>>

\* handle_handshake_response: drop rxbuf, then forward the http request that
\* waits in the client's rxbuf, or tell the application it may go on.
HandleHandshakeResponse ==
    /\ HandlingRemote
    /\ stage["back"] = "handshake"
    /\ Decrypts(rxbuf["back"])
    /\ UNCHANGED inq /\ ElsewhereSame
    /\ stage' = [c \in Ends |-> "streaming"]
    /\ IF kind = "http"
       THEN /\ rxbuf' = [c \in Ends |-> <<>>]
            /\ Forward("front", "back", Encrypt(rxbuf["front"]))
       ELSE LET n == Least(1, SndBuf - Len(outq["front"]))
            IN  /\ rxbuf' = [rxbuf EXCEPT !["back"] = <<>>]
                /\ outq' = [outq EXCEPT !["front"] =
                              IF n > 0 THEN Append(@, Established) ELSE @]
                /\ txbuf' = [txbuf EXCEPT !["front"] =
                               IF n > 0 THEN <<>> ELSE <<Established>>]
                /\ mask' = IF n > 0 THEN mask
                           ELSE [front |-> WatchWriteMask(mask["front"]),
                                 back |-> UnwatchReadMask(mask["back"])]
                /\ Rearm({c \in Ends : mask'[c] # mask[c]})
    /\ HandlerReturns(0)

\* stream_to_client, one packet: go on with the next one unless it blocked.
StreamToClient ==
    /\ HandlingRemote
    /\ stage["back"] = "streaming"
    /\ Decrypts(rxbuf["back"])
    /\ UNCHANGED <<inq, stage>> /\ ElsewhereSame
    /\ rxbuf' = [rxbuf EXCEPT !["back"] = AfterPacket(@)]
    /\ Forward("back", "front", Decrypted(rxbuf["back"]))
    /\ IF Blocks("front", Decrypted(rxbuf["back"])) THEN HandlerReturns(0)
       ELSE UNCHANGED <<loopVars, ret>>

\* A handler returns -1 because send failed: nothing of what it appended was
\* sent.  After a full read recv is called again, and the -1 is forgotten if
\* there is more to handle.
SendFailureMasked ==
    /\ Failing
    /\ HandlingRemote /\ pc = "again"
    /\ Decrypts(rxbuf["back"])
    /\ stage' = [c \in Ends |-> "streaming"]
    /\ IF stage["back"] = "streaming"
       THEN /\ rxbuf' = [rxbuf EXCEPT !["back"] = AfterPacket(@)]
            /\ txbuf' = [txbuf EXCEPT !["front"] =
                            @ \o Decrypted(rxbuf["back"])]
       ELSE IF kind = "http"
       THEN /\ rxbuf' = [c \in Ends |-> <<>>]
            /\ txbuf' = [txbuf EXCEPT !["back"] = @ \o Encrypt(rxbuf["front"])]
       ELSE /\ rxbuf' = [rxbuf EXCEPT !["back"] = <<>>]
            /\ txbuf' = [txbuf EXCEPT !["front"] = <<Established>>]
    /\ HandlerReturns(-1)
    /\ UNCHANGED <<open, sockVars, pollVars, kind>>

-----------------------------------------------------------------------------
(* sendto_client_cb and sendto_remote_cb, the same code twice: watching is *)
(* switched back to reading when something is left to send.                *)
SendTo(c) ==
    LET n == Least(Len(txbuf[c]), SndBuf - Len(outq[c]))
    IN  /\ Sending(c)
        /\ UNCHANGED <<inq, stage, rxbuf, ret>> /\ ElsewhereSame
        /\ outq' = [outq EXCEPT ![c] = @ \o SubSeq(txbuf[c], 1, n)]
        /\ txbuf' = [txbuf EXCEPT ![c] = Unsent(@, n)]
        /\ IF n > 0 /\ n < Len(txbuf[c])
           THEN /\ mask' = [mask EXCEPT ![c] = UnwatchWriteMask(@),
                                        ![Other(c)] = WatchReadMask(@)]
                /\ Rearm(Ends)
           ELSE UNCHANGED pollVars
        /\ SendReturns

\* recv, send or a handler fails, or send() of nothing returns 0 while errno
\* still holds an earlier error.
Fails(c) == CallFails(c) /\ ret' = -1 /\ UNCHANGED kind

-----------------------------------------------------------------------------
EventLoop ==
    (PollerWait \/ NextEvent \/ CloseOnEof) /\ UNCHANGED <<kind, ret>>

IoThread ==
    /\ \/ EventLoop
       \/ RecvFromClient \/ HandleClientRequest \/ ConnectFails
       \/ StreamToRemote \/ RecvFromRemote \/ WaitForMore
       \/ HandleHandshakeResponse \/ StreamToClient \/ SendFailureMasked
       \/ \E c \in Ends : SendTo(c) \/ Fails(c)
    /\ UNCHANGED eager

Next ==
    \/ IoThread
    \/ \E c \in Ends : Deliver(c) \/ Drain(c) \/ Close(c)

Spec == Init /\ [][Next]_localVars

\* The thread is scheduled, the network delivers and the far ends read.
FairSpec ==
    /\ Spec
    /\ WF_localVars(IoThread)
    /\ \A c \in Ends : WF_localVars(Deliver(c)) /\ WF_localVars(Drain(c))

-----------------------------------------------------------------------------
(* Correctness                                                             *)

\* Type correctness.
TypeOK ==
    /\ open \in BOOLEAN
    /\ stage \in [Ends -> {"none", "handshake", "streaming"}]
    /\ mask \in [Ends -> SUBSET Kinds]
    /\ armed \in SUBSET Ends /\ fin \in SUBSET Ends
    /\ batch \subseteq LiveEvent /\ cur \in LiveEvent \cup {NoEvent}
    /\ pc \in {"loop", "handle", "again"} /\ ret \in {0, -1}
    /\ eager \subseteq Eager
    /\ \A c \in Ends : Len(inq[c]) <= RcvBuf /\ Len(outq[c]) <= SndBuf

\* What may be forwarded: a plain request as a whole.  Of a CONNECT what was
\* read together with its first line stays here; the rest of the head, if it
\* comes later, is forwarded to the site.
Forwarded ==
    IF kind = "http" THEN {UpData}
    ELSE {SubSeq(UpData, k + 1, Len(UpData)) : k \in 1 .. HeadLen}

\* What the far ends are expected to say: the application data, all of the
\* head at once, the remote-proxy packets, the first of which is the reply.
Protocol ==
    /\ HeadLen = 1
    /\ UpData \in Seq(Data)
    /\ Decrypts(DownData) /\ Decrypted(DownData) = <<Reply>>
    /\ Packets(DownData)

\* What was given to the socket of the remote-proxy, or is about to be.
Sent == got["back"] \o outq["back"] \o txbuf["back"]

\* Nothing the application sends is lost, repeated or reordered on its way
\* to the remote-proxy, and it comes after the connect request, however early
\* it says it.
UplinkConserved ==
    open /\ stage["back"] # "none" =>
        Payload(Sent) \o rxbuf["front"] \o inq["front"] \o todo["front"]
          \in {<<Connect>> \o s : s \in Forwarded}

\* Nothing the site sends is lost, repeated or reordered on its way to the
\* application; only a CONNECT is answered by the local-proxy itself.  If the
\* ends wait, that is: what is read together with the reply is lost, and a
\* request that was forwarded early may be answered that early.
DownlinkConserved ==
    eager = {} /\ open /\ stage["back"] = "streaming" =>
        got["front"] \o outq["front"] \o txbuf["front"]
          \o Payload(rxbuf["back"] \o inq["back"] \o todo["back"])
        = (IF kind = "https" THEN <<Established>> ELSE <<>>)
             \o Tail(Payload(DownData))

\* A packet without data stops the remote-proxy for good: its decrypt takes
\* it for an incomplete one and never gets past it.  The local-proxy does send
\* one, when the reply comes and nothing of the request is left to forward;
\* but one only, only of a plain request, and only if something of it had
\* already been forwarded before the reply.
EmptyOnlyAfterEarly ==
    LET empty == {i \in 1 .. Len(Sent) : Sent[i] = Len4(0)}
    IN  \A i \in empty :
           empty = {i} /\ kind = "http" /\ i > Len(ConnectPacket) + 1

\* The application gets its answer: a CONNECT is confirmed, the request of
\* plain http reaches the remote-proxy.  If the ends wait: a body that comes
\* early may block, and the rest of what blocks is never sent (SendTo).
RequestServed ==
    eager = {} => <>(~open \/ IF kind = "https" THEN got["front"] # <<>>
                ELSE \E i \in 1 .. Len(got["back"]) :
                        got["back"][i] = UpData[1])

\* What the site says reaches the application.
DownlinkDelivered ==
    <>(~open \/ got["front"] =
          (IF kind = "https" THEN <<Established>> ELSE <<>>)
             \o Tail(Payload(DownData)))
=============================================================================
