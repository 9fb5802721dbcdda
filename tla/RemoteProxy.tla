---------------------------- MODULE RemoteProxy ----------------------------
(***************************************************************************)
(* The callbacks of remote-proxy.c for one pair: front is `local', the     *)
(* connection of a local-proxy, back is `server', the connection to the    *)
(* site.  Packets come in from local and leave as plain data to the        *)
(* server; what the server says is packed and goes back to local.          *)
(***************************************************************************)
EXTENDS Relay

CONSTANT Eager   \* TRUE: the local-proxy sends on before the reply is back

ASSUME EagerAssumption == Eager \in BOOLEAN
ASSUME ValuesAssumption == {"request", "reply"} \subseteq Values

Request == <<"data", "request">>
Reply == <<"data", "reply">>

Init == RelayInit

\* A patient local-proxy waits for the whole reply before it goes on.
MaySend(c) ==
    \/ c = "back" \/ Eager
    \/ Len(todo[c]) > Len(UpData) - Len(Encrypt(<<Request>>))
    \/ Len(got[c]) >= Len(Encrypt(<<Reply>>))

Deliver(c) == MaySend(c) /\ Arrive(c)

-----------------------------------------------------------------------------
(* recvfrom_local_cb                                                       *)

\* The recv loop: a full read asks for another one.
RecvFromLocal ==
    /\ Receiving("front")
    /\ IF inq["front"] = <<>> /\ "front" \in fin THEN HandleError
       ELSE /\ TakeReceived("front")
            /\ rxbuf' = [rxbuf EXCEPT !["front"] =
                           @ \o SubSeq(inq["front"], 1, Received("front"))]
            /\ pc' = IF Received("front") < RecvMax THEN "handle" ELSE "loop"
            /\ UNCHANGED <<open, outq, fin, todo, got, stage, txbuf, pollVars,
                           batch, cur>>

\* A callback that has no complete packet at hand returns 0.
WaitForMore ==
    /\ Handling("front")
    /\ ~Decrypts(rxbuf["front"])
    /\ RecvReturns
    /\ UNCHANGED <<open, sockVars, connVars, pollVars>>

\* handle_handshake_request: connect to the server, drop the whole rxbuf and
\* answer.  The stage only advances when some of the answer was sent.
HandleHandshakeRequest ==
    /\ Handling("front")
    /\ stage["front"] = "handshake"
    /\ Decrypts(rxbuf["front"])
    /\ UNCHANGED <<open, inq, fin, todo, got>>
    /\ LET all == txbuf["front"] \o Encrypt(<<Reply>>)
           n == Least(Len(all), SndBuf - Len(outq["front"]))
       IN  /\ outq' = [outq EXCEPT !["front"] = @ \o SubSeq(all, 1, n)]
           /\ rxbuf' = [rxbuf EXCEPT !["front"] = <<>>]
           /\ txbuf' = [txbuf EXCEPT !["front"] = IF n > 0 THEN <<>> ELSE all]
           /\ stage' = [c \in Ends |->
                           IF n > 0 THEN "streaming" ELSE "handshake"]
           /\ mask' = IF n > 0 THEN [mask EXCEPT !["back"] = WatchMask]
                      ELSE [mask EXCEPT !["front"] = WatchWriteMask(@),
                                        !["back"] = UnwatchReadMask(WatchMask)]
    /\ Rearm({c \in Ends : mask'[c] # mask[c]})
    /\ RecvReturns

\* The server cannot be reached, or the request names no known address type.
ConnectFails ==
    /\ Failing
    /\ Handling("front")
    /\ stage["front"] = "handshake"
    /\ Decrypts(rxbuf["front"])
    /\ HandleError

\* stream_to_server, one packet: go on with the next one unless it blocked.
StreamToServer ==
    /\ Handling("front")
    /\ stage["front"] = "streaming"
    /\ Decrypts(rxbuf["front"])
    /\ UNCHANGED <<open, inq, fin, todo, got, stage>>
    /\ rxbuf' = [rxbuf EXCEPT !["front"] = AfterPacket(@)]
    /\ Forward("front", "back", Decrypted(rxbuf["front"]))
    /\ IF Blocks("back", Decrypted(rxbuf["front"])) THEN RecvReturns
       ELSE UNCHANGED loopVars

-----------------------------------------------------------------------------
(* recvfrom_server_cb, sendto_local_cb and sendto_server_cb                *)

\* recv and, if there was data, encrypt it and send it to local at once.
RecvFromServer ==
    /\ Receiving("back")
    /\ IF inq["back"] = <<>> THEN
          IF "back" \in fin THEN HandleError
          ELSE RecvReturns /\ UNCHANGED <<open, sockVars, connVars, pollVars>>
       ELSE LET packet == Encrypt(SubSeq(inq["back"], 1, Received("back")))
            IN  /\ TakeReceived("back")
                /\ UNCHANGED <<open, fin, todo, got, stage, rxbuf>>
                /\ Forward("back", "front", packet)
                /\ IF Blocks("front", packet) THEN RecvReturns
                   ELSE UNCHANGED loopVars

\* Mutations of Resumes: after any progress, and as in local-proxy.c.
ResumesTooSoon(c, n) == n > 0
ResumesOnPartial(c, n) == n > 0 /\ n < Len(txbuf[c])

\* When sending n units lets reading from the peer of c go on.
Resumes(c, n) == n > 0 /\ n = Len(txbuf[c])

\* sendto_local_cb and sendto_server_cb are the same code: flush, and once
\* everything is sent resume reading from the peer.  (Were there nothing to
\* send, the 0 of send() would be taken for an error if errno says so:
\* CallFails.)
SendTo(c) ==
    LET n == Least(Len(txbuf[c]), SndBuf - Len(outq[c]))
    IN  /\ Sending(c)
        /\ UNCHANGED <<open, inq, fin, todo, got, stage, rxbuf>>
        /\ outq' = [outq EXCEPT ![c] = @ \o SubSeq(txbuf[c], 1, n)]
        /\ txbuf' = [txbuf EXCEPT ![c] = Unsent(@, n)]
        /\ IF Resumes(c, n)
           THEN /\ mask' = [mask EXCEPT ![c] = UnwatchWriteMask(@),
                                        ![Other(c)] = WatchReadMask(@)]
                /\ Rearm(Ends)
           ELSE UNCHANGED pollVars
        /\ SendReturns

-----------------------------------------------------------------------------
IoThread ==
    \/ PollerWait \/ NextEvent \/ CloseOnEof
    \/ RecvFromLocal \/ WaitForMore \/ HandleHandshakeRequest \/ ConnectFails
    \/ StreamToServer \/ RecvFromServer
    \/ \E c \in Ends : SendTo(c) \/ CallFails(c)

Next ==
    \/ IoThread
    \/ \E c \in Ends : Deliver(c) \/ Fetch(c) \/ Finish(c)

Spec == Init /\ [][Next]_vars

\* The thread is scheduled, the network delivers and the far ends read.
FairSpec ==
    /\ Spec
    /\ WF_vars(IoThread)
    /\ \A c \in Ends : WF_vars(Deliver(c)) /\ WF_vars(Fetch(c))

-----------------------------------------------------------------------------
(* Correctness                                                             *)

\* Type correctness.
TypeOK ==
    /\ open \in BOOLEAN
    /\ stage \in [Ends -> {"none", "handshake", "streaming"}]
    /\ mask \in [Ends -> SUBSET Kinds]
    /\ armed \in SUBSET Ends /\ fin \in SUBSET Ends
    /\ batch \subseteq LiveEvent /\ cur \in LiveEvent \cup {NoEvent}
    /\ pc \in {"loop", "handle"}
    /\ \A c \in Ends : Len(inq[c]) <= RcvBuf /\ Len(outq[c]) <= SndBuf

\* Nothing the local-proxy sends is lost, repeated or reordered on its way
\* to the server, however the stream is cut into reads and partial sends.
UplinkConserved ==
    open /\ stage["front"] = "streaming" =>
        got["back"] \o outq["back"] \o txbuf["back"]
          \o Payload(rxbuf["front"] \o inq["front"] \o todo["front"])
        = Tail(Payload(UpData))

\* Nothing the server sends is lost, repeated or reordered on its way to the
\* local-proxy, and it follows the reply.
DownlinkConserved ==
    open /\ stage["front"] = "streaming" =>
        Payload(got["front"] \o outq["front"] \o txbuf["front"])
          \o rxbuf["back"] \o inq["back"] \o todo["back"]
        = <<Reply>> \o DownData

\* What the far ends are expected to say: a patient local-proxy asks for a
\* connection and goes on with packets, the server sends plain data.
Protocol ==
    /\ ~Eager
    /\ Decrypts(UpData) /\ Decrypted(UpData) = <<Request>>
    /\ Packets(UpData) /\ DownData \in Seq(Data)

\* The streams stay in step with the packet format: what local receives is a
\* sequence of whole packets, and rxbuf of local starts with a length.
Framed ==
    open => /\ Packets(got["front"] \o outq["front"] \o txbuf["front"])
            /\ Packets(rxbuf["front"] \o inq["front"] \o todo["front"])

\* Back pressure (kqueue): as long as output is pending for one side, that
\* side is watched for write and its peer is not read; when nothing is
\* pending reading goes on.  Else the pair would stall or buffer forever.
PausedWhilePending ==
    open /\ pc = "loop" /\ stage["back"] # "none" => \A c \in Ends :
        (txbuf[c] # <<>>) = ("out" \in mask[c])
          /\ (txbuf[c] # <<>>) = ("in" \notin mask[Other(c)])

\* send_cb always finds something to send.
NoEmptySend == \A c \in Ends : Sending(c) => txbuf[c] # <<>>

\* What is buffered in the process for a slow reader is at most one packet.
BoundedOutput ==
    open => Len(txbuf["front"]) <= RecvMax + 1

\* The server's answer reaches the local-proxy.
DownlinkDelivered == <>(~open \/ Payload(got["front"]) = <<Reply>> \o DownData)

\* What the local-proxy sends reaches the server.
UplinkDelivered == <>(~open \/ got["back"] = Tail(Payload(UpData)))
=============================================================================
