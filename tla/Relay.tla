------------------------------- MODULE Relay -------------------------------
(***************************************************************************)
(* What local-proxy.c and remote-proxy.c share: one pair of peer           *)
(* connections -- "front", the accepted one, and "back", the one opened    *)
(* during the handshake -- their kernel sockets, their registration with   *)
(* the poller and the I/O thread that serves them.  RemoteProxy and        *)
(* LocalProxy add the callbacks.                                           *)
(*                                                                         *)
(* Bytes come as units: <<"data", v>> stands for some payload bytes and    *)
(* <<"len", n>> for the 4-byte length that precedes n payload units in a   *)
(* packet of encrypt_cfb.  A kernel buffer is a bounded FIFO of units.     *)
(***************************************************************************)
EXTENDS Naturals, Sequences, Poller

CONSTANTS
    Values,    \* payloads that are told apart
    SndBuf,    \* units a socket's send buffer holds
    RcvBuf,    \* units a socket's receive buffer holds
    RecvMax,   \* units one recv() returns at most (BUFF_SIZE - 1)
    Failing,   \* TRUE: connect, recv and send may fail
    UpData,    \* what the far end of front has to say
    DownData   \* what the far end of back has to say

\* A handshake packet fits an empty send buffer: both proxies forget the
\* rest of a handshake answer that was sent in part.
ASSUME BufferAssumption ==
    SndBuf \in Nat \ {0, 1} /\ RcvBuf \in Nat \ {0} /\ RecvMax \in Nat \ {0}
ASSUME FailingAssumption == Failing \in BOOLEAN

Unit == ({"data"} \X Values) \cup ({"len"} \X Nat)

ASSUME DataAssumption == UpData \in Seq(Unit) /\ DownData \in Seq(Unit)

VARIABLES
    open,    \* FALSE once handle_error freed the pair
    stage,   \* tcp_conn->stage, "none" before the connection exists
    rxbuf,   \* received, not yet handled
    txbuf,   \* accepted from the peer, not yet sent
    mask,    \* interest registered with the poller
    armed,   \* epoll: connections in the edge-triggered ready list
    inq,     \* the socket's receive buffer
    outq,    \* the socket's send buffer
    fin,     \* far ends that closed their side
    todo,    \* what each far end will still send
    got,     \* what each far end has received
    batch,   \* events collected by poller_wait, still to be handled
    cur,     \* the event being handled, or NoEvent
    pc       \* "loop": in _io_thread or a recv loop, "handle": after it

sockVars == <<inq, outq, fin, todo, got>>
connVars == <<stage, rxbuf, txbuf>>
pollVars == <<mask, armed>>
loopVars == <<batch, cur, pc>>
vars == <<open, sockVars, connVars, pollVars, loopVars>>

Ends == {"front", "back"}
Other(c) == IF c = "front" THEN "back" ELSE "front"

Len4(n) == <<"len", n>>
IsData(u) == u[1] = "data"

\* The elements of s that are in S, in order: SelectSeq, for a set.
Keep(s, S) ==
    LET kept[n \in 0 .. Len(s)] ==
            IF n = 0 THEN <<>>
            ELSE IF s[n] \in S THEN Append(kept[n - 1], s[n])
            ELSE kept[n - 1]
    IN  kept[Len(s)]

Data == {"data"} \X Values
Payload(s) == Keep(s, Data)

\* encrypt_cfb: the length, encrypted, and the data.
Encrypt(s) == <<Len4(Len(s))>> \o s

\* decrypt_cfb returns a positive length: the packet at the head of s is
\* complete.  A packet that announces no data returns 0, like an incomplete
\* one.
Decrypts(s) == s # <<>> /\ s[1][1] = "len" /\ s[1][2] \in 1 .. Len(s) - 1
Decrypted(s) == SubSeq(s, 2, s[1][2] + 1)

\* A mutation of AfterPacket: the four bytes of the length are not counted.
AfterPacketShort(s) == SubSeq(s, s[1][2] + 1, Len(s))

AfterPacket(s) == SubSeq(s, s[1][2] + 2, Len(s))

\* s is cut into packets: every length is followed by exactly that much data
\* (the last packet may still be on its way).
Packets(s) ==
    /\ s # <<>> => ~IsData(s[1])
    /\ \A i \in 1 .. Len(s) : ~IsData(s[i]) =>
          \A j \in i + 1 .. Len(s) :
             /\ j <= i + s[i][2] => IsData(s[j])
             /\ j = i + s[i][2] + 1 => ~IsData(s[j])

\* Mutations of Unsent: reset_txbuf after a partial send, and an off-by-one.
UnsentReset(s, n) == <<>>
UnsentSkips(s, n) == SubSeq(s, n + 2, Len(s))

\* move_txbuf: what is left of s after n units were sent.
Unsent(s, n) == SubSeq(s, n + 1, Len(s))

Event == [conn : Ends, read : BOOLEAN, write : BOOLEAN, eof : BOOLEAN]
LiveEvent == {e \in Event : e.read \/ e.write \/ e.eof}
NoEvent == [conn |-> "front", read |-> FALSE, write |-> FALSE, eof |-> FALSE]

\* A mutation of Remaining: a served event is not dropped.
RemainingKept(e) == e

\* A mutation of Remaining: a hang-up is only looked at in a read or write.
RemainingNoEof(e) == IF e.read \/ e.write THEN e ELSE NoEvent

\* What is left of event e: NoEvent once every flag of it is served.
Remaining(e) == IF e.read \/ e.write \/ e.eof THEN e ELSE NoEvent

Least(m, n) == IF m < n THEN m ELSE n

RelayInit ==
    /\ open = TRUE
    /\ stage = [c \in Ends |-> IF c = "front" THEN "handshake" ELSE "none"]
    /\ rxbuf = [c \in Ends |-> <<>>]
    /\ txbuf = [c \in Ends |-> <<>>]
    /\ mask = [c \in Ends |-> IF c = "front" THEN WatchMask ELSE {}]
    /\ armed = {}
    /\ inq = [c \in Ends |-> <<>>]
    /\ outq = [c \in Ends |-> <<>>]
    /\ fin = {}
    /\ todo = [c \in Ends |-> IF c = "front" THEN UpData ELSE DownData]
    /\ got = [c \in Ends |-> <<>>]
    /\ batch = {}
    /\ cur = NoEvent
    /\ pc = "loop"

-----------------------------------------------------------------------------
(* The poller                                                              *)

Readable(c) == inq[c] # <<>> \/ c \in fin
Writable(c) == Len(outq[c]) < SndBuf

\* epoll_wait would have something to tell about c; EPOLLRDHUP is in every
\* mask.
Interesting(c) ==
    \/ "in" \in mask[c] /\ Readable(c)
    \/ "out" \in mask[c] /\ Writable(c)
    \/ c \in fin

\* EPOLL_CTL_ADD and EPOLL_CTL_MOD look at the descriptor as it is now.
Rearm(S) ==
    armed' = IF Backend = "epoll" THEN armed \cup {c \in S : Interesting(c)'}
             ELSE armed

\* A wake-up from the network adds c to the ready list if its mask asks.
Wake(c, asked) ==
    armed' = IF Backend = "epoll" /\ asked THEN armed \cup {c} ELSE armed

EpollEvents ==
    {[conn |-> c,
      read |-> "in" \in mask[c] /\ Readable(c),
      write |-> "out" \in mask[c] /\ Writable(c),
      eof |-> c \in fin] : c \in {d \in armed : Interesting(d)}}

\* Level triggered, one event per enabled filter; EV_EOF hides the data.
KqueueEvents ==
    {[conn |-> c, read |-> c \notin fin, write |-> FALSE, eof |-> c \in fin] :
        c \in {d \in Ends : "in" \in mask[d] /\ Readable(d)}}
    \cup
    {[conn |-> c, read |-> FALSE, write |-> TRUE, eof |-> FALSE] :
        c \in {d \in Ends : "out" \in mask[d] /\ Writable(d)}}

PollerWait ==
    /\ open /\ pc = "loop" /\ cur = NoEvent /\ batch = {}
    /\ batch' = IF Backend = "epoll" THEN EpollEvents ELSE KqueueEvents
    /\ batch' # {} \/ armed # {}
    /\ armed' = {}
    /\ UNCHANGED <<open, sockVars, connVars, mask, cur, pc>>

NextEvent ==
    /\ open /\ pc = "loop" /\ cur = NoEvent
    /\ \E e \in batch : cur' = e /\ batch' = batch \ {e}
    /\ UNCHANGED <<open, sockVars, connVars, pollVars, pc>>

-----------------------------------------------------------------------------
(* The far ends and the network                                            *)

\* Some more of what the far end of c sends reaches the socket.
Arrive(c) ==
    /\ open /\ stage[c] # "none"
    /\ todo[c] # <<>> /\ Len(inq[c]) < RcvBuf
    /\ inq' = [inq EXCEPT ![c] = Append(@, Head(todo[c]))]
    /\ todo' = [todo EXCEPT ![c] = Tail(@)]
    /\ Wake(c, "in" \in mask[c])
    /\ UNCHANGED <<open, outq, fin, got, connVars, mask, loopVars>>

\* The far end of c reads, which frees space in the send buffer.
Fetch(c) ==
    /\ open /\ outq[c] # <<>>
    /\ got' = [got EXCEPT ![c] = Append(@, Head(outq[c]))]
    /\ outq' = [outq EXCEPT ![c] = Tail(@)]
    /\ Wake(c, "out" \in mask[c])
    /\ UNCHANGED <<open, inq, fin, todo, connVars, mask, loopVars>>

\* The far end of c has said everything and closes.
Finish(c) ==
    /\ open /\ stage[c] # "none" /\ c \notin fin /\ todo[c] = <<>>
    /\ fin' = fin \cup {c}
    /\ Wake(c, TRUE)
    /\ UNCHANGED <<open, inq, outq, todo, got, connVars, mask, loopVars>>

-----------------------------------------------------------------------------
(* Steps of the callbacks                                                  *)

\* handle_error: the pair is gone, with whatever its buffers hold.
HandleError ==
    /\ open' = FALSE
    /\ batch' = {} /\ cur' = NoEvent /\ pc' = "loop"
    /\ UNCHANGED <<sockVars, connVars, pollVars>>

\* recv_cb returns 0.
RecvReturns ==
    /\ cur' = Remaining([cur EXCEPT !.read = FALSE])
    /\ pc' = "loop"
    /\ UNCHANGED batch

Receiving(c) == open /\ pc = "loop" /\ cur.read /\ cur.conn = c
Handling(c) == open /\ pc = "handle" /\ cur.conn = c
Sending(c) == open /\ pc = "loop" /\ ~cur.read /\ cur.write /\ cur.conn = c

Received(c) == Least(RecvMax, Len(inq[c]))
TakeReceived(c) ==
    inq' = [inq EXCEPT ![c] = SubSeq(@, Received(c) + 1, Len(@))]

\* append_txbuf, send, move_txbuf: data from c joins the pending output of
\* its peer d; whatever the socket does not take pauses reading from c until
\* d is writable again.
Forward(c, d, data) ==
    LET all == txbuf[d] \o data
        n == Least(Len(all), SndBuf - Len(outq[d]))
        blocked == n = 0 \/ n < Len(all)
    IN  /\ txbuf' = [txbuf EXCEPT ![d] = Unsent(all, n)]
        /\ outq' = [outq EXCEPT ![d] = @ \o SubSeq(all, 1, n)]
        /\ IF blocked
           THEN /\ mask' = [mask EXCEPT ![c] = UnwatchReadMask(@),
                                        ![d] = WatchWriteMask(@)]
                /\ Rearm(Ends)
           ELSE UNCHANGED pollVars

\* Whether Forward blocks.
Blocks(d, data) == Len(txbuf[d]) + Len(data) > SndBuf - Len(outq[d])

\* send_cb returns 0.
SendReturns ==
    /\ cur' = Remaining([cur EXCEPT !.write = FALSE])
    /\ UNCHANGED <<batch, pc>>

\* ev[i].eof: tear down after the callbacks of the event.
CloseOnEof ==
    /\ open /\ pc = "loop" /\ ~cur.read /\ ~cur.write /\ cur.eof
    /\ HandleError

\* recv or send fails (a reset connection), whatever was to be done.
CallFails(c) ==
    /\ Failing
    /\ Receiving(c) \/ Handling(c) \/ Sending(c)
    /\ HandleError
=============================================================================
