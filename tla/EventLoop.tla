----------------------------- MODULE EventLoop -----------------------------
(***************************************************************************)
(* The event loops of Xproxy (el.c), the accept thread that hands them     *)
(* connections (accept_cb of both proxies, xproxy.c) and the life of the   *)
(* connection objects (tcp-connection.c).                                  *)
(*                                                                         *)
(* A connection is a heap address: after free() the address may be handed  *)
(* out again by malloc(), in the same or in another thread.  An I/O thread *)
(* collects a batch of events, each one carrying such an address, and      *)
(* handles them one by one; the callbacks allocate, link and free          *)
(* connections while later events of the batch are still outstanding.      *)
(* There is no lock: what keeps the threads apart is that a connection and *)
(* its peer are only ever touched by the loop they are watched in.         *)
(***************************************************************************)
EXTENDS Naturals, FiniteSets

CONSTANTS
    Conns,       \* the heap addresses of struct tcp_connection
    Loops,       \* the I/O threads, xproxy->els[]
    Null,        \* the null pointer
    Backend,     \* "epoll" (__linux__) or "kqueue", see poller.c
    Interrupts   \* TRUE: poller_wait may return -1 (a signal, EINTR)

ASSUME NullAssumption == Null \notin Conns /\ Null \notin Loops
ASSUME BackendAssumption == Backend \in {"epoll", "kqueue"}
ASSUME InterruptsAssumption == Interrupts \in BOOLEAN

VARIABLES
    running,   \* the global run flag of the proxy
    accepting, \* the accept thread is in accept_cb
    alive,     \* allocated connections
    watched,   \* the loop a connection is registered with, or Null
    peer,      \* tcp_conn->peer
    mask,      \* the read/write interest registered for a connection
    hup,       \* connections whose far end closed or reset
    batch,     \* per loop: the events of ev[] still to be handled
    cur,       \* per loop: the event being handled, done flags cleared
    fresh,     \* history: the addresses allocated since batch was collected
    exited     \* loops whose thread returned

runVars == <<running, accepting>>
connVars == <<alive, watched, peer, mask>>
loopVars == <<batch, cur>>
vars == <<runVars, connVars, hup, loopVars, fresh, exited>>

\* struct poller_event; eof stands for eof || error.
Event == [conn : Conns, read : BOOLEAN, write : BOOLEAN, eof : BOOLEAN]
LiveEvent == {e \in Event : e.read \/ e.write \/ e.eof}
NoEvent == Null

Kinds == {"in", "out"}

-----------------------------------------------------------------------------
(* poller_wait: what the kernel may report of a registered connection.     *)

\* A mutation of EpollEvents: masks without EPOLLRDHUP.
EpollEventsNoRdhup(c) ==
    {e \in LiveEvent : /\ e.conn = c
                       /\ e.read => "in" \in mask[c]
                       /\ e.write => "out" \in mask[c]
                       /\ e.eof = (c \in hup /\ "in" \in mask[c])}

\* One epoll event carries every flag; EPOLLRDHUP is in every mask.
EpollEvents(c) ==
    {e \in LiveEvent : /\ e.conn = c
                       /\ e.read => "in" \in mask[c]
                       /\ e.write => "out" \in mask[c]
                       /\ e.eof = (c \in hup)}

\* kqueue reports the two filters apart, each only while it is enabled;
\* EV_EOF hides the read flag, and the write filter has it after a reset only.
KqueueEvents(c) ==
    {e \in LiveEvent :
        /\ e.conn = c
        /\ e.eof => c \in hup
        /\ \/ /\ "in" \in mask[c]
              /\ ~e.write /\ e.eof = (c \in hup) /\ e.read = ~e.eof
           \/ "out" \in mask[c] /\ e.write /\ ~e.read}

Reports(c) == IF Backend = "epoll" THEN EpollEvents(c) ELSE KqueueEvents(c)

Watched(l) == {c \in Conns : watched[c] = l}

\* The batches one poller_wait may return: a connection occurs once (epoll)
\* or once per filter (kqueue), and a pending hang-up is not passed over.
Batches(l) ==
    {B \in SUBSET UNION {Reports(c) : c \in Watched(l)} :
        /\ \A e, f \in B :
              e.conn = f.conn /\ (Backend = "epoll" \/ e.write = f.write)
                 => e = f
        /\ \A c \in Watched(l) \cap hup :
              (\E e \in Reports(c) : e.eof) => \E e \in B : e.conn = c /\ e.eof}

-----------------------------------------------------------------------------
Init ==
    /\ running = TRUE
    /\ accepting = FALSE
    /\ alive = {}
    /\ watched = [c \in Conns |-> Null]
    /\ peer = [c \in Conns |-> Null]
    /\ mask = [c \in Conns |-> {}]
    /\ hup = {}
    /\ batch = [l \in Loops |-> {}]
    /\ cur = [l \in Loops |-> NoEvent]
    /\ fresh = [l \in Loops |-> {}]
    /\ exited = {}

\* A mutation of NewWatched: the loop is always els[fd % nthread].
NewWatchedAnywhere(l, c) ==
    /\ c \notin alive
    /\ alive' = alive \cup {c}
    /\ \E m \in Loops : watched' = [watched EXCEPT ![c] = m]
    /\ mask' = [mask EXCEPT ![c] = {"in"}]
    /\ fresh' = [m \in Loops |-> fresh[m] \cup {c}]

\* new_tcp_connection and el_watch: c is unused memory until now.
NewWatched(l, c) ==
    /\ c \notin alive
    /\ alive' = alive \cup {c}
    /\ watched' = [watched EXCEPT ![c] = l]
    /\ mask' = [mask EXCEPT ![c] = {"in"}]
    /\ fresh' = [m \in Loops |-> fresh[m] \cup {c}]

\* _accept_thread: poller_wait reports the listening socket.
AcceptBegins ==
    /\ running /\ ~accepting
    /\ accepting' = TRUE
    /\ UNCHANGED <<running, connVars, hup, loopVars, fresh, exited>>

\* One turn of accept_cb, which goes on with the backlog whatever the run
\* flag says: the loop is els[fd % nthread], any of them.
Accept(l) ==
    /\ accepting
    /\ \E c \in Conns : NewWatched(l, c)
    /\ UNCHANGED <<runVars, peer, hup, loopVars, exited>>

\* accept has no more, or fails.
AcceptEnds ==
    /\ accepting
    /\ accepting' = FALSE
    /\ UNCHANGED <<running, connVars, hup, loopVars, fresh, exited>>

\* The program at the far end closes or resets the TCP connection.
Hangup(c) ==
    /\ c \in alive \ hup
    /\ hup' = hup \cup {c}
    /\ UNCHANGED <<runVars, connVars, loopVars, fresh, exited>>

-----------------------------------------------------------------------------
(* _io_thread                                                              *)

Idle(l) == l \notin exited /\ batch[l] = {} /\ cur[l] = NoEvent

PollerWait(l) ==
    /\ Idle(l)
    /\ running
    /\ \E B \in Batches(l) \ {{}} : batch' = [batch EXCEPT ![l] = B]
    /\ fresh' = [fresh EXCEPT ![l] = {}]
    /\ UNCHANGED <<runVars, connVars, hup, cur, exited>>

\* n == -1 breaks the loop, whatever errno says.
PollerWaitFails(l) ==
    /\ Interrupts
    /\ Idle(l)
    /\ running
    /\ exited' = exited \cup {l}
    /\ UNCHANGED <<runVars, connVars, hup, loopVars, fresh>>

LoopReturns(l) ==
    /\ Idle(l)
    /\ ~running
    /\ exited' = exited \cup {l}
    /\ UNCHANGED <<runVars, connVars, hup, loopVars, fresh>>

NextEvent(l) ==
    /\ cur[l] = NoEvent
    /\ \E e \in batch[l] :
          /\ cur' = [cur EXCEPT ![l] = e]
          /\ batch' = [batch EXCEPT ![l] = @ \ {e}]
    /\ UNCHANGED <<runVars, connVars, hup, fresh, exited>>

\* A mutation of Remaining: a served event is not dropped.
RemainingKept(e) == e

\* What is left of event e once one of its callbacks has returned 0.
Remaining(e) == IF e.read \/ e.write \/ e.eof THEN e ELSE NoEvent

\* A mutation of EventsWithout: nothing is removed.
EventsKept(l, S) == batch[l]

\* remove_tcp_connection, for the rest of the batch of loop l.
EventsWithout(l, S) == {e \in batch[l] : e.conn \notin S}

\* A mutation of Doomed: the peer is not freed.
DoomedAlone(c) == {c}

\* The connections handle_error frees: tcp_conn and its peer.
Doomed(c) == {c} \cup ({peer[c]} \ {Null})

Cleared(f, D, v) == [c \in Conns |-> IF c \in D THEN v ELSE f[c]]

\* A mutation of AfterUnwatch: el_unwatch is not called.
AfterNoUnwatch(D) == watched

AfterUnwatch(D) == Cleared(watched, D, Null)

\* handle_error: unlink from the batch, el_unwatch, free_tcp_connection.
HandleError(l) ==
    LET D == Doomed(cur[l].conn)
    IN  /\ batch' = [batch EXCEPT ![l] = EventsWithout(l, D)]
        /\ cur' = [cur EXCEPT ![l] = NoEvent]
        /\ watched' = AfterUnwatch(D)
        /\ alive' = alive \ D
        /\ peer' = Cleared(peer, D, Null)
        /\ mask' = Cleared(mask, D, {})
        /\ hup' = hup \ D
        /\ UNCHANGED <<runVars, fresh, exited>>

\* A mutation of MasksAfter: readiness is asked for before there is a peer.
MasksBeforePeer(c) ==
    {m \in [Conns -> SUBSET Kinds] : \A d \in Conns \ {c} : m[d] = mask[d]}

\* The masks a callback of connection c may leave behind: it calls
\* poller_(un)watch_read/write for c and its peer only, and only when it has
\* one.  An epoll mask never holds both kinds (EPOLL_CTL_MOD replaces it).
MasksAfter(c) ==
    LET Choices(d) == IF peer[c] = Null \/ d \notin Doomed(c) THEN {mask[d]}
                      ELSE IF Backend = "epoll" THEN {{}, {"in"}, {"out"}}
                      ELSE SUBSET Kinds
    IN  {m \in [Conns -> SUBSET Kinds] : \A d \in Conns : m[d] \in Choices(d)}

Receiving(l) == cur[l] # NoEvent /\ cur[l].read
Sending(l) == cur[l] # NoEvent /\ ~cur[l].read /\ cur[l].write
Closing(l) == cur[l] # NoEvent /\ ~cur[l].read /\ ~cur[l].write

\* In the middle of recv_cb a handshake opens the other side: the new
\* connection joins the same loop and the two become peers.  The code does not
\* look whether there is a peer already: the stage tells, which moves on unless
\* the handshake packet was sent in part.  A socket buffer too small for that
\* packet is left out here, as it is by BufferAssumption in Relay.
RecvConnects(l) ==
    /\ Receiving(l)
    /\ peer[cur[l].conn] = Null
    /\ \E d \in Conns :
          /\ NewWatched(l, d)
          /\ peer' = [peer EXCEPT ![cur[l].conn] = d, ![d] = cur[l].conn]
    /\ UNCHANGED <<runVars, hup, loopVars, exited>>

\* recv_cb returns 0.
RecvReturns(l) ==
    /\ Receiving(l)
    /\ cur' = [cur EXCEPT ![l] = Remaining([@ EXCEPT !.read = FALSE])]
    /\ mask' \in MasksAfter(cur[l].conn)
    /\ UNCHANGED <<runVars, alive, watched, peer, hup, batch, fresh, exited>>

\* recv_cb returns -1.
RecvFails(l) == Receiving(l) /\ HandleError(l)

\* send_cb returns 0.
SendReturns(l) ==
    /\ Sending(l)
    /\ cur' = [cur EXCEPT ![l] = Remaining([@ EXCEPT !.write = FALSE])]
    /\ mask' \in MasksAfter(cur[l].conn)
    /\ UNCHANGED <<runVars, alive, watched, peer, hup, batch, fresh, exited>>

\* send_cb returns -1.
SendFails(l) == Sending(l) /\ HandleError(l)

\* ev[i].eof || ev[i].error, after both callbacks.
CloseOnEof(l) == Closing(l) /\ HandleError(l)

\* stop_local_proxy or the signal handler clears the run flag.
Stop ==
    /\ running
    /\ running' = FALSE
    /\ UNCHANGED <<accepting, connVars, hup, loopVars, fresh, exited>>

IoThread(l) ==
    \/ PollerWait(l) \/ PollerWaitFails(l) \/ LoopReturns(l) \/ NextEvent(l)
    \/ RecvConnects(l) \/ RecvReturns(l) \/ RecvFails(l)
    \/ SendReturns(l) \/ SendFails(l) \/ CloseOnEof(l)

Next ==
    \/ \E l \in Loops : Accept(l) \/ IoThread(l)
    \/ \E c \in Conns : Hangup(c)
    \/ AcceptBegins \/ AcceptEnds \/ Stop

Spec == Init /\ [][Next]_vars

\* Every I/O thread keeps being scheduled while it has something to do.
FairSpec == Spec /\ \A l \in Loops : WF_vars(IoThread(l))

-----------------------------------------------------------------------------
(* Correctness                                                             *)

\* Type correctness: the event in hand always has a flag left to serve, and
\* a thread that returned left nothing behind in its batch.
TypeOK ==
    /\ running \in BOOLEAN /\ accepting \in BOOLEAN
    /\ alive \subseteq Conns
    /\ watched \in [Conns -> Loops \cup {Null}]
    /\ peer \in [Conns -> Conns \cup {Null}]
    /\ mask \in [Conns -> SUBSET Kinds]
    /\ hup \subseteq alive
    /\ batch \in [Loops -> SUBSET LiveEvent]
    /\ cur \in [Loops -> LiveEvent \cup {NoEvent}]
    /\ fresh \in [Loops -> SUBSET Conns]
    /\ exited \subseteq Loops
    /\ \A l \in exited : batch[l] = {} /\ cur[l] = NoEvent

\* The events a loop will still dereference.
Outstanding(l) == batch[l] \cup ({cur[l]} \ {NoEvent})

\* No use after free and no mistaken identity: an event still to be handled
\* names a connection that is allocated, belongs to this very loop, and is
\* the same object as when the event was collected -- not another one that
\* malloc() put at the address after a handle_error earlier in the batch.
NoStaleEvent ==
    \A l \in Loops : \A e \in Outstanding(l) :
        /\ e.conn \in alive
        /\ watched[e.conn] = l
        /\ e.conn \notin fresh[l]

\* The poller only holds addresses of allocated connections, so that what
\* the next poller_wait reports can be dereferenced, and none is forgotten.
WatchedIsAlive == \A c \in Conns : watched[c] # Null <=> c \in alive

\* peer pointers never dangle: they are mutual, between two different live
\* connections of the same loop.
PeersPaired ==
    \A c \in Conns : peer[c] # Null =>
        /\ c \in alive /\ peer[c] \in alive \ {c}
        /\ peer[peer[c]] = c
        /\ watched[peer[c]] = watched[c]

\* send_cb dereferences tcp_conn->peer without a test (poller_watch_read on
\* the peer's fd): write readiness is only ever asked for, and only ever
\* reported, for a connection that has a peer.
WriteHasPeer ==
    /\ \A c \in alive : "out" \in mask[c] => peer[c] # Null
    /\ \A l \in Loops : \A e \in Outstanding(l) :
          e.write => peer[e.conn] # Null

\* Peers die in the same step; neither side of a proxied connection survives
\* the other one.
PairsDieTogether ==
    [][\A c \in alive \ alive' : peer[c] \notin alive']_vars

\* Lock-free confinement: once a connection is watched, its memory changes
\* only while the thread of its own loop handles an event of it or its peer.
ConfinedToItsLoop ==
    [][\A c \in alive :
          (c \notin alive' \/ peer'[c] # peer[c] \/ mask'[c] # mask[c]
             \/ watched'[c] # watched[c])
          => \E l \in Loops : /\ watched[c] = l
                              /\ cur[l] # NoEvent
                              /\ cur[l].conn \in {c, peer[c]}]_vars

\* A connection whose far end hung up is eventually torn down (so its fd is
\* returned), unless the proxy stops or a signal ended the thread of its loop.
HangupReaped ==
    \A c \in Conns : c \in hup ~> (c \notin hup \/ ~running \/ watched[c] \in exited)
=============================================================================
