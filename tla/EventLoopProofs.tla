-------------------------- MODULE EventLoopProofs --------------------------
(***************************************************************************)
(* The safety of EventLoop for every number of connections and threads and *)
(* for both pollers.  The five state invariants are inductive together:    *)
(* an event may be dereferenced because its connection is watched by the   *)
(* loop that holds it, which HandleError can only preserve because the     *)
(* peer it frees as well is watched by the same loop.                      *)
(***************************************************************************)
EXTENDS EventLoop, TLAPS

IInv == TypeOK /\ NoStaleEvent /\ WatchedIsAlive /\ PeersPaired /\ WriteHasPeer

USE NullAssumption DEF runVars

\* What poller_wait reports of loop l names connections l watches, and
\* write readiness only where it was asked for.
LEMMA BatchFacts ==
    ASSUME NEW l \in Loops, NEW B \in Batches(l), NEW e \in B
    PROVE  /\ e \in LiveEvent
           /\ e.conn \in Conns
           /\ watched[e.conn] = l
           /\ e.write => "out" \in mask[e.conn]
  <1>1. PICK c \in Conns : watched[c] = l /\ e \in Reports(c)
    BY DEF Batches, Watched
  <1>2. e \in LiveEvent /\ e.conn = c /\ (e.write => "out" \in mask[c])
    BY <1>1 DEF Reports, EpollEvents, KqueueEvents
  <1> QED
    BY <1>1, <1>2

\* Connections a loop frees together are all watched by that loop and hold
\* no pointer from outside.
LEMMA DoomedFacts ==
    ASSUME IInv, NEW l \in Loops, cur[l] # NoEvent
    PROVE  /\ cur[l] \in LiveEvent /\ cur[l].conn \in alive
           /\ \A d \in Doomed(cur[l].conn) : d \in alive /\ watched[d] = l
           /\ \A c \in Conns : c \notin Doomed(cur[l].conn) /\ peer[c] # Null
                 => peer[c] \notin Doomed(cur[l].conn)
  <1> DEFINE x == cur[l].conn
  <1>1. cur[l] \in LiveEvent /\ x \in alive /\ watched[x] = l
    BY DEF IInv, TypeOK, NoStaleEvent, Outstanding
  <1>2. x \in Conns
    BY <1>1 DEF LiveEvent, Event
  <1>3. peer[x] # Null => peer[x] \in alive /\ watched[peer[x]] = l
                          /\ peer[peer[x]] = x
    BY <1>1, <1>2 DEF IInv, PeersPaired
  <1>4. \A d \in Doomed(x) : d \in alive /\ watched[d] = l
    BY <1>1, <1>3 DEF Doomed
  <1>5. ASSUME NEW c \in Conns, c \notin Doomed(x), peer[c] # Null,
               peer[c] \in Doomed(x)
        PROVE  FALSE
    <2>1. peer[peer[c]] = c
      BY <1>5 DEF IInv, PeersPaired
    <2>2. CASE peer[c] = x
      BY <2>1, <2>2, <1>5 DEF Doomed
    <2>3. CASE peer[c] = peer[x] /\ peer[x] # Null
      BY <2>1, <2>3, <1>3, <1>5 DEF Doomed
    <2> QED
      BY <2>2, <2>3, <1>5 DEF Doomed
  <1> QED
    BY <1>1, <1>4, <1>5

LEMMA InitInv == Init => IInv
  <1> SUFFICES ASSUME Init PROVE IInv
    OBVIOUS
  <1>1. TypeOK
    BY DEF Init, TypeOK, NoEvent
  <1>2. NoStaleEvent
    BY DEF Init, NoStaleEvent, Outstanding
  <1>3. WatchedIsAlive
    BY DEF Init, WatchedIsAlive
  <1>4. PeersPaired
    BY DEF Init, PeersPaired
  <1>5. WriteHasPeer
    BY DEF Init, WriteHasPeer, Outstanding
  <1> QED
    BY <1>1, <1>2, <1>3, <1>4, <1>5 DEF IInv

LEMMA AcceptInv ==
    ASSUME IInv, NEW l \in Loops, Accept(l)
    PROVE  IInv'
  <1> USE DEF IInv
  <1>1. PICK c \in Conns : NewWatched(l, c)
    BY DEF Accept
  <1>2. UNCHANGED <<runVars, peer, hup, batch, cur, exited>>
    BY DEF Accept, loopVars
  <1>3. c \notin alive
    BY <1>1 DEF NewWatched
  <1>4. TypeOK'
    BY <1>1, <1>2 DEF TypeOK, NewWatched, Kinds
  <1>5. NoStaleEvent'
    BY <1>1, <1>2, <1>3 DEF NoStaleEvent, Outstanding, TypeOK, NewWatched
  <1>6. WatchedIsAlive'
    BY <1>1 DEF WatchedIsAlive, TypeOK, NewWatched
  <1>7. PeersPaired'
    BY <1>1, <1>2, <1>3 DEF PeersPaired, TypeOK, NewWatched
  <1>8. WriteHasPeer'
    BY <1>1, <1>2, <1>3 DEF WriteHasPeer, Outstanding, TypeOK, NewWatched
  <1> QED
    BY <1>4, <1>5, <1>6, <1>7, <1>8

LEMMA PollerWaitInv ==
    ASSUME IInv, NEW l \in Loops, PollerWait(l)
    PROVE  IInv'
  <1> USE DEF IInv
  <1>1. PICK B \in Batches(l) : batch' = [batch EXCEPT ![l] = B]
    BY DEF PollerWait
  <1>2. /\ UNCHANGED <<runVars, alive, watched, peer, mask, hup, cur, exited>>
        /\ fresh' = [fresh EXCEPT ![l] = {}]
        /\ l \notin exited
    BY DEF PollerWait, connVars, Idle
  <1>3. \A e \in B : /\ e \in LiveEvent /\ e.conn \in Conns
                     /\ watched[e.conn] = l
                     /\ e.write => "out" \in mask[e.conn]
    BY BatchFacts
  <1>4. \A e \in B : e.conn \in alive
    BY <1>3 DEF WatchedIsAlive
  <1>5. cur[l] = NoEvent
    BY DEF PollerWait, Idle
  <1>6. TypeOK'
    BY <1>1, <1>2, <1>3 DEF TypeOK
  <1>7. NoStaleEvent'
    BY <1>1, <1>2, <1>3, <1>4, <1>5 DEF NoStaleEvent, Outstanding, TypeOK
  <1>8. WatchedIsAlive' /\ PeersPaired'
    BY <1>2 DEF WatchedIsAlive, PeersPaired
  <1>9. WriteHasPeer'
    BY <1>1, <1>2, <1>3, <1>4 DEF WriteHasPeer, Outstanding, TypeOK
  <1> QED
    BY <1>6, <1>7, <1>8, <1>9

LEMMA NextEventInv ==
    ASSUME IInv, NEW l \in Loops, NextEvent(l)
    PROVE  IInv'
  <1> USE DEF IInv
  <1>1. PICK e \in batch[l] : /\ cur' = [cur EXCEPT ![l] = e]
                              /\ batch' = [batch EXCEPT ![l] = @ \ {e}]
    BY DEF NextEvent
  <1>2. UNCHANGED <<runVars, alive, watched, peer, mask, hup, fresh, exited>>
    BY DEF NextEvent, connVars
  <1>3. TypeOK'
    BY <1>1, <1>2 DEF TypeOK
  <1>4. \A m \in Loops : Outstanding(m)' \subseteq Outstanding(m)
    BY <1>1 DEF Outstanding, TypeOK
  <1>5. NoStaleEvent'
    BY <1>2, <1>4 DEF NoStaleEvent
  <1>6. WatchedIsAlive' /\ PeersPaired'
    BY <1>2 DEF WatchedIsAlive, PeersPaired
  <1>7. WriteHasPeer'
    BY <1>2, <1>4 DEF WriteHasPeer
  <1> QED
    BY <1>3, <1>5, <1>6, <1>7

LEMMA RecvConnectsInv ==
    ASSUME IInv, NEW l \in Loops, RecvConnects(l)
    PROVE  IInv'
  <1> USE DEF IInv
  <1> DEFINE x == cur[l].conn
  <1>1. PICK d \in Conns :
           /\ NewWatched(l, d)
           /\ peer' = [peer EXCEPT ![x] = d, ![d] = x]
    BY DEF RecvConnects
  <1>2. UNCHANGED <<runVars, hup, batch, cur, exited>>
    BY DEF RecvConnects, loopVars
  <1>3. peer[x] = Null /\ cur[l] # NoEvent
    BY DEF RecvConnects, Receiving
  <1>4. x \in Conns /\ x \in alive /\ watched[x] = l
    BY <1>3, DoomedFacts DEF Doomed, TypeOK
  <1>5. d \notin alive /\ d # x
    BY <1>1, <1>4 DEF NewWatched
  <1>6. TypeOK'
    BY <1>1, <1>2, <1>4 DEF TypeOK, NewWatched, Kinds
  <1>7. NoStaleEvent'
    BY <1>1, <1>2, <1>5 DEF NoStaleEvent, Outstanding, TypeOK, NewWatched
  <1>8. WatchedIsAlive'
    BY <1>1 DEF WatchedIsAlive, TypeOK, NewWatched
  <1>9. PeersPaired'
    <2>1. \A c \in Conns \ {x, d} :
             /\ peer'[c] = peer[c] /\ watched'[c] = watched[c]
             /\ peer[c] # x /\ peer[c] # d
      BY <1>1, <1>3, <1>4, <1>5 DEF PeersPaired, TypeOK, NewWatched
    <2>2. /\ peer'[x] = d /\ peer'[d] = x
          /\ watched'[x] = l /\ watched'[d] = l
          /\ x \in alive' /\ d \in alive'
      BY <1>1, <1>4, <1>5 DEF TypeOK, NewWatched
    <2>3. alive \subseteq alive'
      BY <1>1 DEF NewWatched
    <2> SUFFICES ASSUME NEW c \in Conns, peer'[c] # Null
                 PROVE  /\ c \in alive' /\ peer'[c] \in alive' \ {c}
                        /\ peer'[peer'[c]] = c
                        /\ watched'[peer'[c]] = watched'[c]
      BY DEF PeersPaired
    <2>4. CASE c = x \/ c = d
      BY <2>2, <2>4, <1>5
    <2>5. CASE c \notin {x, d}
      <3>1. peer[c] \in Conns \ {x, d}
        BY <2>1, <2>5 DEF TypeOK
      <3> QED
        BY <3>1, <2>1, <2>3, <2>5 DEF PeersPaired
    <2> QED
      BY <2>4, <2>5
  <1>10. WriteHasPeer'
    <2>1. \A c \in alive : peer[c] # Null => peer'[c] # Null
      BY <1>1, <1>4, <1>5 DEF TypeOK
    <2>2. \A c \in alive' : "out" \in mask'[c] => c \in alive /\ "out" \in mask[c]
      BY <1>1, <1>5 DEF TypeOK, NewWatched
    <2>3. \A m \in Loops : Outstanding(m)' = Outstanding(m)
      BY <1>2 DEF Outstanding
    <2> QED
      BY <2>1, <2>2, <2>3 DEF WriteHasPeer, NoStaleEvent
  <1> QED
    BY <1>6, <1>7, <1>8, <1>9, <1>10

\* recv_cb and send_cb that return 0 differ in the flag they clear only.
CallbackReturns(l) ==
    /\ cur[l] # NoEvent
    /\ \/ cur' = [cur EXCEPT ![l] = Remaining([@ EXCEPT !.read = FALSE])]
       \/ cur' = [cur EXCEPT ![l] = Remaining([@ EXCEPT !.write = FALSE])]
    /\ mask' \in MasksAfter(cur[l].conn)
    /\ UNCHANGED <<runVars, alive, watched, peer, hup, batch, fresh, exited>>

LEMMA CallbackReturnsInv ==
    ASSUME IInv, NEW l \in Loops, CallbackReturns(l)
    PROVE  IInv'
  <1> USE DEF IInv
  <1> DEFINE e == cur[l]
             f == cur'[l]
  <1>1. /\ cur[l] # NoEvent /\ mask' \in MasksAfter(cur[l].conn)
        /\ UNCHANGED <<runVars, alive, watched, peer, hup, batch, fresh, exited>>
    BY DEF CallbackReturns
  <1>2. e \in LiveEvent
    BY <1>1 DEF TypeOK
  <1>3. \A m \in Loops \ {l} : cur'[m] = cur[m]
    BY DEF CallbackReturns, TypeOK
  <1>4. f = NoEvent \/ (f \in LiveEvent /\ f.conn = e.conn /\ (f.write => e.write))
    <2>1. f = Remaining([e EXCEPT !.read = FALSE])
            \/ f = Remaining([e EXCEPT !.write = FALSE])
      BY DEF CallbackReturns, TypeOK
    <2>2. /\ [e EXCEPT !.read = FALSE] \in Event
          /\ [e EXCEPT !.read = FALSE].conn = e.conn
          /\ [e EXCEPT !.read = FALSE].write = e.write
      BY <1>2 DEF LiveEvent, Event
    <2>3. /\ [e EXCEPT !.write = FALSE] \in Event
          /\ [e EXCEPT !.write = FALSE].conn = e.conn
          /\ ~[e EXCEPT !.write = FALSE].write
      BY <1>2 DEF LiveEvent, Event
    <2> QED
      BY <2>1, <2>2, <2>3 DEF Remaining, LiveEvent
  <1>5. cur' \in [Loops -> LiveEvent \cup {NoEvent}]
    BY <1>4 DEF CallbackReturns, TypeOK
  <1>6. mask' \in [Conns -> SUBSET Kinds]
    BY <1>1 DEF MasksAfter
  <1>7. TypeOK'
    BY <1>1, <1>3, <1>5, <1>6 DEF TypeOK
  <1>8. \A m \in Loops : \A g \in Outstanding(m)' :
           \E h \in Outstanding(m) : h.conn = g.conn /\ (g.write => h.write)
    BY <1>1, <1>3, <1>4 DEF Outstanding
  <1>9. NoStaleEvent'
    BY <1>1, <1>8 DEF NoStaleEvent
  <1>10. WatchedIsAlive' /\ PeersPaired'
    BY <1>1 DEF WatchedIsAlive, PeersPaired
  <1>11. WriteHasPeer'
    <2>1. \A c \in Conns : peer[c] = Null => mask'[c] = mask[c]
      <3> SUFFICES ASSUME NEW c \in Conns, peer[c] = Null
                   PROVE  mask'[c] = mask[c]
        OBVIOUS
      <3>1. e.conn \in Conns
        BY <1>2 DEF LiveEvent, Event
      <3>2. peer[e.conn] = Null \/ c \notin Doomed(e.conn)
        BY <3>1 DEF Doomed, PeersPaired
      <3> QED
        BY <1>1, <3>2 DEF MasksAfter
    <2>2. \A c \in alive' : "out" \in mask'[c] => peer'[c] # Null
      BY <1>1, <2>1 DEF WriteHasPeer, TypeOK
    <2> QED
      BY <1>1, <1>8, <2>2 DEF WriteHasPeer
  <1> QED
    BY <1>7, <1>9, <1>10, <1>11

LEMMA HandleErrorInv ==
    ASSUME IInv, NEW l \in Loops, cur[l] # NoEvent, HandleError(l)
    PROVE  IInv'
  <1> USE DEF IInv
  <1> DEFINE D == Doomed(cur[l].conn)
  <1>1. /\ \A d \in D : d \in alive /\ watched[d] = l
        /\ \A c \in Conns : c \notin D /\ peer[c] # Null => peer[c] \notin D
    BY DoomedFacts
  <1>2. /\ batch' = [batch EXCEPT ![l] = EventsWithout(l, D)]
        /\ cur' = [cur EXCEPT ![l] = NoEvent]
        /\ watched' = [c \in Conns |-> IF c \in D THEN Null ELSE watched[c]]
        /\ alive' = alive \ D
        /\ peer' = [c \in Conns |-> IF c \in D THEN Null ELSE peer[c]]
        /\ mask' = [c \in Conns |-> IF c \in D THEN {} ELSE mask[c]]
        /\ hup' = hup \ D
        /\ UNCHANGED <<runVars, fresh, exited>>
    BY DEF HandleError, AfterUnwatch, Cleared
  <1> HIDE DEF D
  <1>3. /\ batch' \in [Loops -> SUBSET LiveEvent]
        /\ cur' \in [Loops -> LiveEvent \cup {NoEvent}]
        /\ \A m \in Loops : batch'[m] \subseteq batch[m]
        /\ \A m \in exited : cur'[m] = NoEvent
    BY <1>2 DEF TypeOK, EventsWithout
  <1>4. TypeOK'
    BY <1>2, <1>3 DEF TypeOK
  <1>5. \A m \in Loops : \A e \in Outstanding(m)' :
           e \in Outstanding(m) /\ e.conn \notin D
    <2>1. \A e \in Outstanding(l)' : e \in batch[l] /\ e.conn \notin D
      BY <1>2 DEF Outstanding, EventsWithout, TypeOK
    <2>2. \A m \in Loops \ {l} : Outstanding(m)' = Outstanding(m)
      BY <1>2 DEF Outstanding, TypeOK
    <2>3. \A m \in Loops \ {l} : \A e \in Outstanding(m) : e.conn \notin D
      BY <1>1 DEF NoStaleEvent
    <2> QED
      BY <2>1, <2>2, <2>3 DEF Outstanding
  <1>6. \A m \in Loops : \A e \in Outstanding(m)' : e.conn \in Conns
    BY <1>5 DEF NoStaleEvent, TypeOK
  <1>7. NoStaleEvent'
    BY <1>2, <1>5, <1>6 DEF NoStaleEvent
  <1>8. WatchedIsAlive'
    BY <1>2 DEF WatchedIsAlive
  <1>9. PeersPaired'
    <2> SUFFICES ASSUME NEW c \in Conns, peer'[c] # Null
                 PROVE  /\ c \in alive' /\ peer'[c] \in alive' \ {c}
                        /\ peer'[peer'[c]] = c
                        /\ watched'[peer'[c]] = watched'[c]
      BY DEF PeersPaired
    <2>1. c \notin D /\ peer'[c] = peer[c] /\ peer[c] # Null
      BY <1>2
    <2>2. peer[c] \notin D /\ peer[c] \in Conns
      BY <2>1, <1>1 DEF TypeOK
    <2> QED
      BY <2>1, <2>2, <1>2 DEF PeersPaired
  <1>10. WriteHasPeer'
    BY <1>2, <1>5, <1>6 DEF WriteHasPeer, TypeOK
  <1> QED
    BY <1>4, <1>7, <1>8, <1>9, <1>10

\* A step of an I/O thread is a wait, a callback or a tear-down.
LEMMA IoThreadInv ==
    ASSUME IInv, NEW l \in Loops, IoThread(l)
    PROVE  IInv'
  <1>1. CASE PollerWait(l)
    BY <1>1, PollerWaitInv
  <1>2. CASE PollerWaitFails(l) \/ LoopReturns(l)
    <2>1. /\ exited' = exited \cup {l}
          /\ UNCHANGED <<runVars, alive, watched, peer, mask, hup, batch, cur, fresh>>
          /\ batch[l] = {} /\ cur[l] = NoEvent
      BY <1>2 DEF PollerWaitFails, LoopReturns, connVars, loopVars, Idle
    <2>2. TypeOK'
      BY <2>1 DEF IInv, TypeOK
    <2>3. (NoStaleEvent /\ WatchedIsAlive /\ PeersPaired /\ WriteHasPeer)'
      BY <2>1 DEF IInv, NoStaleEvent, WatchedIsAlive, PeersPaired,
                  WriteHasPeer, Outstanding
    <2> QED
      BY <2>2, <2>3 DEF IInv
  <1>3. CASE NextEvent(l)
    BY <1>3, NextEventInv
  <1>4. CASE RecvConnects(l)
    BY <1>4, RecvConnectsInv
  <1>5. CASE RecvReturns(l) \/ SendReturns(l)
    BY <1>5, CallbackReturnsInv
    DEF RecvReturns, SendReturns, CallbackReturns, Receiving, Sending
  <1>6. CASE RecvFails(l) \/ SendFails(l) \/ CloseOnEof(l)
    BY <1>6, HandleErrorInv
    DEF RecvFails, SendFails, CloseOnEof, Receiving, Sending, Closing
  <1> QED
    BY <1>1, <1>2, <1>3, <1>4, <1>5, <1>6 DEF IoThread

LEMMA NextInv == IInv /\ [Next]_vars => IInv'
  <1> SUFFICES ASSUME IInv, [Next]_vars PROVE IInv'
    OBVIOUS
  <1>1. CASE \E l \in Loops : Accept(l)
    BY <1>1, AcceptInv
  <1>2. CASE \E l \in Loops : IoThread(l)
    BY <1>2, IoThreadInv
  <1>3. CASE (\E c \in Conns : Hangup(c)) \/ AcceptBegins \/ AcceptEnds
            \/ Stop \/ UNCHANGED vars
    <2>1. /\ UNCHANGED <<alive, watched, peer, mask, batch, cur, fresh, exited>>
          /\ running' \in BOOLEAN /\ accepting' \in BOOLEAN
          /\ hup' \subseteq alive
      BY <1>3 DEF Hangup, AcceptBegins, AcceptEnds, Stop, vars, connVars,
                  loopVars, IInv, TypeOK
    <2>2. TypeOK'
      BY <2>1 DEF IInv, TypeOK
    <2>3. (NoStaleEvent /\ WatchedIsAlive /\ PeersPaired /\ WriteHasPeer)'
      BY <2>1 DEF IInv, NoStaleEvent, WatchedIsAlive, PeersPaired,
                  WriteHasPeer, Outstanding
    <2> QED
      BY <2>2, <2>3 DEF IInv
  <1> QED
    BY <1>1, <1>2, <1>3 DEF Next

LEMMA Invariance == Spec => []IInv
  <1> QED
    BY InitInv, NextInv, PTL DEF Spec

-----------------------------------------------------------------------------
(* Results                                                                 *)

\* The types of the event loops' state hold in every reachable state.
THEOREM TypeCorrect == Spec => []TypeOK
  <1>1. IInv => TypeOK
    BY DEF IInv
  <1> QED
    BY <1>1, Invariance, PTL

\* No callback is ever invoked on freed or recycled memory.
THEOREM NoUseAfterFree == Spec => []NoStaleEvent
  <1>1. IInv => NoStaleEvent
    BY DEF IInv
  <1> QED
    BY <1>1, Invariance, PTL

\* Exactly the allocated connections are registered with a poller.
THEOREM WatchedCorrect == Spec => []WatchedIsAlive
  <1>1. IInv => WatchedIsAlive
    BY DEF IInv
  <1> QED
    BY <1>1, Invariance, PTL

\* Peer pointers are mutual, live and local to one loop.
THEOREM PeersCorrect == Spec => []PeersPaired
  <1>1. IInv => PeersPaired
    BY DEF IInv
  <1> QED
    BY <1>1, Invariance, PTL

\* send_cb never dereferences a null peer.
THEOREM WriteCorrect == Spec => []WriteHasPeer
  <1>1. IInv => WriteHasPeer
    BY DEF IInv
  <1> QED
    BY <1>1, Invariance, PTL

\* What a step of the system may change of connections already watched: it
\* only touches those an I/O thread frees or serves, all of them its own.
LEMMA ConfinedStep ==
    ASSUME IInv, [Next]_vars, NEW c \in alive,
           \/ c \notin alive' \/ peer'[c] # peer[c]
           \/ mask'[c] # mask[c] \/ watched'[c] # watched[c]
    PROVE  \E l \in Loops : /\ watched[c] = l /\ cur[l] # NoEvent
                            /\ cur[l].conn \in {c, peer[c]}
                            /\ c \notin alive' => HandleError(l)
  <1> USE DEF IInv
  <1> c \in Conns
    BY DEF TypeOK
  <1>1. ~(\E l \in Loops : Accept(l))
    BY DEF Accept, NewWatched, TypeOK
  <1>2. ~((\E d \in Conns : Hangup(d)) \/ AcceptBegins \/ AcceptEnds
           \/ Stop \/ UNCHANGED vars)
    BY DEF Hangup, AcceptBegins, AcceptEnds, Stop, vars, connVars
  <1>3. PICK l \in Loops : IoThread(l)
    BY <1>1, <1>2 DEF Next
  <1>4. ~(PollerWait(l) \/ PollerWaitFails(l) \/ LoopReturns(l) \/ NextEvent(l))
    BY DEF PollerWait, PollerWaitFails, LoopReturns, NextEvent, connVars
  <1>5. cur[l] # NoEvent
    BY <1>3, <1>4 DEF IoThread, RecvConnects, RecvReturns, RecvFails,
       SendReturns, SendFails, CloseOnEof, Receiving, Sending, Closing
  <1>6. \A d \in Doomed(cur[l].conn) : d \in alive /\ watched[d] = l
    BY <1>5, DoomedFacts
  <1> DEFINE x == cur[l].conn
  <1>10. ASSUME c \in Doomed(x) PROVE x \in {c, peer[c]} /\ watched[c] = l
    <2>1. x \in Conns
      BY <1>5, DoomedFacts DEF LiveEvent, Event
    <2> QED
      BY <1>6, <1>10, <2>1 DEF Doomed, PeersPaired
  <1>7. CASE RecvConnects(l)
    <2>1. PICK d \in Conns :
             /\ NewWatched(l, d)
             /\ peer' = [peer EXCEPT ![cur[l].conn] = d, ![d] = cur[l].conn]
      BY <1>7 DEF RecvConnects
    <2>2. c # d /\ c \in alive' /\ mask'[c] = mask[c] /\ watched'[c] = watched[c]
      BY <2>1 DEF NewWatched, TypeOK
    <2>3. c = cur[l].conn
      BY <2>1, <2>2 DEF TypeOK
    <2>4. c \in Doomed(x)
      BY <2>3 DEF Doomed
    <2> QED
      BY <1>5, <1>10, <2>2, <2>4
  <1>8. CASE RecvReturns(l) \/ SendReturns(l)
    <2>1. mask' \in MasksAfter(cur[l].conn) /\ UNCHANGED <<alive, watched, peer>>
      BY <1>8 DEF RecvReturns, SendReturns
    <2>2. c \in Doomed(cur[l].conn)
      BY <2>1 DEF MasksAfter
    <2> QED
      BY <1>5, <1>10, <2>1, <2>2
  <1>9. CASE HandleError(l)
    <2>1. c \in Doomed(cur[l].conn)
      BY <1>9 DEF HandleError, AfterUnwatch, Cleared, TypeOK
    <2> QED
      BY <1>5, <1>9, <1>10, <2>1
  <1> QED
    BY <1>3, <1>4, <1>7, <1>8, <1>9
    DEF IoThread, RecvFails, SendFails, CloseOnEof

\* Neither end of a proxied connection outlives the other.
THEOREM PeersDieTogether == Spec => PairsDieTogether
  <1>1. IInv /\ [Next]_vars => \A c \in alive \ alive' : peer[c] \notin alive'
    <2> SUFFICES ASSUME IInv, [Next]_vars, NEW c \in alive \ alive'
                 PROVE  peer[c] \notin alive'
      OBVIOUS
    <2>1. PICK l \in Loops : /\ cur[l] # NoEvent /\ HandleError(l)
                             /\ cur[l].conn \in {c, peer[c]}
      BY ConfinedStep
    <2>2. alive' = alive \ Doomed(cur[l].conn)
      BY <2>1 DEF HandleError
    <2>3. c \in Conns /\ Null \notin alive'
      BY <2>2 DEF IInv, TypeOK
    <2>4. peer[c] = Null \/ peer[c] \in Doomed(cur[l].conn)
      BY <2>1, <2>3 DEF Doomed
    <2> QED
      BY <2>2, <2>3, <2>4
  <1> QED
    BY <1>1, Invariance, PTL DEF Spec, PairsDieTogether

\* The memory of a watched connection belongs to the thread of its loop.
THEOREM ThreadConfinement == Spec => ConfinedToItsLoop
  <1>1. IInv /\ [Next]_vars =>
           \A c \in alive :
              (c \notin alive' \/ peer'[c] # peer[c] \/ mask'[c] # mask[c]
                 \/ watched'[c] # watched[c])
              => \E l \in Loops : /\ watched[c] = l
                                  /\ cur[l] # NoEvent
                                  /\ cur[l].conn \in {c, peer[c]}
    <2> SUFFICES ASSUME IInv, [Next]_vars, NEW c \in alive,
                        \/ c \notin alive' \/ peer'[c] # peer[c]
                        \/ mask'[c] # mask[c] \/ watched'[c] # watched[c]
                 PROVE  \E l \in Loops : /\ watched[c] = l
                                         /\ cur[l] # NoEvent
                                         /\ cur[l].conn \in {c, peer[c]}
      BY Zenon
    <2> QED
      BY ConfinedStep
  <1> QED
    BY <1>1, Invariance, PTL DEF Spec, ConfinedToItsLoop
=============================================================================
