----------------------------- MODULE Lifecycle -----------------------------
(***************************************************************************)
(* Starting and stopping the local-proxy inside the packet tunnel          *)
(* extension: PacketTunnelProvider.startTunnel and stopTunnel,             *)
(* start_local_proxy, stop_local_proxy, xproxy_new, xproxy_run and         *)
(* xproxy_free, and the threads these create and join.  The process may    *)
(* start the tunnel again after it was stopped or failed to start; nothing *)
(* in it is reset in between.                                              *)
(*                                                                         *)
(* The nth call of start_local_proxy is run n.  A pointer or descriptor    *)
(* kept in a global variable is the run it was made in, 0 for none; what   *)
(* it points at is alive if it is in heap, or in fds.                      *)
(***************************************************************************)
EXTENDS Naturals

CONSTANTS
    NThread,    \* configuration.nthread
    MaxStarts,  \* bound: calls of start_local_proxy
    EarlyStop   \* TRUE: the system may stop a tunnel that is still starting

ASSUME NThreadAssumption == NThread \in Nat \ {0}
ASSUME MaxStartsAssumption == MaxStarts \in Nat
ASSUME EarlyStopAssumption == EarlyStop \in BOOLEAN

VARIABLES
    tunnel,   \* what the system knows of the tunnel
    settings, \* calls of setTunnelNetworkSettings that are not answered
    pc,       \* the next step of start_local_proxy or stop_local_proxy, or
              \* "lost" in one that got past an unset thread id no more
    index,    \* the loop counter of xproxy_run and xproxy_free
    starts,   \* the number of the latest run
    running, server_fd, xproxy, configuration, cryptor,
    heap,     \* allocated memory
    fds,      \* open descriptors
    thread    \* where every thread is

sysVars == <<tunnel, settings>>
globals == <<running, server_fd, xproxy, configuration, cryptor>>
vars == <<sysVars, pc, index, starts, globals, heap, fds, thread>>

Runs == 1 .. MaxStarts
Loops == 1 .. NThread
Acceptor == 0                \* the accept thread's place in a run
Threads == Runs \X (Loops \cup {Acceptor})

\* What a run allocates.  <<name, run, 0>> occurs once, <<name, run, i>> for
\* each loop i.
Config(r) == <<"configuration", r, 0>>
Cryptor(r) == <<"cryptor", r, 0>>
Xproxy(r) == <<"xproxy", r, 0>>
El(r, i) == <<"el", r, i>>
Els(r) == {El(r, i) : i \in Loops}

\* What a run opens: the listening socket, the poller of xproxy_new, and a
\* poller and connections for each loop.
Listener(r) == <<"listener", r, 0>>
AcceptPoller(r) == <<"accept poller", r, 0>>
Poller(r, i) == <<"poller", r, i>>
Pollers(r) == {Poller(r, i) : i \in Loops}
Conn(r, i) == <<"connection", r, i>>

Init ==
    /\ tunnel = "down" /\ settings = 0
    /\ pc = "idle" /\ index = 0 /\ starts = 0
    /\ running = FALSE
    /\ server_fd = 0 /\ xproxy = 0 /\ configuration = 0 /\ cryptor = 0
    /\ heap = {} /\ fds = {}
    /\ thread = [t \in Threads |-> "none"]

-----------------------------------------------------------------------------
(* The system calls the provider, one call at a time                       *)

\* startTunnel with a configuration asks for the settings and returns.
StartTunnel ==
    /\ tunnel = "down" /\ pc = "idle"
    /\ starts + settings < MaxStarts
    /\ tunnel' = "starting" /\ settings' = settings + 1
    /\ UNCHANGED <<pc, index, starts, globals, heap, fds, thread>>

\* The completion of setTunnelNetworkSettings: an error is passed on, else
\* start_local_proxy is called, whatever happened to the tunnel meanwhile.
SettingsFail ==
    /\ settings > 0 /\ pc = "idle"
    /\ settings' = settings - 1
    /\ tunnel' = IF tunnel = "starting" THEN "down" ELSE tunnel
    /\ UNCHANGED <<pc, index, starts, globals, heap, fds, thread>>

SettingsApplied ==
    /\ settings > 0 /\ pc = "idle"
    /\ settings' = settings - 1
    /\ pc' = "configure"
    /\ starts' = starts + 1
    /\ UNCHANGED <<tunnel, index, globals, heap, fds, thread>>

StopTunnel ==
    /\ pc = "idle"
    /\ tunnel = "up" \/ (EarlyStop /\ tunnel = "starting")
    /\ tunnel' = "stopping"
    /\ pc' = "lower"
    /\ UNCHANGED <<settings, index, starts, globals, heap, fds, thread>>

-----------------------------------------------------------------------------
(* start_local_proxy                                                       *)

\* A mutation of AfterFailure: the handler is called without an error.
AfterFailureUp == "up"

\* What a tunnel is when the completion handler is given an error.
AfterFailure == "down"

\* It returns an error, which goes to the completion handler.
StartFails ==
    /\ pc' = "idle"
    /\ tunnel' = IF tunnel = "starting" THEN AfterFailure ELSE tunnel
    /\ UNCHANGED <<settings, index, starts, running, configuration, heap, thread>>

Configure ==
    /\ pc = "configure"
    /\ configuration' = starts
    /\ heap' = heap \cup {Config(starts)}
    /\ pc' = "cryptor"
    /\ UNCHANGED <<sysVars, index, starts, running, server_fd, xproxy, cryptor,
                   fds, thread>>

CryptorInit ==
    /\ pc = "cryptor"
    /\ cryptor' = starts
    /\ heap' = heap \cup {Cryptor(starts)}
    /\ pc' = "listen"
    /\ UNCHANGED <<sysVars, index, starts, running, server_fd, xproxy,
                   configuration, fds, thread>>

UnsupportedMethod ==
    /\ pc = "cryptor"
    /\ StartFails
    /\ UNCHANGED <<server_fd, xproxy, cryptor, fds>>

\* openfiles_init changes a limit of the process, or fails.
MaxOpenFiles ==
    /\ pc = "listen"
    /\ StartFails
    /\ UNCHANGED <<server_fd, xproxy, cryptor, fds>>

\* SO_REUSEPORT lets a second listener of the same user in.
Listen ==
    /\ pc = "listen"
    /\ server_fd' = starts
    /\ fds' = fds \cup {Listener(starts)}
    /\ pc' = "new"
    /\ UNCHANGED <<sysVars, index, starts, running, xproxy, configuration,
                   cryptor, heap, thread>>

\* server_fd becomes -1.
AddressInUse ==
    /\ pc = "listen"
    /\ server_fd' = 0
    /\ StartFails
    /\ UNCHANGED <<xproxy, cryptor, fds>>

XproxyNew ==
    /\ pc = "new"
    /\ xproxy' = starts
    /\ heap' = heap \cup {Xproxy(starts)} \cup Els(starts)
    /\ fds' = fds \cup {AcceptPoller(starts)} \cup Pollers(starts)
    /\ running' = TRUE
    /\ pc' = "run" /\ index' = 1
    /\ UNCHANGED <<sysVars, starts, server_fd, configuration, cryptor, thread>>

\* poller_open fails: server_fd is closed and keeps its value.
XproxyNewFails ==
    /\ pc = "new"
    /\ xproxy' = 0
    /\ fds' = fds \ {Listener(starts)}
    /\ StartFails
    /\ UNCHANGED <<server_fd, cryptor>>

\* A mutation of MoreLoops: <= for <.
MoreLoopsThanAre == index <= NThread + 1

\* The condition of the loop in xproxy_run.
MoreLoops == index \in Loops

\* xproxy_run: one thread per loop, then the accept thread.  pthread_create may
\* fail: it returns a positive number, which el_run takes for success, and
\* xproxy_run ignores.  A loop without a thread has a tid that nobody set; what
\* bind_to_cpu does with it may end the process.
ElRun ==
    /\ pc = "run" /\ MoreLoops
    /\ \/ thread' = [thread EXCEPT ![<<xproxy, index>>] = "check"] /\ pc' = pc
       \/ UNCHANGED thread /\ pc' \in {pc, "lost"}
    /\ index' = index + 1
    /\ UNCHANGED <<sysVars, starts, globals, heap, fds>>

RunAccepting ==
    /\ pc = "run" /\ ~MoreLoops
    /\ thread' \in {thread, [thread EXCEPT ![<<xproxy, Acceptor>>] = "check"]}
    /\ pc' = "idle"
    /\ tunnel' = IF tunnel = "starting" THEN "up" ELSE tunnel
    /\ UNCHANGED <<settings, index, starts, globals, heap, fds>>

-----------------------------------------------------------------------------
(* stop_local_proxy                                                        *)

\* A mutation of Lowered: running is left as it is.
LoweredNot == running

\* running after the first line of stop_local_proxy.
Lowered == FALSE

LowerRunning ==
    /\ pc = "lower"
    /\ running' = Lowered
    /\ pc' = "close"
    /\ UNCHANGED <<sysVars, index, starts, server_fd, xproxy, configuration,
                   cryptor, heap, fds, thread>>

\* A mutation of ToClose: the listening socket is left to xproxy_free.
ToCloseNothing == {}

\* What stop_local_proxy closes itself.
ToClose == {Listener(server_fd)}

CloseListener ==
    /\ pc = "close"
    /\ fds' = IF server_fd > 0 THEN fds \ ToClose ELSE fds
    /\ pc' = IF xproxy # 0 THEN "join" ELSE "release"
    /\ index' = Acceptor
    /\ UNCHANGED <<sysVars, starts, globals, heap, thread>>

\* Mutations of Joined: els are freed without waiting for their threads, and
\* the accept thread is not waited for.
JoinedNone(r, i) == TRUE
JoinedLoops(r, i) == i = Acceptor \/ thread[<<r, i>>] \in {"done", "none"}

\* pthread_join returns, for a tid that is no thread's with an error.
Joined(r, i) == thread[<<r, i>>] \in {"done", "none"}

\* A mutation of Freed: the whole array goes in the first round.
FreedAll == Els(xproxy)

\* What one round of the loop in xproxy_free frees.
Freed == {El(xproxy, index)}

\* xproxy_free: the accept thread is joined first; every loop is joined and
\* freed before the next one.  The poller of xproxy_new and the connections
\* are nobody's business.
JoinAcceptor ==
    /\ pc = "join" /\ index = Acceptor
    /\ Joined(xproxy, Acceptor)
    /\ index' = 1
    /\ UNCHANGED <<sysVars, pc, starts, globals, heap, fds, thread>>

JoinAndFree ==
    /\ pc = "join" /\ index \in Loops
    /\ Joined(xproxy, index)
    /\ heap' = heap \ Freed
    /\ fds' = fds \ {Poller(xproxy, index)}
    /\ index' = index + 1
    /\ UNCHANGED <<sysVars, pc, starts, globals, thread>>

\* Joining a thread that was never created: pthread_join is given whatever the
\* memory held, and may as well crash, or wait for something else.
JoinUnknown ==
    /\ pc = "join" /\ index <= NThread
    /\ thread[<<xproxy, index>>] = "none"
    /\ pc' = "lost"
    /\ UNCHANGED <<sysVars, index, starts, globals, heap, fds, thread>>

\* free(xproxy): the global keeps pointing there.
FreeXproxy ==
    /\ pc = "join" /\ index > NThread
    /\ heap' = heap \ {Xproxy(xproxy)}
    /\ pc' = "release"
    /\ UNCHANGED <<sysVars, index, starts, globals, fds, thread>>

\* The strings and the cryptor's key are freed, and stopTunnel completes.
Release ==
    /\ pc = "release"
    /\ heap' = heap \ {Config(configuration), Cryptor(cryptor)}
    /\ pc' = "idle"
    /\ tunnel' = "down"
    /\ UNCHANGED <<settings, index, starts, globals, fds, thread>>

-----------------------------------------------------------------------------
(* _io_thread and _accept_thread                                           *)

\* A step of thread t from one place to another that opens what.
Moves(t, from, to, what) ==
    /\ thread[t] = from
    /\ thread' = [thread EXCEPT ![t] = to]
    /\ fds' = fds \cup what
    /\ UNCHANGED <<sysVars, pc, index, starts, globals, heap>>

\* while (running)
Check(t) == Moves(t, "check", IF running THEN "wait" ELSE "done", {})

\* poller_wait comes back with events, or with nothing after a second.
WaitReturns(t) == Moves(t, "wait", "work", {})
WaitTimesOut(t) == Moves(t, "wait", "check", {})

\* poller_wait fails with EINTR; the accept thread only goes on waiting.
WaitFails(t) == t[2] # Acceptor /\ Moves(t, "wait", "done", {})

\* The callbacks of a batch: they use the cryptor and the configuration, and
\* may open, and later close, connections of the loop.
Serve(t) ==
    /\ t[2] # Acceptor
    /\ \E what \in SUBSET {Conn(t[1], t[2])} : Moves(t, "work", "check", what)

CloseConn(t) ==
    /\ t[2] # Acceptor /\ thread[t] = "work"
    /\ Conn(t[1], t[2]) \in fds
    /\ fds' = fds \ {Conn(t[1], t[2])}
    /\ UNCHANGED <<sysVars, pc, index, starts, globals, heap, thread>>

\* accept_cb gives the connections that wait, if the socket is still open, to
\* any loops.
AcceptConn(t) ==
    /\ t[2] = Acceptor
    /\ \E S \in SUBSET Loops :
          /\ S # {} => Listener(t[1]) \in fds
          /\ Moves(t, "work", "check", {Conn(t[1], i) : i \in S})

Thread(t) ==
    \/ Check(t) \/ WaitReturns(t) \/ WaitTimesOut(t) \/ WaitFails(t)
    \/ Serve(t) \/ CloseConn(t) \/ AcceptConn(t)

-----------------------------------------------------------------------------
Start ==
    \/ Configure \/ CryptorInit \/ UnsupportedMethod \/ MaxOpenFiles \/ Listen
    \/ AddressInUse \/ XproxyNew \/ XproxyNewFails \/ ElRun \/ RunAccepting

Stop ==
    \/ LowerRunning \/ CloseListener \/ JoinAcceptor \/ JoinAndFree
    \/ JoinUnknown \/ FreeXproxy \/ Release

Next ==
    \/ StartTunnel \/ SettingsFail \/ SettingsApplied \/ StopTunnel
    \/ Start \/ Stop
    \/ \E t \in Threads : Thread(t)

Spec == Init /\ [][Next]_vars

\* The provider's queue and the threads are scheduled.
FairSpec ==
    /\ Spec
    /\ WF_vars(Start \/ Stop)
    /\ \A t \in Threads : WF_vars(Thread(t))

-----------------------------------------------------------------------------
(* Correctness                                                             *)

Alive(t) == thread[t] \in {"check", "wait", "work"}

\* Type correctness.
TypeOK ==
    /\ tunnel \in {"down", "starting", "up", "stopping"}
    /\ settings \in Nat
    /\ pc \in {"idle", "configure", "cryptor", "listen", "new", "run", "lower",
               "close", "join", "release", "lost"}
    /\ index \in 0 .. NThread + 1
    /\ starts \in 0 .. MaxStarts
    /\ running \in BOOLEAN
    /\ server_fd \in 0 .. starts /\ xproxy \in 0 .. starts
    /\ configuration \in 0 .. starts /\ cryptor \in 0 .. starts
    /\ thread \in [Threads -> {"none", "check", "wait", "work", "done"}]

\* What thread t dereferences: a loop its el, a callback the configuration
\* and the cryptor too; the accept thread xproxy and all its loops.
Uses(t) ==
    IF t[2] = Acceptor THEN {Xproxy(t[1])} \cup Els(t[1])
    ELSE {El(t[1], t[2])}
           \cup (IF thread[t] = "work"
                 THEN {Config(configuration), Cryptor(cryptor)} ELSE {})

\* No thread ever uses memory that a stop has freed.
NoUseAfterFree == \A t \in Threads : Alive(t) => Uses(t) \subseteq heap

\* A stop closes, joins and frees only what is there: never a descriptor
\* that was closed before, whose number may be somebody else's by now, and
\* nothing twice.  (free(NULL), before the first start, is harmless.)
ReleasedOnce ==
    /\ pc = "close" /\ server_fd > 0 => Listener(server_fd) \in fds
    /\ pc = "join" =>
         /\ Xproxy(xproxy) \in heap
         /\ \A i \in Loops : i >= index => El(xproxy, i) \in heap
    /\ pc = "release" =>
         /\ configuration # 0 => Config(configuration) \in heap
         /\ cryptor # 0 => Cryptor(cryptor) \in heap

\* A thread belongs to the run the globals point to; no stop leaves one
\* behind and no start meets one that the flag raised again would keep
\* alive.
NoStrayThread ==
    \A t \in Threads : Alive(t) => t[1] = xproxy /\ pc \in {"idle", "run", "lower",
                                              "close", "join", "lost"}

\* Once the tunnel is down, by a stop or a failed start, nothing listens on
\* the port and no poller of a loop is open.  (Connections and the poller of
\* xproxy_new may be left.)
PortFree ==
    tunnel = "down" => \A r \in Runs : Listener(r) \notin fds /\ Pollers(r) \cap fds = {}

\* The system is told that the tunnel is up only when the proxy listens and
\* all that its threads work with is there, as the globals have it, whatever
\* failed before.  (That each thread was created is not part of it: a failing
\* pthread_create is no error of start_local_proxy.)
UpMeansListening ==
    tunnel = "up" =>
        /\ running /\ server_fd = xproxy /\ Listener(xproxy) \in fds
        /\ Pollers(xproxy) \subseteq fds
        /\ {Config(configuration), Cryptor(cryptor), Xproxy(xproxy)}
              \cup Els(xproxy) \subseteq heap

\* stopTunnel completes: each thread notices the flag.  Only a join of a thread
\* that was never created may not come back.
StopCompletes == (tunnel = "stopping") ~> (tunnel = "down" \/ pc = "lost")
=============================================================================
