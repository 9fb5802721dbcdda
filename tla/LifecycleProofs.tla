-------------------------- MODULE LifecycleProofs --------------------------
(***************************************************************************)
(* Lifecycle for any number of I/O threads and of starts, and whichever of *)
(* the threads could not be created.  The types hold                       *)
(* whatever the system does; the rest when a tunnel is only stopped once   *)
(* it is up.  Then everything alive belongs to the latest run, and what    *)
(* there is of that run follows from where start_local_proxy or            *)
(* stop_local_proxy stands: Calls, Globals, Workers, Memory, Descriptors.  *)
(***************************************************************************)
EXTENDS Lifecycle, TLAPS

USE NThreadAssumption, MaxStartsAssumption, EarlyStopAssumption

StartPcs == {"configure", "cryptor", "listen", "new", "run"}
StopPcs == {"lower", "close", "join", "release"}

\* The latest run has its proxy.
Serving == tunnel = "up" \/ pc \in {"run", "lower", "close", "join", "lost"}

\* xproxy_free is at work, or was when it got lost.
Joining == pc = "join" \/ (pc = "lost" /\ tunnel = "stopping")

Typed == TypeOK /\ starts + settings <= MaxStarts

\* One call of the provider at a time, and none of them late.
Calls ==
    /\ settings > 0 => settings = 1 /\ pc = "idle" /\ tunnel = "starting"
    /\ pc \in StartPcs => tunnel = "starting" /\ starts > 0
    /\ pc \in StopPcs => tunnel = "stopping"
    /\ tunnel = "stopping" => pc \in StopPcs \cup {"lost"}
    /\ pc = "lost" => tunnel \in {"starting", "stopping"}
    /\ tunnel = "up" => pc = "idle"

\* Each global variable is of the latest run from its assignment on.
Globals ==
    /\ pc \in {"cryptor", "listen", "new", "release"} \/ Serving =>
         configuration = starts
    /\ pc \in {"listen", "new", "release"} \/ Serving => cryptor = starts
    /\ pc = "new" \/ Serving => server_fd = starts
    /\ Serving => xproxy = starts /\ starts > 0
    /\ tunnel = "up" \/ pc = "run" => running

\* Threads are joined in the order of their loops.
Workers ==
    \A t \in Threads : Alive(t) =>
        Serving /\ t[1] = starts /\ (Joining => t[2] >= index)

Memory ==
    /\ pc \in {"cryptor", "listen", "new", "release"} \/ Serving =>
         Config(starts) \in heap
    /\ pc \in {"listen", "new", "release"} \/ Serving => Cryptor(starts) \in heap
    /\ Serving =>
         /\ Xproxy(starts) \in heap
         /\ \A i \in Loops : (Joining => i >= index) => El(starts, i) \in heap

\* The latest run listens.
Listening == pc = "new" \/ (Serving /\ ~Joining)

Descriptors ==
    /\ Listening => Listener(starts) \in fds
    /\ \A r \in Runs : Listener(r) \in fds => Listening /\ r = starts
    /\ \A r \in Runs, i \in Loops : Poller(r, i) \in fds =>
         Serving /\ r = starts /\ (Joining => i >= index)
    /\ Serving /\ ~Joining => \A i \in Loops : Poller(starts, i) \in fds

IInv == Typed /\ Calls /\ Globals /\ Workers /\ Memory /\ Descriptors

-----------------------------------------------------------------------------
(* A thread is a run and a place in it.                                    *)

LEMMA ThreadPair ==
    ASSUME NEW t \in Threads
    PROVE  t[1] \in Runs /\ t[2] \in Nat /\ t[2] <= NThread /\ t = <<t[1], t[2]>>
  BY DEF Threads, Runs, Loops, Acceptor

LEMMA PairThread ==
    ASSUME NEW r \in Runs, NEW i \in Loops \cup {Acceptor}
    PROVE  <<r, i>> \in Threads
  BY DEF Threads

-----------------------------------------------------------------------------
(* Type correctness                                                        *)

LEMMA TypedInit == Init => Typed
  <1> SUFFICES ASSUME Init PROVE Typed
    OBVIOUS
  <1>1. thread \in [Threads -> {"none", "check", "wait", "work", "done"}]
    BY DEF Init
  <1>2. index \in 0 .. NThread + 1 /\ starts \in 0 .. MaxStarts
    BY DEF Init
  <1>3. /\ server_fd \in 0 .. starts /\ xproxy \in 0 .. starts
        /\ configuration \in 0 .. starts /\ cryptor \in 0 .. starts
        /\ settings \in Nat /\ starts + settings <= MaxStarts
    BY DEF Init
  <1>4. /\ tunnel \in {"down", "starting", "up", "stopping"}
        /\ pc \in {"idle", "configure", "cryptor", "listen", "new", "run",
                  "lower", "close", "join", "release", "lost"}
        /\ running \in BOOLEAN
    BY DEF Init
  <1> QED
    BY <1>1, <1>2, <1>3, <1>4 DEF Typed, TypeOK

LEMMA TypedStep == Typed /\ [Next]_vars => Typed'
  <1> SUFFICES ASSUME Typed, [Next]_vars PROVE Typed'
    OBVIOUS
  <1> USE DEF Typed, TypeOK
  <1>1. CASE StartTunnel
    BY <1>1 DEF StartTunnel, sysVars, globals
  <1>2. CASE SettingsFail
    BY <1>2 DEF SettingsFail, sysVars, globals
  <1>3. CASE SettingsApplied
    BY <1>3 DEF SettingsApplied, sysVars, globals
  <1>4. CASE StopTunnel
    BY <1>4 DEF StopTunnel, sysVars, globals
  <1>5. CASE Configure
    BY <1>5 DEF Configure, sysVars, globals
  <1>6. CASE CryptorInit
    BY <1>6 DEF CryptorInit, sysVars, globals
  <1>7. CASE UnsupportedMethod
    BY <1>7 DEF UnsupportedMethod, sysVars, globals, StartFails, AfterFailure
  <1>8. CASE MaxOpenFiles
    BY <1>8 DEF MaxOpenFiles, sysVars, globals, StartFails, AfterFailure
  <1>9. CASE Listen
    BY <1>9 DEF Listen, sysVars, globals
  <1>10. CASE AddressInUse
    BY <1>10 DEF AddressInUse, sysVars, globals, StartFails, AfterFailure
  <1>11. CASE XproxyNew
    BY <1>11 DEF XproxyNew, sysVars, globals
  <1>12. CASE XproxyNewFails
    BY <1>12 DEF XproxyNewFails, sysVars, globals, StartFails, AfterFailure
  <1>13. CASE ElRun
    <2>1. index' \in 0 .. NThread + 1
      BY <1>13 DEF ElRun, MoreLoops, Loops
    <2>2. thread' \in [Threads -> {"none", "check", "wait", "work", "done"}]
      BY <1>13 DEF ElRun
    <2>3. pc' \in {pc, "lost"}
      BY <1>13 DEF ElRun
    <2> QED
      BY <1>13, <2>1, <2>2, <2>3 DEF ElRun, sysVars, globals
  <1>14. CASE RunAccepting
    BY <1>14 DEF RunAccepting, sysVars, globals
  <1>15. CASE LowerRunning
    BY <1>15 DEF LowerRunning, sysVars, globals, Lowered
  <1>16. CASE CloseListener
    BY <1>16 DEF CloseListener, sysVars, globals, Acceptor
  <1>17. CASE JoinAcceptor
    BY <1>17 DEF JoinAcceptor, sysVars, globals, Acceptor
  <1>18. CASE JoinAndFree
    BY <1>18 DEF JoinAndFree, sysVars, globals, Loops
  <1>19. CASE FreeXproxy
    BY <1>19 DEF FreeXproxy, sysVars, globals
  <1>20. CASE Release
    BY <1>20 DEF Release, sysVars, globals
  <1>21. CASE JoinUnknown
    BY <1>21 DEF JoinUnknown, sysVars, globals
  <1>22. ASSUME NEW t \in Threads, Thread(t) PROVE Typed'
    BY <1>22 DEF Thread, Check, WaitReturns, WaitTimesOut, WaitFails, Serve,
      CloseConn, AcceptConn, Moves, sysVars, globals
  <1>23. CASE UNCHANGED vars
    BY <1>23 DEF vars, sysVars, globals
  <1> QED
    BY <1>1, <1>2, <1>3, <1>4, <1>5, <1>6, <1>7, <1>8, <1>9, <1>10, <1>11, <1>12, <1>13, <1>14, <1>15, <1>16, <1>17, <1>18, <1>19, <1>20, <1>21, <1>22, <1>23 DEF Next, Start, Stop

\* The state keeps its types, whether or not a tunnel may be stopped early.
THEOREM TypeCorrect == Spec => []TypeOK
  <1>1. Typed => TypeOK
    BY DEF Typed
  <1> QED
    BY TypedInit, TypedStep, <1>1, PTL DEF Spec



-----------------------------------------------------------------------------
(* Safety when no tunnel is stopped early                                  *)

LEMMA IInvInit == Init => IInv
  <1> SUFFICES ASSUME Init PROVE IInv
    OBVIOUS
  <1>1. Typed
    BY TypedInit
  <1>2. Workers
    BY DEF Init, Workers, Alive, Serving
  <1> QED
    BY <1>1, <1>2 DEF Init, IInv, Calls, Globals, Memory, Descriptors, Serving,
      Joining, Listening, StartPcs, StopPcs

\* The provider's calls.
LEMMA ProviderStep ==
    ASSUME IInv, Typed', ~EarlyStop,  StartTunnel \/ SettingsFail \/ SettingsApplied \/ StopTunnel
    PROVE  IInv'
  <1> USE DEF IInv, Serving, Joining, StartPcs, StopPcs
  <1>1. CASE StartTunnel
    <2> USE <1>1 DEF StartTunnel, sysVars, globals
    <2>1. Calls'
      BY DEF Typed, TypeOK, Calls
    <2>2. Globals'
      BY DEF Typed, TypeOK, Calls, Globals
    <2>3. Workers'
      BY ThreadPair, PairThread DEF Typed, TypeOK, Calls, Globals, Workers, Alive
    <2>4. Memory'
      BY DEF Typed, TypeOK, Calls, Globals, Memory,
        Config, Cryptor, Xproxy, El, Els, Listener, AcceptPoller, Poller, Pollers, Conn
    <2>5. Descriptors'
      BY DEF Typed, TypeOK, Calls, Globals, Descriptors, Listening,
        Config, Cryptor, Xproxy, El, Els, Listener, AcceptPoller, Poller, Pollers, Conn
    <2> QED
      BY <2>1, <2>2, <2>3, <2>4, <2>5
  <1>2. CASE SettingsFail
    <2> USE <1>2 DEF SettingsFail, sysVars, globals
    <2>1. Calls'
      BY DEF Typed, TypeOK, Calls
    <2>2. Globals'
      BY DEF Typed, TypeOK, Calls, Globals
    <2>3. Workers'
      BY ThreadPair, PairThread DEF Typed, TypeOK, Calls, Globals, Workers, Alive
    <2>4. Memory'
      BY DEF Typed, TypeOK, Calls, Globals, Memory,
        Config, Cryptor, Xproxy, El, Els, Listener, AcceptPoller, Poller, Pollers, Conn
    <2>5. Descriptors'
      BY DEF Typed, TypeOK, Calls, Globals, Descriptors, Listening,
        Config, Cryptor, Xproxy, El, Els, Listener, AcceptPoller, Poller, Pollers, Conn
    <2> QED
      BY <2>1, <2>2, <2>3, <2>4, <2>5
  <1>3. CASE SettingsApplied
    <2> USE <1>3 DEF SettingsApplied, sysVars, globals
    <2>1. Calls'
      BY DEF Typed, TypeOK, Calls
    <2>2. Globals'
      BY DEF Typed, TypeOK, Calls, Globals
    <2>3. Workers'
      BY ThreadPair, PairThread DEF Typed, TypeOK, Calls, Globals, Workers, Alive
    <2>4. Memory'
      BY DEF Typed, TypeOK, Calls, Globals, Memory,
        Config, Cryptor, Xproxy, El, Els, Listener, AcceptPoller, Poller, Pollers, Conn
    <2>5. Descriptors'
      BY DEF Typed, TypeOK, Calls, Globals, Descriptors, Listening,
        Config, Cryptor, Xproxy, El, Els, Listener, AcceptPoller, Poller, Pollers, Conn
    <2> QED
      BY <2>1, <2>2, <2>3, <2>4, <2>5
  <1>4. CASE StopTunnel
    <2> USE <1>4 DEF StopTunnel, sysVars, globals
    <2>1. Calls'
      BY DEF Typed, TypeOK, Calls
    <2>2. Globals'
      BY DEF Typed, TypeOK, Calls, Globals
    <2>3. Workers'
      BY ThreadPair, PairThread DEF Typed, TypeOK, Calls, Globals, Workers, Alive
    <2>4. Memory'
      BY DEF Typed, TypeOK, Calls, Globals, Memory,
        Config, Cryptor, Xproxy, El, Els, Listener, AcceptPoller, Poller, Pollers, Conn
    <2>5. Descriptors'
      BY DEF Typed, TypeOK, Calls, Globals, Descriptors, Listening,
        Config, Cryptor, Xproxy, El, Els, Listener, AcceptPoller, Poller, Pollers, Conn
    <2> QED
      BY <2>1, <2>2, <2>3, <2>4, <2>5
  <1> QED
    BY <1>1, <1>2, <1>3, <1>4

\* A step of start_local_proxy.
LEMMA StartStep ==
    ASSUME IInv, Typed', Start
    PROVE  IInv'
  <1> USE DEF IInv, Serving, Joining, StartPcs, StopPcs
  <1>1. CASE Configure
    <2> USE <1>1 DEF Configure, sysVars, globals
    <2>1. Calls'
      BY DEF Typed, TypeOK, Calls
    <2>2. Globals'
      BY DEF Typed, TypeOK, Calls, Globals
    <2>3. Workers'
      BY ThreadPair, PairThread DEF Typed, TypeOK, Calls, Globals, Workers, Alive
    <2>4. Memory'
      BY DEF Typed, TypeOK, Calls, Globals, Memory,
        Config, Cryptor, Xproxy, El, Els, Listener, AcceptPoller, Poller, Pollers, Conn
    <2>5. Descriptors'
      BY DEF Typed, TypeOK, Calls, Globals, Descriptors, Listening,
        Config, Cryptor, Xproxy, El, Els, Listener, AcceptPoller, Poller, Pollers, Conn
    <2> QED
      BY <2>1, <2>2, <2>3, <2>4, <2>5
  <1>2. CASE CryptorInit
    <2> USE <1>2 DEF CryptorInit, sysVars, globals
    <2>1. Calls'
      BY DEF Typed, TypeOK, Calls
    <2>2. Globals'
      BY DEF Typed, TypeOK, Calls, Globals
    <2>3. Workers'
      BY ThreadPair, PairThread DEF Typed, TypeOK, Calls, Globals, Workers, Alive
    <2>4. Memory'
      BY DEF Typed, TypeOK, Calls, Globals, Memory,
        Config, Cryptor, Xproxy, El, Els, Listener, AcceptPoller, Poller, Pollers, Conn
    <2>5. Descriptors'
      BY DEF Typed, TypeOK, Calls, Globals, Descriptors, Listening,
        Config, Cryptor, Xproxy, El, Els, Listener, AcceptPoller, Poller, Pollers, Conn
    <2> QED
      BY <2>1, <2>2, <2>3, <2>4, <2>5
  <1>3. CASE UnsupportedMethod
    <2> USE <1>3 DEF UnsupportedMethod, sysVars, globals, StartFails, AfterFailure
    <2>1. Calls'
      BY DEF Typed, TypeOK, Calls
    <2>2. Globals'
      BY DEF Typed, TypeOK, Calls, Globals
    <2>3. Workers'
      BY ThreadPair, PairThread DEF Typed, TypeOK, Calls, Globals, Workers, Alive
    <2>4. Memory'
      BY DEF Typed, TypeOK, Calls, Globals, Memory,
        Config, Cryptor, Xproxy, El, Els, Listener, AcceptPoller, Poller, Pollers, Conn
    <2>5. Descriptors'
      BY DEF Typed, TypeOK, Calls, Globals, Descriptors, Listening,
        Config, Cryptor, Xproxy, El, Els, Listener, AcceptPoller, Poller, Pollers, Conn
    <2> QED
      BY <2>1, <2>2, <2>3, <2>4, <2>5
  <1>4. CASE MaxOpenFiles
    <2> USE <1>4 DEF MaxOpenFiles, sysVars, globals, StartFails, AfterFailure
    <2>1. Calls'
      BY DEF Typed, TypeOK, Calls
    <2>2. Globals'
      BY DEF Typed, TypeOK, Calls, Globals
    <2>3. Workers'
      BY ThreadPair, PairThread DEF Typed, TypeOK, Calls, Globals, Workers, Alive
    <2>4. Memory'
      BY DEF Typed, TypeOK, Calls, Globals, Memory,
        Config, Cryptor, Xproxy, El, Els, Listener, AcceptPoller, Poller, Pollers, Conn
    <2>5. Descriptors'
      BY DEF Typed, TypeOK, Calls, Globals, Descriptors, Listening,
        Config, Cryptor, Xproxy, El, Els, Listener, AcceptPoller, Poller, Pollers, Conn
    <2> QED
      BY <2>1, <2>2, <2>3, <2>4, <2>5
  <1>5. CASE Listen
    <2> USE <1>5 DEF Listen, sysVars, globals
    <2>1. Calls'
      BY DEF Typed, TypeOK, Calls
    <2>2. Globals'
      BY DEF Typed, TypeOK, Calls, Globals
    <2>3. Workers'
      BY ThreadPair, PairThread DEF Typed, TypeOK, Calls, Globals, Workers, Alive
    <2>4. Memory'
      BY DEF Typed, TypeOK, Calls, Globals, Memory,
        Config, Cryptor, Xproxy, El, Els, Listener, AcceptPoller, Poller, Pollers, Conn
    <2>5. Descriptors'
      BY DEF Typed, TypeOK, Calls, Globals, Descriptors, Listening,
        Config, Cryptor, Xproxy, El, Els, Listener, AcceptPoller, Poller, Pollers, Conn
    <2> QED
      BY <2>1, <2>2, <2>3, <2>4, <2>5
  <1>6. CASE AddressInUse
    <2> USE <1>6 DEF AddressInUse, sysVars, globals, StartFails, AfterFailure
    <2>1. Calls'
      BY DEF Typed, TypeOK, Calls
    <2>2. Globals'
      BY DEF Typed, TypeOK, Calls, Globals
    <2>3. Workers'
      BY ThreadPair, PairThread DEF Typed, TypeOK, Calls, Globals, Workers, Alive
    <2>4. Memory'
      BY DEF Typed, TypeOK, Calls, Globals, Memory,
        Config, Cryptor, Xproxy, El, Els, Listener, AcceptPoller, Poller, Pollers, Conn
    <2>5. Descriptors'
      BY DEF Typed, TypeOK, Calls, Globals, Descriptors, Listening,
        Config, Cryptor, Xproxy, El, Els, Listener, AcceptPoller, Poller, Pollers, Conn
    <2> QED
      BY <2>1, <2>2, <2>3, <2>4, <2>5
  <1>7. CASE XproxyNew
    <2> USE <1>7 DEF XproxyNew, sysVars, globals, Loops
    <2>1. Calls'
      BY DEF Typed, TypeOK, Calls
    <2>2. Globals'
      BY DEF Typed, TypeOK, Calls, Globals
    <2>3. Workers'
      BY ThreadPair, PairThread DEF Typed, TypeOK, Calls, Globals, Workers, Alive
    <2>4. Memory'
      BY DEF Typed, TypeOK, Calls, Globals, Memory,
        Config, Cryptor, Xproxy, El, Els, Listener, AcceptPoller, Poller, Pollers, Conn
    <2>5. Descriptors'
      BY DEF Typed, TypeOK, Calls, Globals, Descriptors, Listening,
        Config, Cryptor, Xproxy, El, Els, Listener, AcceptPoller, Poller, Pollers, Conn
    <2> QED
      BY <2>1, <2>2, <2>3, <2>4, <2>5
  <1>8. CASE XproxyNewFails
    <2> USE <1>8 DEF XproxyNewFails, sysVars, globals, StartFails, AfterFailure
    <2>1. Calls'
      BY DEF Typed, TypeOK, Calls
    <2>2. Globals'
      BY DEF Typed, TypeOK, Calls, Globals
    <2>3. Workers'
      BY ThreadPair, PairThread DEF Typed, TypeOK, Calls, Globals, Workers, Alive
    <2>4. Memory'
      BY DEF Typed, TypeOK, Calls, Globals, Memory,
        Config, Cryptor, Xproxy, El, Els, Listener, AcceptPoller, Poller, Pollers, Conn
    <2>5. Descriptors'
      BY DEF Typed, TypeOK, Calls, Globals, Descriptors, Listening,
        Config, Cryptor, Xproxy, El, Els, Listener, AcceptPoller, Poller, Pollers, Conn
    <2> QED
      BY <2>1, <2>2, <2>3, <2>4, <2>5
  <1>9. CASE ElRun
    <2> USE <1>9 DEF ElRun, sysVars, globals, MoreLoops, Loops
    <2>1. Calls'
      BY DEF Typed, TypeOK, Calls
    <2>2. Globals'
      BY DEF Typed, TypeOK, Calls, Globals
    <2>3. Workers'
      <3>1. \A t \in Threads : t # <<xproxy, index>> => thread'[t] = thread[t]
        BY DEF Typed, TypeOK
      <3>2. xproxy = starts
        BY DEF Globals
      <3>3. \A t \in Threads : Alive(t)' => t[1] = starts
        BY <3>1, <3>2 DEF Workers, Alive
      <3>4. pc' \in {"run", "lost"} /\ tunnel' = "starting"
        BY DEF Calls
      <3> QED
        BY <3>3, <3>4 DEF Workers
    <2>4. Memory'
      BY DEF Typed, TypeOK, Calls, Globals, Memory,
        Config, Cryptor, Xproxy, El, Els, Listener, AcceptPoller, Poller, Pollers, Conn
    <2>5. Descriptors'
      BY DEF Typed, TypeOK, Calls, Globals, Descriptors, Listening,
        Config, Cryptor, Xproxy, El, Els, Listener, AcceptPoller, Poller, Pollers, Conn
    <2> QED
      BY <2>1, <2>2, <2>3, <2>4, <2>5
  <1>10. CASE RunAccepting
    <2> USE <1>10 DEF RunAccepting, sysVars, globals, MoreLoops, Loops
    <2>1. Calls'
      BY DEF Typed, TypeOK, Calls
    <2>2. Globals'
      BY DEF Typed, TypeOK, Calls, Globals
    <2>3. Workers'
      BY ThreadPair, PairThread DEF Typed, TypeOK, Calls, Globals, Workers, Alive
    <2>4. Memory'
      BY DEF Typed, TypeOK, Calls, Globals, Memory,
        Config, Cryptor, Xproxy, El, Els, Listener, AcceptPoller, Poller, Pollers, Conn
    <2>5. Descriptors'
      BY DEF Typed, TypeOK, Calls, Globals, Descriptors, Listening,
        Config, Cryptor, Xproxy, El, Els, Listener, AcceptPoller, Poller, Pollers, Conn
    <2> QED
      BY <2>1, <2>2, <2>3, <2>4, <2>5
  <1> QED
    BY <1>1, <1>2, <1>3, <1>4, <1>5, <1>6, <1>7, <1>8, <1>9, <1>10 DEF Start

\* A step of stop_local_proxy.
LEMMA StopStep ==
    ASSUME IInv, Typed', Stop
    PROVE  IInv'
  <1> USE DEF IInv, Serving, Joining, StartPcs, StopPcs
  <1>1. CASE LowerRunning
    <2> USE <1>1 DEF LowerRunning, sysVars, globals, Lowered
    <2>1. Calls'
      BY DEF Typed, TypeOK, Calls
    <2>2. Globals'
      BY DEF Typed, TypeOK, Calls, Globals
    <2>3. Workers'
      BY ThreadPair, PairThread DEF Typed, TypeOK, Calls, Globals, Workers, Alive
    <2>4. Memory'
      BY DEF Typed, TypeOK, Calls, Globals, Memory,
        Config, Cryptor, Xproxy, El, Els, Listener, AcceptPoller, Poller, Pollers, Conn
    <2>5. Descriptors'
      BY DEF Typed, TypeOK, Calls, Globals, Descriptors, Listening,
        Config, Cryptor, Xproxy, El, Els, Listener, AcceptPoller, Poller, Pollers, Conn
    <2> QED
      BY <2>1, <2>2, <2>3, <2>4, <2>5
  <1>2. CASE CloseListener
    <2> USE <1>2 DEF CloseListener, sysVars, globals, Acceptor, Loops, ToClose
    <2>1. Calls'
      BY DEF Typed, TypeOK, Calls
    <2>2. Globals'
      BY DEF Typed, TypeOK, Calls, Globals
    <2>3. Workers'
      BY ThreadPair, PairThread DEF Typed, TypeOK, Calls, Globals, Workers, Alive
    <2>4. Memory'
      BY DEF Typed, TypeOK, Calls, Globals, Memory,
        Config, Cryptor, Xproxy, El, Els, Listener, AcceptPoller, Poller, Pollers, Conn
    <2>5. Descriptors'
      BY DEF Typed, TypeOK, Calls, Globals, Descriptors, Listening,
        Config, Cryptor, Xproxy, El, Els, Listener, AcceptPoller, Poller, Pollers, Conn
    <2> QED
      BY <2>1, <2>2, <2>3, <2>4, <2>5
  <1>3. CASE JoinAcceptor
    <2> USE <1>3 DEF JoinAcceptor, sysVars, globals, Acceptor, Loops, Joined
    <2>1. Calls'
      BY DEF Typed, TypeOK, Calls
    <2>2. Globals'
      BY DEF Typed, TypeOK, Calls, Globals
    <2>3. Workers'
      BY ThreadPair, PairThread DEF Typed, TypeOK, Calls, Globals, Workers, Alive
    <2>4. Memory'
      BY DEF Typed, TypeOK, Calls, Globals, Memory,
        Config, Cryptor, Xproxy, El, Els, Listener, AcceptPoller, Poller, Pollers, Conn
    <2>5. Descriptors'
      BY DEF Typed, TypeOK, Calls, Globals, Descriptors, Listening,
        Config, Cryptor, Xproxy, El, Els, Listener, AcceptPoller, Poller, Pollers, Conn
    <2> QED
      BY <2>1, <2>2, <2>3, <2>4, <2>5
  <1>4. CASE JoinAndFree
    <2> USE <1>4 DEF JoinAndFree, sysVars, globals, Loops, Joined, Freed
    <2>1. Calls'
      BY DEF Typed, TypeOK, Calls
    <2>2. Globals'
      BY DEF Typed, TypeOK, Calls, Globals
    <2>3. Workers'
      BY ThreadPair, PairThread DEF Typed, TypeOK, Calls, Globals, Workers, Alive
    <2>4. Memory'
      BY DEF Typed, TypeOK, Calls, Globals, Memory,
        Config, Cryptor, Xproxy, El, Els, Listener, AcceptPoller, Poller, Pollers, Conn
    <2>5. Descriptors'
      BY DEF Typed, TypeOK, Calls, Globals, Descriptors, Listening,
        Config, Cryptor, Xproxy, El, Els, Listener, AcceptPoller, Poller, Pollers, Conn
    <2> QED
      BY <2>1, <2>2, <2>3, <2>4, <2>5
  <1>5. CASE FreeXproxy
    <2> USE <1>5 DEF FreeXproxy, sysVars, globals, Loops
    <2>1. Calls'
      BY DEF Typed, TypeOK, Calls
    <2>2. Globals'
      BY DEF Typed, TypeOK, Calls, Globals
    <2>3. Workers'
      BY ThreadPair, PairThread DEF Typed, TypeOK, Calls, Globals, Workers, Alive
    <2>4. Memory'
      BY DEF Typed, TypeOK, Calls, Globals, Memory,
        Config, Cryptor, Xproxy, El, Els, Listener, AcceptPoller, Poller, Pollers, Conn
    <2>5. Descriptors'
      BY DEF Typed, TypeOK, Calls, Globals, Descriptors, Listening,
        Config, Cryptor, Xproxy, El, Els, Listener, AcceptPoller, Poller, Pollers, Conn
    <2> QED
      BY <2>1, <2>2, <2>3, <2>4, <2>5
  <1>6. CASE Release
    <2> USE <1>6 DEF Release, sysVars, globals
    <2>1. Calls'
      BY DEF Typed, TypeOK, Calls
    <2>2. Globals'
      BY DEF Typed, TypeOK, Calls, Globals
    <2>3. Workers'
      BY ThreadPair, PairThread DEF Typed, TypeOK, Calls, Globals, Workers, Alive
    <2>4. Memory'
      BY DEF Typed, TypeOK, Calls, Globals, Memory,
        Config, Cryptor, Xproxy, El, Els, Listener, AcceptPoller, Poller, Pollers, Conn
    <2>5. Descriptors'
      BY DEF Typed, TypeOK, Calls, Globals, Descriptors, Listening,
        Config, Cryptor, Xproxy, El, Els, Listener, AcceptPoller, Poller, Pollers, Conn
    <2> QED
      BY <2>1, <2>2, <2>3, <2>4, <2>5
  <1>7. CASE JoinUnknown
    <2> USE <1>7 DEF JoinUnknown, sysVars, globals
    <2>1. Calls' /\ tunnel = "stopping"
      BY DEF Typed, TypeOK, Calls
    <2>2. Globals'
      BY DEF Typed, TypeOK, Calls, Globals
    <2>3. Workers'
      BY <2>1 DEF Workers, Alive
    <2>4. Memory'
      BY <2>1 DEF Memory, Config, Cryptor, Xproxy, El
    <2>5. Descriptors'
      BY <2>1 DEF Descriptors, Listening, Listener, Poller
    <2> QED
      BY <2>1, <2>2, <2>3, <2>4, <2>5
  <1> QED
    BY <1>1, <1>2, <1>3, <1>4, <1>5, <1>6, <1>7 DEF Stop

\* A step of a thread moves it, if at all, and opens or closes connections;
\* one that is not alive stays so.
LEMMA ThreadMoves ==
    ASSUME Typed, NEW t \in Threads, Thread(t)
    PROVE  /\ Alive(t)
           /\ UNCHANGED <<sysVars, pc, index, starts, globals, heap>>
           /\ \A u \in Threads : u # t => thread'[u] = thread[u]
           /\ \A r : Listener(r) \in fds' <=> Listener(r) \in fds
           /\ \A r, i : Poller(r, i) \in fds' <=> Poller(r, i) \in fds
  <1> USE DEF Typed, TypeOK, Alive, Moves, Conn, Listener, Poller
  <1>1. CASE Check(t)
    BY <1>1 DEF Check
  <1>2. CASE WaitReturns(t) \/ WaitTimesOut(t) \/ WaitFails(t)
    BY <1>2 DEF WaitReturns, WaitTimesOut, WaitFails
  <1>3. CASE Serve(t)
    BY <1>3 DEF Serve
  <1>4. CASE CloseConn(t)
    BY <1>4 DEF CloseConn
  <1>5. CASE AcceptConn(t)
    BY <1>5 DEF AcceptConn
  <1> QED
    BY <1>1, <1>2, <1>3, <1>4, <1>5 DEF Thread

LEMMA ThreadStep ==
    ASSUME IInv, Typed', NEW t \in Threads, Thread(t)
    PROVE  IInv'
  <1> USE ThreadMoves DEF IInv, Serving, Joining, sysVars, globals
  <1>1. Calls' /\ Globals'
    BY DEF Calls, Globals
  <1>2. Workers'
    <2>1. \A u \in Threads : Alive(u)' => Alive(u)
      BY DEF Alive
    <2> QED
      BY <2>1 DEF Workers
  <1>3. Memory'
    BY DEF Memory, Config, Cryptor, Xproxy, El
  <1>4. Descriptors'
    BY DEF Descriptors, Listening
  <1> QED
    BY <1>1, <1>2, <1>3, <1>4

LEMMA IInvStep == ~EarlyStop /\ IInv /\ [Next]_vars => IInv'
  <1> SUFFICES ASSUME ~EarlyStop, IInv, [Next]_vars PROVE IInv'
    OBVIOUS
  <1>1. Typed'
    BY TypedStep DEF IInv
  <1>2. CASE UNCHANGED vars
    BY <1>2 DEF vars, sysVars, globals, IInv, Typed, TypeOK, Calls, Globals,
      Workers, Alive, Memory, Descriptors, Serving, Joining, Listening, Config, Cryptor,
      Xproxy, El, Listener, Poller
  <1>3. CASE StartTunnel \/ SettingsFail \/ SettingsApplied \/ StopTunnel
    BY <1>1, <1>3, ProviderStep
  <1>4. CASE Start
    BY <1>1, <1>4, StartStep
  <1>5. CASE Stop
    BY <1>1, <1>5, StopStep
  <1>6. ASSUME NEW t \in Threads, Thread(t) PROVE IInv'
    BY <1>1, <1>6, ThreadStep
  <1> QED
    BY <1>2, <1>3, <1>4, <1>5, <1>6 DEF Next

LEMMA Invariance == ~EarlyStop => (Spec => []IInv)
  <1> SUFFICES ASSUME ~EarlyStop PROVE Spec => []IInv
    OBVIOUS
  <1>1. IInv /\ [Next]_vars => IInv'
    BY IInvStep
  <1> QED
    BY IInvInit, <1>1, PTL DEF Spec

\* If tunnels are only stopped once they are up, no I/O or accept thread,
\* however late it wakes up, uses an el, the xproxy, the configuration or the
\* cryptor after stop_local_proxy has freed it.
THEOREM MemorySafe == ~EarlyStop => (Spec => []NoUseAfterFree)
  <1> SUFFICES ASSUME ~EarlyStop PROVE Spec => []NoUseAfterFree
    OBVIOUS
  <1>1. IInv => NoUseAfterFree
    <2> SUFFICES ASSUME IInv, NEW t \in Threads, Alive(t)
                 PROVE  Uses(t) \subseteq heap
      BY DEF NoUseAfterFree
    <2>1. Serving /\ t[1] = starts /\ (Joining => t[2] >= index)
      BY DEF IInv, Workers
    <2>2. t[2] \in Loops \cup {Acceptor}
      BY DEF Threads
    <2>3. CASE t[2] = Acceptor
      <3>1. Joining => index = 0
        BY <2>1, <2>3 DEF Acceptor, IInv, Typed, TypeOK
      <3>2. \A i \in Loops : El(starts, i) \in heap
        BY <2>1, <3>1 DEF IInv, Memory, Loops
      <3> QED
        BY <2>1, <2>3, <3>2 DEF Uses, Els, IInv, Memory
    <2>4. CASE t[2] \in Loops
      <3>1. t[2] # Acceptor
        BY <2>4 DEF Loops, Acceptor
      <3>2. El(t[1], t[2]) \in heap
        BY <2>1, <2>4 DEF IInv, Memory
      <3>3. Config(configuration) \in heap /\ Cryptor(cryptor) \in heap
        BY <2>1 DEF IInv, Memory, Globals
      <3> QED
        BY <3>1, <3>2, <3>3 DEF Uses
    <2> QED
      BY <2>2, <2>3, <2>4
  <1> QED
    BY Invariance, <1>1, PTL

\* Under the same assumption stop_local_proxy closes and frees nothing twice.
THEOREM NoDoubleRelease == ~EarlyStop => (Spec => []ReleasedOnce)
  <1> SUFFICES ASSUME ~EarlyStop PROVE Spec => []ReleasedOnce
    OBVIOUS
  <1>1. IInv => ReleasedOnce
    BY DEF IInv, ReleasedOnce, Globals, Memory, Descriptors, Listening, Serving, Joining
  <1> QED
    BY Invariance, <1>1, PTL

\* No thread of an earlier run is alive, and none at all once a stop is done.
THEOREM ThreadsJoined == ~EarlyStop => (Spec => []NoStrayThread)
  <1> SUFFICES ASSUME ~EarlyStop PROVE Spec => []NoStrayThread
    OBVIOUS
  <1>1. IInv => NoStrayThread
    BY DEF IInv, NoStrayThread, Workers, Globals, Calls, Serving
  <1> QED
    BY Invariance, <1>1, PTL

\* When the tunnel is down, however it came to that, the port is free for the
\* next start and the loops' pollers are closed.
THEOREM PortReleased == ~EarlyStop => (Spec => []PortFree)
  <1> SUFFICES ASSUME ~EarlyStop PROVE Spec => []PortFree
    OBVIOUS
  <1>1. IInv => PortFree
    BY DEF IInv, PortFree, Descriptors, Listening, Serving, Joining, Calls, StartPcs,
      StopPcs, Pollers
  <1> QED
    BY Invariance, <1>1, PTL

\* The system believes a tunnel up only when the proxy of the latest run
\* listens, and the memory and the pollers that its threads work with -- those
\* that could be created -- are there.
THEOREM UpIsListening == ~EarlyStop => (Spec => []UpMeansListening)
  <1> SUFFICES ASSUME ~EarlyStop PROVE Spec => []UpMeansListening
    OBVIOUS
  <1>1. ASSUME IInv, tunnel = "up" PROVE UpMeansListening
    <2>1. /\ Serving /\ ~Joining /\ Listening /\ running
          /\ xproxy = starts /\ server_fd = starts
          /\ configuration = starts /\ cryptor = starts
      BY <1>1 DEF IInv, Globals, Calls, Serving, Joining, Listening
    <2>2. Listener(xproxy) \in fds /\ Pollers(xproxy) \subseteq fds
      BY <1>1, <2>1 DEF IInv, Descriptors, Pollers
    <2>3. Config(configuration) \in heap /\ Cryptor(cryptor) \in heap
      BY <1>1, <2>1 DEF IInv, Memory
    <2>4. Xproxy(xproxy) \in heap /\ Els(xproxy) \subseteq heap
      BY <1>1, <2>1 DEF IInv, Memory, Els
    <2> QED
      BY <2>1, <2>2, <2>3, <2>4 DEF UpMeansListening
  <1>2. IInv => UpMeansListening
    BY <1>1 DEF UpMeansListening
  <1> QED
    BY Invariance, <1>2, PTL
=============================================================================
