# Formal model of XproxyApp

Xproxy is an HTTP proxy in two halves.  The *local-proxy* runs next to the
applications (inside the packet tunnel extension of the macOS/iOS app, or as a
program of its own); the *remote-proxy* runs on a server.  An application's
request makes the local-proxy open a connection to the remote-proxy and send an
encrypted SOCKS5 CONNECT; the remote-proxy connects to the site, answers, and
from then on both halves shovel bytes in both directions.  Both are C programs
around the same event loops, with no lock and a handful of callbacks.

This directory holds TLA+ modules for that machinery, TLC configurations that
check them on small instances, and proofs checked by TLAPS.

## 1. Inventory

| component | source | state it keeps | operations |
|---|---|---|---|
| event loop | `src/Xproxy/el.c`, `el.h` | one poller per thread; the batch `ev[128]` on the thread's stack | `el_watch`, `el_unwatch`, `_io_thread`, `handle_error`, `remove_tcp_connection` |
| connections | `tcp-connection.c`, `.h` | `peer`, `fd`, `stage`, `type`, `rxbuf`, `txbuf`, callbacks | new, free, append/move/reset of both buffers |
| poller | `poller.c` | interest mask per descriptor, in the kernel | watch, watch/unwatch read/write, unwatch, wait; epoll and kqueue versions |
| remote-proxy | `remote-proxy.c` | connections `local` (front) and `server` (back) | `accept_cb`, `recvfrom_local_cb`, `handle_handshake_request`, `stream_to_server`, `recvfrom_server_cb`, two `sendto_*_cb`, `main` |
| local-proxy | `local-proxy.c` | connections `client` (front) and `remote` (back) | `accept_cb`, `recvfrom_client_cb`, `handle_client_request`, `stream_to_remote`, `recvfrom_remote_cb`, `handle_handshake_response`, `stream_to_client`, two `sendto_*_cb`, `start_local_proxy`, `stop_local_proxy` |
| cryptor | `crypt.c` | key, cipher | `encrypt_cfb`, `decrypt_cfb`: a 4-byte length and the data, each packet on its own |
| accept thread, start-up | `xproxy.c` | `els[]`, listening socket, `running` | `xproxy_new`, `xproxy_run`, `_accept_thread`, `xproxy_free` |
| tunnel provider | `PacketTunnel/`, `macOSPacketTunnel/` | settings of the tunnel | `startTunnel`, `stopTunnel`, completion of `setTunnelNetworkSettings` |
| VPN manager and views | `src/Shared/` | list of configurations, selections, `isConnected`, `isOn`, `Defaults.selectedVPN` | asynchronous load and delete, save, start, stop, status notifications, `onChange` reactions |
| utilities | `utils.c`, `cfg.c`, `log.h` | none that lives on | sockets, `connect_nonblocking`, option files |

How they interact.  The accept thread allocates a connection and registers it
with the poller of loop `fd % nthread`; from then on only that loop's thread
touches it.  The thread collects a batch of events whose user data are raw
pointers to connections and calls `recv_cb` and `send_cb`.  During the handshake
`recv_cb` opens a second connection, registers it with the *same* loop and links
the two as peers.  Afterwards each callback reads from one peer, appends to the
`txbuf` of the other, sends what the socket takes, and switches interest between
"read this one" and "write that one".  A callback that returns -1, or a hang-up,
makes `handle_error` free the connection and its peer in the middle of the batch.

What is hard:

* *Object lifetime.*  Events of freed connections may still be in the batch, and
  `malloc` may hand out the same address to the accept thread or to a later
  callback.  Correct means: no event is ever dispatched to memory that is freed,
  belongs to another loop, or was recycled since the event was collected; peers
  live and die together; a hang-up is noticed whatever the mask is.
* *Back pressure.*  A slow reader must stop reading from the other side, and
  reading must resume when the output is flushed.  Correct means: bounded
  buffering, no stall, and no byte lost, doubled or out of order through partial
  reads, partial sends and packet boundaries.
* *Two pollers.*  On epoll one mask per descriptor is replaced by every call and
  events are edge triggered; on kqueue two filters are switched one by one and
  events are level triggered.  The same callbacks have to work on both.
* *Handshake.*  The order "request, reply, then data", with data that comes early,
  split or glued to a handshake packet.
* *Life cycle.*  Stopping and starting again in one process, threads joined,
  sockets closed; asynchronous Swift code around it.

`PROJECT.json` lists every such hazard at its line, with the property that
covers it or the reason why none does yet.

## 2. Modules

| module | models |
|---|---|
| `EventLoop` | all connections and all threads: `_io_thread`, `handle_error`, the accept thread, memory reuse.  Callbacks are abstracted to what they do to connection objects: link a new peer, change the masks of the pair, succeed or fail. |
| `EventLoopProofs` | theorems about `EventLoop` |
| `Poller` | what each poller call makes of a mask, on epoll and kqueue |
| `Relay` | one pair of peers in full: both sockets with their kernel buffers, both buffers of each connection, masks, edge/level triggered reports, the packet format, the network and the far ends |
| `RemoteProxy` | extends `Relay` with the callbacks of `remote-proxy.c` |
| `LocalProxy` | extends `Relay` with the callbacks of `local-proxy.c` |
| `RelayProofs` | lemmas about the operators and steps of `Relay` |
| `RemoteProxyProofs`, `LocalProxyProofs` | theorems about the two proxies |
| `LocalProxyUplinkProofs` | extends `LocalProxyProofs` with what the local-proxy makes of a request, however early it comes |
| `RequestParser` | the parser at the head of `handle_client_request`, fed piece by piece |
| `RequestParserProofs` | theorems about `RequestParser` |
| `Pipe` | what the proxies promise: two streams between an application and a site, which may be cut |
| `Tunnel` | instances of `LocalProxy` and `RemoteProxy`, the TCP connection between them, application and site; refines `Pipe` |
| `Lifecycle` | starting and stopping the local-proxy in the packet tunnel extension, its threads, memory and descriptors |
| `LifecycleProofs` | theorems about `Lifecycle` |
| `VpnManager` | the app: list of configurations, asynchronous tasks, the two switches and the notifications |
| `VpnManagerProofs` | theorems about `VpnManager` |
| `MC*` | instances for TLC |

`Tunnel` composes `LocalProxy` and `RemoteProxy`, which extend `Relay`, which
uses `Poller`.  `EventLoop`, `Lifecycle` and `VpnManager` stand on their own:
they share with the others a flag (`running`), a program (the local-proxy that
`Lifecycle` starts) and a status (the tunnel that `VpnManager` switches), never
the state their properties are about.

`EventLoop` and the proxies split the system along the seam the code has:
`EventLoop` proves that a pair is only ever touched by one thread and that its
events reach the right objects (`ConfinedToItsLoop`, `NoStaleEvent`), which is
why `RemoteProxy` and `LocalProxy` may look at one pair served by one thread.

### EventLoop

`Conns` are heap addresses, so that reuse can be expressed: a connection is
`alive` from `new_tcp_connection` to `free_tcp_connection`, and `fresh[l]` is a
history variable holding the addresses allocated since loop `l` collected its
batch.  `batch[l]` is what is left of `ev[]` (as a set: the order in which the
kernel reports is arbitrary, and nothing in the code depends on it), `cur[l]` the
event in hand with the flags already served cleared.  Blanking `ev[i].ptr` in
`remove_tcp_connection` is removing the events from the batch.  `poller_wait`
returns any set of events the kernel may report of the watched connections: on
epoll one per connection with all flags, on kqueue one per filter, with EOF
replacing read.  Freeing a pair is one step of the thread that owns it: no other
thread can see its inside (which `ConfinedToItsLoop` confirms), and the address
becomes available to other threads only afterwards.  The accept thread sees the
run flag only between two calls of `accept_cb`.

Abstracted: what the callbacks do to buffers (that is `Relay`), the 128 entries
of a batch (an instance has fewer connections; what does not fit is reported by
the next wait), the one-second timeout (an empty batch is a stutter), `nthread`
and the choice `fd % nthread` (any loop).

### Poller, Relay, RemoteProxy, LocalProxy

One pair.  `front` is the accepted connection, `back` the one opened in the
handshake.  Data is a sequence of units: `<<"data", v>>` is some payload,
`<<"len", n>>` the 4-byte length of a packet with `n` data units; splitting a
stream between any two units stands for splitting it at any byte.  The one cut
this leaves out, inside the 4 bytes of a length, leads to the same `return 0`
(`data_len < 4`) as a missing length.

`inq`/`outq` are the kernel buffers of a socket, bounded by `RcvBuf` and
`SndBuf`; `rxbuf`/`txbuf` those of the connection object; `todo`/`got` what a far
end will still send and has received.  A callback is split where the order of
its inner steps matters to others: `pc = "loop"` while the recv loop runs,
`"handle"` once what was read is being decoded, one step per packet.  Between two
steps the network may deliver and the far ends may read, as in reality.  All
`send` calls, buffer moves and mask switches of one packet are one step: the far
end can only make more room between `send` and the mask switch, and on epoll the
switch itself looks at the readiness again (`Rearm`), on kqueue the next wait
does.

`armed` is the ready list of an epoll instance: a wake-up or an
`EPOLL_CTL_ADD/MOD` on a ready descriptor puts it there, `epoll_wait` takes it
out.  `Failing` adds failing connects, receives and sends.  `ret` is the variable
of that name in `recvfrom_remote_cb`, whose -1 a later round overwrites.

In `LocalProxy` the first `HeadLen` units of the application's stream are the head
of its request, and the first of them holds the request line, which is all that
`handle_client_request` waits for: with `HeadLen = 2` the rest of the head may come
in a later read and is then streamed like any other data, before the reply and,
for a CONNECT, to the site.

`MaySend` says what the far ends do before they are answered.  In the protocol of
`src/README.txt:81-86` they wait: the application after its head, the other proxy
after the handshake, the site until it was asked.  The ends in the variable `eager`
do not: `"front"` is an application that sends the body of a plain request right
behind its head, as HTTP clients do, `"back"` a site behind CONNECT that speaks
first.  `eager` is chosen when the pair begins, any part of the constant `Eager`, so
that one instance has applications of both kinds, and a property that needs
patience can say `eager = {}`.  (In `RemoteProxy`, where it is the local-proxy that
may go on before the reply, `Eager` is a Boolean.)

### Pipe and Tunnel

`Tunnel` has two copies of the proxies' variables, `l...` and `r...`, and
instantiates the modules with them; the steps of the threads, of the application
and of the site are theirs.  Its own actions are the connection between the
proxies: a unit moves from `loutq["back"]` to `rinq["front"]` when there is room
(and wakes both pollers), the FIN of a closed program follows the last of its
data, and a reset may drop what a closed program had left to send.  Closed
sockets swallow what reaches them.

`Pipe` knows what is still to be said, what is in transit and what was heard, each
way, and whether the pipe was cut.  The refinement mapping reads `transit` off
all buffers between the two ends, nearest to the goal first, without lengths,
handshake packets and the CONNECT line (`Messages`); a buffer of a closed program
counts as far as the kernel still delivers it.  `cut` is that one of the programs
has closed.  So every step of every handler, however it packs, splits and moves
data, must be a step of `Pipe` or leave the concatenation as it is.

### Lifecycle

Run `n` is the `n`th call of `start_local_proxy`; the globals hold the run they
point to, and stay when `stop_local_proxy` frees what they point to.  `heap` and
`fds` hold what is allocated and open, labelled with name, run and loop.  `pc`
walks through `start_local_proxy` and `stop_local_proxy` call by call, `index` is
the loop counter of `xproxy_run` and `xproxy_free`, and the threads step through
their loops in between.  A thread is `work`ing while it handles a batch; only then
do its callbacks use `configuration` and `cryptor`.

The provider's calls come one at a time on its queue.  `settings` counts the
unanswered calls of `setTunnelNetworkSettings`, whose completion calls
`start_local_proxy`.  With `EarlyStop = TRUE` the system may call `stopTunnel`
before that; the code has no guard against it.

Abstracted: the strings of the configuration are one object; descriptor numbers
are labels, so a number is not reused; `poller_open` in `el_new`, whose result is
not checked, succeeds.  A failing `pthread_create` is modelled as the code has it:
no error of the start (`el.c:110` tests for a negative result, `xproxy.c:98` not at
all), only a thread that is not there.  Its `tid` is then whatever the memory held;
`bind_to_cpu` and `pthread_join` may return an error for it or end in undefined
behaviour, which is the `pc` `"lost"`.

### VpnManager

A configuration stands for what `==` compares (name, address, port), and
`saved` is the system's list of them.  `menu` is the `StatusView` in the menu bar
and `window` the `VPNConfigurationView`; `sel` and `on` are their selection and
their switch, `shown` and `seen` the values last rendered, so a difference is an
`onChange` that has not run yet.  A load or a delete is a task with a step per
suspension point; `delete` is not bound to the main actor, so the lookup of the
index and the removal are separate steps.  `notes` counts the notifications of a
changed status not yet delivered; their handler reads the status when it runs,
and although `StatusView.observeVpnStatus` names a connection to observe, that is
`nil` while nothing is selected, which observes all.

The user acts when everything is rendered (`Rendered`).  The history variables
`crossed`, `overlap` and `stale` name the situations in which the code promises
less; they are read by properties only, and each property says what it needs.

### RequestParser

The line `GET http://host:port/path HTTP/1.1` or `CONNECT host:port HTTP/1.1`
arrives in pieces; each piece is appended to `rxbuf` and parsed from the front.
Characters are their codes, because `parse_port` computes with them; one `Word`
stands for any run of characters the parser does not distinguish (so a cut inside
a word is a cut beside it).  `Parse` follows the code's loops, including where
they test for the end of the data only after a step: then the scan leaves the
buffer (`RunPastEnd`, undefined behaviour) and any outcome is possible.  The
reference is the request the line was built from (`Meant`).  `Fragile` lists the
cuts the code does not survive and `Misread` the forms of address it does not
read as meant; `TargetRight` and `RequestIntact` say that everything else is
safe.  One of the forms in `Misread` is the one `src/README.txt:78` documents, so
`DocumentedTarget` states that form without any restriction but "in one piece",
and is violated.  What happens after the parse is `LocalProxy`.

## 3. Runs

| run | instance | shows |
|---|---|---|
| `event_loop_epoll` | 2 addresses, 2 loops, signals that end a loop | all state invariants, `PairsDieTogether`, `ConfinedToItsLoop`, and `HangupReaped` under fairness |
| `remote_proxy_kqueue` | uplink packets of 1, 2 and 1 units, 3 units down, `SndBuf` 2, failures | conservation both ways, framing, back pressure, bounded buffering, delivery of the answer |
| `local_proxy_kqueue` | http and CONNECT, a body that may come at once or wait, packets of 1, 2 and 1 units down, failures | `UplinkConserved` however early the request is forwarded; an empty packet only after something was (`EmptyOnlyAfterEarly`); with ends that wait `DownlinkConserved`, and `RequestServed` under fairness |
| `request_parser` | names and IPv6, http and CONNECT, ports of 0, 1 and 5 digits, up to 3 cuts (`MaxCuts`) | target right and request intact for every form that is not in `Misread` and every cut that is not in `Fragile` |
| `tunnel` | a request and one more unit up, three units down, http and CONNECT, local-proxy on kqueue, remote-proxy on epoll, buffers of 2 | `IsPipe` (the refinement), `RemoteFollows` under fairness |
| `lifecycle` | 2 loops, 2 starts, threads that cannot be created, no early stop | no use after free, no double release, no stray thread, free port, up means listening; `StopCompletes` under fairness |
| `vpn_manager` | 2 configurations, 2 tasks, 4 actions of the user, 1 dropped connection | `ListTrue`, `ReactionsHarmless`; `Settles` under fairness |
| `remote_proxy_stall` | epoll, both directions blocked | **violated**, see below |
| `remote_proxy_stranded` | kqueue, several packets per read | **violated** |
| `local_proxy_stall` | kqueue, an application that reads slowly | **violated** |
| `tunnel_eager` | `tunnel` with a body right behind the request | **violated** |
| `request_parser_port` | the requests of `request_parser`, uncut | **violated** |

Bounds, and why they are enough.  Two addresses are a pair; with two loops each
can be in either thread, and either is reused by the accept thread while events of
the other are outstanding.  More addresses, and kqueue with its two events per
connection, are left to the theorems of `EventLoopProofs`, which hold for any number
of addresses and for both pollers.  `SndBuf = 2` is
the smallest send buffer that takes a handshake packet at once
(`BufferAssumption`: the code forgets the rest of a handshake answer that was
sent in part, which needs a send buffer of less than some 40 bytes on a fresh
socket) and is smaller than every sequence that is streamed, so that each send
is full, partial or refused in some behaviour.  `RecvMax` 2 and 3 (that is
`BUFF_SIZE - 1`) are smaller than what is pending, so that reads come full, short
and empty and cut packets everywhere.  `RcvBuf` bounds what the network has
delivered; it matters only in that several packets fit.  The streams have
packets of different lengths because two equal ones cannot show a slip of the
frame.  Three cuts give the parser four pieces: what it keeps from one piece to
the next is the buffer alone, so the pieces before the last two add nothing new.
In `tunnel` every buffer holds two units and three flow down, so that both proxies
block, split and pause; the longer streams are those of the runs of one proxy.
With failing calls as well (`Failing = TRUE`, 970,000 states, not kept as a run)
`IsPipe` holds too.  Two starts are one that fails or is stopped and
one after that, which meets all the globals the first has left (the theorems hold
for any number); the threads of a run do not interact except through the join, so
two loops show every order.  In `vpn_manager` four actions
are what two switches that cross, or an edit, a save and a delete with the load
after it, need.

Deadlock checking is off in every run: a closed pair, a stopped proxy and a pair
whose far ends have nothing left to say are all final.

Fairness.  `EventLoop!FairSpec`: each I/O thread is scheduled again and again
(they are ordinary threads, and poller_wait returns when there is something to
report).  In the proxies also the network delivers what was sent and the far
ends read what they are sent; nobody is assumed to close, fail or connect.
`Tunnel!FairSpec` assumes the same of both programs and of the connection between
them.  `Lifecycle!FairSpec` schedules the provider's queue and the threads, whose
`poller_wait` comes back after a second at the latest; nothing makes the system
start or stop a tunnel.  `VpnManager!FairSpec`: the main queue runs, and a
connection does not stay connecting or disconnecting for ever; the user and the
tasks (which wait for the system) owe nothing.
`HangupReaped` leaves out the connections of a loop whose thread a signal has ended
(`el.c:101`): it reaps nothing any more.

### What the violated runs show

All quote `src/README.txt:78-86`, the protocol's own description.

* `remote_proxy_stall` - `poller_watch_write` on epoll replaces the mask.  When
  the uplink and the downlink block within one batch, `poller_unwatch_read` of
  the second pair of calls erases the write interest the first one set, and that
  side's pending output is never flushed.
* `remote_proxy_stranded` - `stream_to_server` leaves complete packets in `rxbuf`
  when a send blocks; after the flush only *new* bytes from local make it look
  again.
* `local_proxy_stall` - `sendto_client_cb` and `sendto_remote_cb` have the two
  branches of `remote-proxy.c:362-367` exchanged: a complete drain never resumes
  reading.
* `tunnel_eager` - the client's stage becomes streaming when the CONNECT is sent,
  not when it is answered, so a body that follows its request is forwarded
  together with it before the reply; the remote-proxy's handshake resets the whole
  `rxbuf`, so when it reads both packets at once the request is gone.
* `request_parser_port` - the port of `http://name:8/a` is read up to the blank, path
  included: each character adds its distance from `'0'`, and 8, `/`, `a` make
  (8*10 - 1)*10 + 49 = 839.

The delivery properties that do hold are stated for the instances in which the
above cannot happen: `DownlinkDelivered` of the remote-proxy on kqueue, and
`RequestServed` of the local-proxy.  On the instance of `tunnel` the mirror image of
`RemoteFollows` fails by the defect of `local_proxy_stall`: with output to the
application drained and remote no longer read, the local-proxy on kqueue does not
see the remote-proxy close.

### What the restrictions of other properties stand for

TLC finds each of these when the restriction is dropped.  Of the first three, those
of the local-proxy, `src/README.txt:83-86` says otherwise too; the cause is the one
that `tunnel_eager` shows, so they are not runs of their own.

* `LocalProxy`, `eager = {}`: with `"front"` eager the remote-proxy may answer a
  request that was forwarded early, and with `"back"` eager a site's greeting
  follows the reply at once: what is read together with the reply is lost, since
  `handle_handshake_response` resets the whole `rxbuf` (`local-proxy.c:418`).  And a
  body that came early may block; what is left of a packet sent in part is then
  never sent, by the inverted switch of `local_proxy_stall`.
* `LocalProxy`, `HeadLen = 1`: the rest of a head that comes in a second read is
  forwarded before the reply (`local-proxy.c:270`, `362-364`), of a CONNECT to the
  site, which may answer it as early.  `UplinkConserved` and `EmptyOnlyAfterEarly` are
  proved for every `HeadLen`.
* `LocalProxy`, `EmptyOnlyAfterEarly`: the empty packet does occur, when the whole of
  a plain request left before the reply and the reply makes `stream_to_remote` pack
  an empty `rxbuf` (`local-proxy.c:452-453`, `296`).  The remote-proxy's `decrypt`
  returns 0, "need more data", for it, and nothing behind it is ever decoded.
* `Lifecycle`, `EarlyStop = TRUE`: a stop that overtakes the completion of
  `setTunnelNetworkSettings` (`PacketTunnelProvider.swift:50`) lets the proxy start
  after its own stop; the next start overwrites `xproxy` while the old threads go
  on using the configuration and the cryptor a later stop frees, and a stop with
  nothing started since the last one frees `xproxy` twice.
* `VpnManager`, `crossed`: a connect that fails between the notification and the
  reaction to it makes the app start the tunnel again by itself; a load that ends
  while the selected tunnel is connecting moves the selection, whose reaction
  writes the switch to off and stops the tunnel.
* `VpnManager`, `overlap`: two loads empty the list first and append afterwards, so
  every configuration appears twice; a load beside a delete empties the list
  between the lookup of the index and `remove(at:)`, which traps.
* `RequestParser`, `Misread`: besides the form of `request_parser_port`, the port of
  `CONNECT [v6]:port` is read up to the next `/`, that of `HTTP/1.1`.
* `RequestParser`, `Fragile`: cuts inside `http://` or the address of a CONNECT, and
  right after a `:` or `]` in front of a port.

In `PROJECT.json` a hazard that such a restriction excludes has no property, only a
note; where a property covers a part of one, the note says which.

## 4. Proofs

`EventLoopProofs` proves, for every set of addresses and loops, both pollers and
with or without failing waits (assumption: `Null` is neither an address nor a
loop), that `Spec` implies `[]TypeOK`, `[]NoStaleEvent`, `[]WatchedIsAlive`,
`[]PeersPaired`, `[]WriteHasPeer`, and the action properties `PairsDieTogether`
and `ConfinedToItsLoop`.

None of the five invariants is inductive alone.  `handle_error` frees the peer
of the connection in hand, and no outstanding event of *another* thread names it
only because peers share their loop (`PeersPaired`) and events belong to the
loop the connection is watched in (`NoStaleEvent`); a new batch is sound because
only live connections are watched (`WatchedIsAlive`); `peer` may be dereferenced
in `send_cb` because nobody asks for write readiness before there is a peer and
the pair's events vanish together (`WriteHasPeer`).  Their conjunction `IInv` is
inductive; there is one lemma per kind of step, `DoomedFacts` says what
`handle_error` may free, and the action properties follow from `IInv` by
`ConfinedStep`, which names for every change of a watched connection the thread
and the event it is due to.

`RemoteProxyProofs` is about one pair of the remote-proxy, for all streams
`UpData` and `DownData`, all buffer sizes, any order of arrival and fetching, with
and without failures (assumptions: the streams are sequences of units, a send
buffer holds two units or more, receive buffers and reads are not empty).  On
both pollers `Spec` implies `[]TypeOK`; on kqueue it implies
`[]PausedWhilePending`, `[]NoEmptySend` and `[]BoundedOutput`.

The three need one invariant, `Flow`.  `PausedWhilePending` speaks of the masks,
but a callback runs on an *event*, which was collected when the mask was another
one; so `EventsTimely` says that of the events still to be handled none has been
made stale by those before it: nobody reads for a peer with output pending
(hence at most one packet is ever buffered) and nobody writes without any.  It
is inductive because a kqueue event has one flag (`EventsPlain`), is collected
only for an enabled filter, and the two callbacks that change a `txbuf` change
that of the one end whose other events cannot be in the batch.  `Unconnected`
says why the handshake starts from empty buffers, so that its answer is never
sent in part.  `ForwardStep` and `SendToFlow` are the two steps that matter; all
others leave what `Flow` talks about alone (`QuietFlow`).  On epoll
`PausedWhilePending` and `BoundedOutput` are false, since `EPOLL_CTL_MOD` replaces
the mask (`remote_proxy_stall` shows what comes of it).

*Conservation* (`RemoteProxyProofs`, `LocalProxyProofs`) holds on both pollers,
for all streams, buffer sizes, cuts and failures.  For the remote-proxy, and for
the downlink of the local-proxy, it needs what the far ends owe by the protocol:
`Protocol` says that a head comes at once, that the first packet is the handshake,
and that what follows is packets with data in them; for the remote-proxy also that
the other end waits, for the local-proxy `DownlinkConserved` says so itself
(`eager = {}`).  Without that the properties are false, as `tunnel_eager` shows.
Each run of a proxy has its own streams evaluated against it (`MCProtocol`).  Then
`RemoteProxy!Spec` implies `[]UplinkConserved`, `[]DownlinkConserved` and `[]Framed`;
`LocalProxy!Spec` implies `[]DownlinkConserved`, and `[]TypeOK` without `Protocol`.

The uplink of the local-proxy needs none of it (`LocalProxyUplinkProofs`): for every
length of the head, far ends as early as they like and anything at all from the
remote-proxy, `Spec` implies `[]UplinkConserved` and `[]EmptyOnlyAfterEarly`; all that
is assumed is that the application sends bytes (`Words`).  The invariant `UInv` keeps
count of what the phases `Asking`, `Waiting` and `Relaying` may already have sent;
`OneZero` says that a length of 0 is sent once, behind the CONNECT packet and a
packet with data, and `Finds` that a recv loop that comes to its handler has
something to hand over, which is why only the reply can make an empty packet.

The inductive invariant follows the handshake.  In the remote-proxy (`CInv`) the
uplink is either still `Asking`, and then everything the far end has said is
exactly the request, or `Streaming`.  In the local-proxy (`LInv`, for the downlink)
a pair is `Fresh`, `Connecting` or `Streaming`.  The phases
are what makes the resets of `rxbuf` after a handshake harmless: what is thrown
away is the handshake packet and nothing else.  Within a phase every step moves
units along a fixed concatenation of buffers; `RelayProofs` has the lemmas about
that concatenation.  `Payload` (the data in a stream of packets) is defined by a
recursive function `Keep`; that it distributes over concatenation is proved by
the least counterexample, since the induction theorems of the library take an
operator the provers cannot instantiate.

`VpnManagerProofs` is about any finite set of configurations (`ConfsAssumption`:
the preferences are a finite list), any number of tasks, and without the bounds
of the run.  `Spec` implies `[]TypeOK`, `[]ListTrue` and the
action property `ReactionsHarmless`.  For the list, `Loads` says at every
suspension point of a task what the list already holds of `saved`, and `Alone`
that as long as tasks have not overlapped there is one to say it of.  For the
switches, `SwitchesHarmless` says of a switch whose reaction is due and that the
user has not touched that it already agrees with its tunnel, and
`SelectionSteady` when a selection may still move; the reaction then asks for
the state the tunnel is in.

`RequestParserProofs` is about any requests and any number of cuts.  The
assumption is `IsRequest`: a request is a line of the form `Line` gives it,
and its port, if it has one, is a number of 16 bits in any number of digits
(leading zeros included).  `Spec` implies `[]TypeOK`, `[]TargetRight` and
`[]RequestIntact`.  `ParseRight` is the argument: the beginning `s` of a line that
is not `Misread` and that ends at no `Fragile` place is parsed to what the
application means, or, for a plain request, not yet.  It has one lemma for each
of the four forms of a line (`HttpNameRight`, `HttpIPv6Right`, `HttpsNameRight`,
`HttpsIPv6Right`), each of which follows the loops of the parser by where a `Scan`
ends.  `PortAsMeant` says that the sixteen-bit arithmetic of `parse_port` computes
the number that is meant: `Port` is `Decimal` modulo 2^16 for every sequence of
characters (`PortIsDecimal`, again by the least counterexample).  The invariant
`IInv` adds to this only `Shape`: until the target is known all that has arrived is
in `rxbuf`, so the parser always starts again from the front of the line.  The two
restrictions enter at one place each: without `~Misread` the lemma of the form is
false (section 3), and a cut at a `Fragile` place makes the parser decide on too
little, after which `rxbuf` is no longer the front of the line.

`LifecycleProofs` is about any number of loops and of starts.  `[]TypeOK` holds in
general; `[]NoUseAfterFree`, `[]ReleasedOnce`, `[]NoStrayThread`, `[]PortFree` and
`[]UpMeansListening` under the assumption that a tunnel is only stopped once it is up
(`~EarlyStop`), without which they are false.  They follow from one invariant,
which says what there is of the latest run at every `pc`: the provider's calls do
not overlap (`Calls`), each global is of the latest run from its assignment on
(`Globals`), a living thread is of that run and not yet joined (`Workers`), and
memory and descriptors are exactly those not yet freed (`Memory`,
`Descriptors`).  The order of the joins enters through `Workers`: in round `index`
of `xproxy_free` only loops from `index` on are alive, and since the accept thread
comes first, whoever uses all loops is gone before the first is freed.  There is
a lemma for each of the three callers and for the threads (`ThreadMoves` says what
a thread may change), with one case per action and one step per conjunct.

Only model-checked: liveness (`HangupReaped`, `DownlinkDelivered`,
`RequestServed`, `RemoteFollows`, `StopCompletes`, `Settles`), which is out of
reach of the provers here, and the refinement `IsPipe`.

## 5. Not modelled

* `src/openssl/`: headers of a vendored library, by far the largest part of the
  repository by lines; nothing of it is the program's own logic.
* `cfg.c`, `log.h`, option parsing of the two `main`s and most of `utils.c`: input
  and output without state of their own.  What `connect_nonblocking`,
  `listen_and_bind` and `openfiles_init` may return is modelled, the three seconds
  of waiting in the first are not: there is no time.
* the ciphers: a packet is readable or incomplete.  A decryption failure is an
  error return, covered by `CallFails`.
* the addresses in SOCKS5 messages; host names longer than `host[256]`.
* the capacity arithmetic of `tcp_connection_append_rxbuf` and `_txbuf`, and memory
  exhaustion (`oom` ends the process).
* the preferences (`startVPN` is stored and read by nobody), layout and drawing of
  the views, the fields of a configuration while it is
  edited, alerts, the iOS variant of the app (one list, no menu bar); enabling a
  manager that another VPN application disabled, which delays a start by a save.
* descriptor numbers and their limit; a failing `poller_open` in `el_new`, which the
  code does not check.

## 6. Plan

1. The steps of the refinement `IsPipe`, from the lemmas of `RelayProofs`.
2. `TcpConnection`: length and capacity arithmetic of the buffers in 32 bits,
   with the bounds as theorems.
3. `VpnManager`: the delayed start of a disabled manager.
