--------------------------- MODULE MCRemoteProxy ---------------------------
(* Small streams for RemoteProxy: packets of one and two units from the    *)
(* local-proxy, three units from the server.                               *)
EXTENDS RemoteProxy

D(v) == <<"data", v>>
MCValues == {"request", "reply", "a", "b", "c", "d"}
Handshake == Encrypt(<<Request>>)

MCUp == Handshake \o Encrypt(<<D("a"), D("b")>>) \o Encrypt(<<D("c")>>)
MCUpLong == MCUp \o Encrypt(<<D("d")>>)
MCUpNone == Handshake
MCDown == <<D("a"), D("b"), D("c")>>
MCDownNone == <<>>

\* The theorems on conservation are about these streams, among others.
ASSUME MCProtocol == Protocol
=============================================================================
