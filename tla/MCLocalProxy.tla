---------------------------- MODULE MCLocalProxy ----------------------------
(* Small streams for LocalProxy: three units from the application, the     *)
(* first of which is the head of its request, and packets of one, two and  *)
(* one units from the remote-proxy, or one more.                           *)
EXTENDS LocalProxy

D(v) == <<"data", v>>
MCValues == {"request", "connect", "reply", "200", "a", "b", "c", "d"}

MCUp == <<D("request"), D("a"), D("b")>>
MCDown == Encrypt(<<Reply>>) \o Encrypt(<<D("a"), D("b")>>) \o Encrypt(<<D("c")>>)
MCLongDown == MCDown \o Encrypt(<<D("d")>>)

\* The theorems on conservation are about these streams, among others.
ASSUME MCWords == UpData \in Seq(Data)
ASSUME MCProtocol == Protocol
=============================================================================
