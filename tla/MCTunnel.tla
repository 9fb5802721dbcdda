----------------------------- MODULE MCTunnel -----------------------------
(* Short conversations for Tunnel: a request and one more unit from the     *)
(* application, three units from the site.                                   *)
EXTENDS Tunnel

D(v) == <<"data", v>>
MCValues == {"request", "connect", "reply", "200", "a", "x", "y", "z"}

MCApp == <<D("request"), D("a")>>
MCSite == <<D("x"), D("y"), D("z")>>
=============================================================================
