-------------------------- MODULE MCRequestParser --------------------------
(* Requests for RequestParser: with and without a port, for names and IPv6 *)
(* addresses, those that are Misread among them, which TargetRight and     *)
(* RequestIntact leave out and DocumentedTarget, for names, does not.      *)
(* 65535 and 8 are ports of many and few digits.                           *)
EXTENDS RequestParser

Ports == {<<>>, <<56>>, <<54, 53, 53, 51, 53>>}

MCRequests == [kind : {"http", "https"}, ipv6 : BOOLEAN, port : Ports]
=============================================================================
