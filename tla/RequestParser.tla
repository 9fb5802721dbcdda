--------------------------- MODULE RequestParser ---------------------------
(***************************************************************************)
(* The first half of handle_client_request in local-proxy.c: finding host  *)
(* and port in the head of an application's request, which TCP may deliver *)
(* in any number of pieces.  Every piece is appended to rxbuf and the      *)
(* parser starts again from the front.                                     *)
(*                                                                         *)
(* A head is a sequence of characters, given by their codes; one Word      *)
(* stands for a run of characters the parser does not look at, and Http    *)
(* for the four letters.                                                   *)
(***************************************************************************)
EXTENDS Integers, Sequences, SequencesExt, FiniteSetsExt

CONSTANTS
    Requests,   \* the requests applications send, see IsRequest
    MaxCuts     \* bound: how often recv may cut the line

ASSUME MaxCutsAssumption == MaxCuts \in Nat

VARIABLES
    req,      \* the request of the application
    sent,     \* how much of its head has arrived
    cuts,     \* history: where recv cut it
    rxbuf,    \* client->rxbuf
    kind,     \* client->type
    target    \* where the remote-proxy is asked to connect to

vars == <<req, sent, cuts, rxbuf, kind, target>>

Space == 32
Slash == 47
Colon == 58
Open == 91
Close == 93
Word == 97
Http == 104
HttpPrefix == <<Http, Colon, Slash, Slash>>

PortSpace == 65536   \* uint16_t

\* The number that the digits d stand for.
Decimal(d) ==
    LET value[i \in 0 .. Len(d)] ==
            IF i = 0 THEN 0 ELSE value[i - 1] * 10 + (d[i] - 48)
    IN  value[Len(d)]

\* A request by its parts; port is a sequence of digits, empty for none, and
\* stands for a port there is.
IsRequest(r) ==
    /\ r.kind \in {"http", "https"}
    /\ r.ipv6 \in BOOLEAN
    /\ r.port \in Seq(48 .. 57)
    /\ Decimal(r.port) < PortSpace

ASSUME RequestsAssumption == \A r \in Requests : IsRequest(r)

Host(r) == IF r.ipv6 THEN <<Word, Colon, Word>> ELSE <<Word, Word>>
Start == <<Word, Space>>
Version == <<Space, Word, Slash, Word>>
Scheme(r) == IF r.kind = "http" THEN HttpPrefix ELSE <<>>
Site(r) == IF r.ipv6 THEN <<Open>> \o Host(r) \o <<Close>> ELSE Host(r)

\* "GET http://host:port/path HTTP/1.1" or "CONNECT host:port HTTP/1.1"
Line(r) ==
    Start \o Scheme(r) \o Site(r)
      \o (IF r.port = <<>> THEN <<>> ELSE <<Colon>> \o r.port)
      \o (IF r.kind = "http" THEN <<Slash, Word>> ELSE <<>>)
      \o Version

NoTarget == [host |-> <<>>, port |-> 0]

-----------------------------------------------------------------------------
(* The parser                                                              *)

\* Where a scanning loop that began at i ends: behind s, and the parser
\* returns for more data, if there is no stop.
Scan(s, i, stops) ==
    Min({j \in i .. Len(s) : s[j] \in stops} \cup {Len(s) + 1})

\* parse_port: every character counts as a digit, in 16 bits.
Port(s) ==
    LET value[i \in 0 .. Len(s)] ==
            IF i = 0 THEN 0 ELSE (value[i - 1] * 10 + (s[i] - 48)) % PortSpace
    IN  value[Len(s)]

\* The outcomes: return 0, run past the end of what was received, connect.
More == [is |-> "more", to |-> NoTarget]
Overrun == [is |-> "overrun", to |-> NoTarget]
To(host, port) == [is |-> "connect", to |-> [host |-> host, port |-> port]]

\* host, then a port up to one of stops.  The loop over the port looks for
\* the end only after its first step and misses it if nothing follows ':'.
ToPort(s, host, i, stops) ==
    LET e == Scan(s, i, stops)
    IN  IF i > Len(s) THEN Overrun
        ELSE IF e > Len(s) THEN More
        ELSE To(host, Port(SubSeq(s, i, e - 1)))

\* s[i] is '['.  What follows ']' is read even if it has not arrived yet.
ParseIPv6(s, i) ==
    LET e == Scan(s, i + 1, {Close})
        host == SubSeq(s, i + 1, e - 1)
    IN  IF e > Len(s) THEN More
        ELSE IF e < Len(s) /\ s[e + 1] = Colon
        THEN ToPort(s, host, e + 2, {Slash})
        ELSE To(host, 80)

\* A mutation of ParseName: a port is not looked for.
ParseNoPort(s, i) ==
    LET e == Scan(s, i, {Colon, Space, Slash})
    IN  IF e > Len(s) THEN More ELSE To(SubSeq(s, i, e - 1), 80)

ParseName(s, i) ==
    LET e == Scan(s, i, {Colon, Space, Slash})
        host == SubSeq(s, i, e - 1)
    IN  IF e > Len(s) THEN More
        ELSE IF s[e] = Colon THEN ToPort(s, host, e + 1, {Space})
        ELSE To(host, 80)

\* Where the request's address begins; nothing to look at before that.
Address(s) == Scan(s, 1, {Space}) + 1

\* strncmp with "http://".  What lies behind the received data is zero, or
\* the tail of a CONNECT line that was dropped: it does not complete it.
IsHttp(s) == IsPrefix(HttpPrefix, SubSeq(s, Address(s), Len(s)))

Parse(s) ==
    LET i == Address(s) + (IF IsHttp(s) THEN Len(HttpPrefix) ELSE 0)
    IN  IF i > Len(s) THEN Overrun
        ELSE IF s[i] = Open THEN ParseIPv6(s, i)
        ELSE ParseName(s, i)

-----------------------------------------------------------------------------
Init ==
    /\ req \in Requests
    /\ sent = 0
    /\ cuts = {}
    /\ rxbuf = <<>>
    /\ kind = "unknown"
    /\ target = NoTarget

\* A mutation of Kept: rxbuf is always reset.
ResetAlways(s) == <<>>

\* The request stays in rxbuf if it is to be forwarded.
Kept(s) == IF IsHttp(s) THEN s ELSE <<>>

\* The next n characters arrive, all those recvfrom_client_cb reads at once.
Arrival(n) == SubSeq(Line(req), sent + 1, sent + n)

\* A mutation of Appended: the buffer is overwritten.
Overwritten(n) == Arrival(n)

Appended(n) == rxbuf \o Arrival(n)

Receive(n) ==
    /\ target = NoTarget
    /\ n \in 1 .. Len(Line(req)) - sent
    /\ Cardinality(cuts) < MaxCuts \/ sent + n = Len(Line(req))
    /\ sent' = sent + n
    /\ cuts' = IF sent' < Len(Line(req)) THEN cuts \cup {sent'} ELSE cuts
    /\ UNCHANGED req

\* No address yet: return 0 and leave everything as it is.
WaitForAddress(n) ==
    LET s == Appended(n)
    IN  /\ Receive(n)
        /\ Address(s) > Len(s)
        /\ rxbuf' = s
        /\ UNCHANGED <<kind, target>>

\* The kind is decided on what is there, and with it the fate of rxbuf.
HandleClientRequest(n) ==
    LET s == Appended(n)
        p == Parse(s)
    IN  /\ Receive(n)
        /\ Address(s) <= Len(s)
        /\ kind' = IF IsHttp(s) THEN "http" ELSE "https"
        /\ rxbuf' = Kept(s)
        /\ target' = p.to
        /\ p.is # "overrun"

\* Undefined behaviour: the scan goes on in foreign memory, finds anything
\* there, or nothing.
RunPastEnd(n) ==
    LET s == Appended(n)
    IN  /\ Receive(n)
        /\ Address(s) <= Len(s)
        /\ Parse(s) = Overrun
        /\ kind' = IF IsHttp(s) THEN "http" ELSE "https"
        /\ rxbuf' = Kept(s)
        /\ target' \in {NoTarget, [host |-> <<Word>>, port |-> 80]}

Next ==
    \E n \in 1 .. Len(Line(req)) :
        WaitForAddress(n) \/ HandleClientRequest(n) \/ RunPastEnd(n)

Spec == Init /\ [][Next]_vars

-----------------------------------------------------------------------------
(* Correctness                                                             *)

\* The host and the port the application means, 80 unless it says so.
Meant(r) ==
    [host |-> Host(r), port |-> IF r.port = <<>> THEN 80 ELSE Decimal(r.port)]

\* Forms of address the parser does not read as they are meant: a port that
\* a path follows (its characters are taken for digits, though README.txt has
\* 'GET http://example.com[:port]/'), and a port after an IPv6 address in
\* CONNECT.
Misread(r) == r.port # <<>> /\ (r.kind = "http") # r.ipv6

\* Places where a cut is harmful: inside or right after "http://", right
\* after ']' or the ':' before a port; for CONNECT anywhere in the address.
Fragile(r) ==
    LET n == Len(Start)
        site == n + Len(Scheme(r) \o Site(r))
    IN  IF r.kind = "https" THEN n + 1 .. Len(Line(r)) - Len(Version)
        ELSE n + 1 .. n + Len(HttpPrefix)
               \cup (IF r.ipv6 THEN {site} ELSE {})
               \cup (IF r.port # <<>> THEN {site + 1} ELSE {})

Sound == ~Misread(req) /\ cuts \cap Fragile(req) = {}

\* Types, and that a parser which returned 0 without deciding the kind has
\* kept everything.
TypeOK ==
    /\ req \in Requests
    /\ sent \in 0 .. Len(Line(req))
    /\ cuts \subseteq 1 .. sent
    /\ kind \in {"unknown", "http", "https"}
    /\ target.port \in 0 .. PortSpace - 1
    /\ kind = "unknown" => rxbuf = SubSeq(Line(req), 1, sent)

\* Of a request in a form that is read as it is meant (http://host/path,
\* http://[v6]/path, http://[v6]:port/path, CONNECT host[:port], CONNECT [v6];
\* not those in Misread), the remote-proxy is asked for the very host and port,
\* in whichever pieces the line arrives, unless a cut is at one of the places
\* in Fragile; and at the latest when the line is whole.
TargetRight ==
    Sound /\ (target # NoTarget \/ sent = Len(Line(req)))
        => target = Meant(req)

\* What README.txt:78-81 says: of 'GET http://example.com[:port]/' and
\* 'CONNECT example.com:443' domain and port are extracted and sent to the
\* remote-proxy.  Without a single cut, it is not so: of the first form the
\* port is read up to the space, path included.
DocumentedTarget ==
    ~req.ipv6 /\ cuts = {} /\ target # NoTarget => target = Meant(req)

\* A plain http request is in rxbuf as far as it has arrived, to be
\* forwarded after the reply; nothing of a CONNECT is.  Fragile cuts and the
\* forms in Misread are left out here too.
RequestIntact ==
    Sound /\ target # NoTarget =>
        /\ kind = req.kind
        /\ rxbuf = IF req.kind = "http" THEN SubSeq(Line(req), 1, sent)
                   ELSE <<>>

=============================================================================
