------------------------------- MODULE Tunnel -------------------------------
(***************************************************************************)
(* Both halves of Xproxy and the TCP connection between them:              *)
(*                                                                         *)
(*    application == local-proxy ---- remote-proxy == site                 *)
(*               front        back front        back                       *)
(*                                                                         *)
(* L and R are the modules of the two programs; the far end of L's back is *)
(* R's front.  The names of their variables start with l and r.  A         *)
(* program that has closed leaves what its send buffers hold to the        *)
(* kernel, which goes on delivering it until the far end resets.           *)
(***************************************************************************)
EXTENDS Integers, Sequences

CONSTANTS
    Values,
    LocalBackend,   \* the poller of the local-proxy
    RemoteBackend,  \* the poller of the remote-proxy
    SndBuf, RcvBuf, RecvMax,
    Failing,
    Eager,          \* "front": a body may follow a plain request at once;
                    \* "back": a site behind CONNECT may speak first
    AppData,        \* what the application says, its request first
    SiteData        \* what the site says

VARIABLES
    lopen, lstage, lrxbuf, ltxbuf, lmask, larmed, linq, loutq, lfin, ltodo,
    lgot, lbatch, lcur, lpc, kind, ret, eager,
    ropen, rstage, rrxbuf, rtxbuf, rmask, rarmed, rinq, routq, rfin, rtodo,
    rgot, rbatch, rcur, rpc

L == INSTANCE LocalProxy WITH
        Backend <- LocalBackend, UpData <- AppData, DownData <- <<>>,
        HeadLen <- 1,
        open <- lopen, stage <- lstage, rxbuf <- lrxbuf, txbuf <- ltxbuf,
        mask <- lmask, armed <- larmed, inq <- linq, outq <- loutq,
        fin <- lfin, todo <- ltodo, got <- lgot, batch <- lbatch,
        cur <- lcur, pc <- lpc

R == INSTANCE RemoteProxy WITH
        Backend <- RemoteBackend, UpData <- <<>>, DownData <- SiteData,
        open <- ropen, stage <- rstage, rxbuf <- rrxbuf, txbuf <- rtxbuf,
        mask <- rmask, armed <- rarmed, inq <- rinq, outq <- routq,
        fin <- rfin, todo <- rtodo, got <- rgot, batch <- rbatch,
        cur <- rcur, pc <- rpc

\* What a step of the network leaves alone in the two programs.
lrest == <<lopen, lstage, lrxbuf, ltxbuf, lmask, lfin, ltodo, lbatch, lcur,
           lpc, kind, ret, eager>>
rrest == <<ropen, rstage, rrxbuf, rtxbuf, rmask, rfin, rtodo, rbatch, rcur,
           rpc>>
lvars == <<lrest, larmed, linq, loutq, lgot>>
rvars == <<rrest, rarmed, rinq, routq, rgot>>
vars == <<lvars, rvars>>

Init == L!Init /\ R!Init

-----------------------------------------------------------------------------
(* The programs, the application and the site                              *)

LocalThread == L!IoThread /\ UNCHANGED rvars
RemoteThread == R!IoThread /\ UNCHANGED lvars

AppSays == L!Deliver("front") /\ UNCHANGED rvars
AppCloses == L!Close("front") /\ UNCHANGED rvars

\* Most sites answer, and do not speak first.
SiteSays ==
    /\ ("back" \in eager /\ kind = "https") \/ rgot["back"] # <<>>
    /\ R!Arrive("back") /\ UNCHANGED lvars
SiteCloses == R!Finish("back") /\ UNCHANGED lvars

AppReads ==
    /\ loutq["front"] # <<>>
    /\ lgot' = [lgot EXCEPT !["front"] = Append(@, Head(loutq["front"]))]
    /\ loutq' = [loutq EXCEPT !["front"] = Tail(@)]
    /\ L!Wake("front", lopen /\ "out" \in lmask["front"])
    /\ UNCHANGED <<lrest, linq, rvars>>

SiteReads ==
    /\ routq["back"] # <<>>
    /\ rgot' = [rgot EXCEPT !["back"] = Append(@, Head(routq["back"]))]
    /\ routq' = [routq EXCEPT !["back"] = Tail(@)]
    /\ R!Wake("back", ropen /\ "out" \in rmask["back"])
    /\ UNCHANGED <<rrest, rinq, lvars>>

-----------------------------------------------------------------------------
(* The connection between the proxies                                      *)

\* A unit moves from one kernel to the other; what reaches a closed socket
\* is gone.
LinkUp ==
    /\ loutq["back"] # <<>>
    /\ loutq' = [loutq EXCEPT !["back"] = Tail(@)]
    /\ L!Wake("back", lopen /\ "out" \in lmask["back"])
    /\ IF ropen
       THEN /\ Len(rinq["front"]) < RcvBuf
            /\ rinq' = [rinq EXCEPT !["front"] =
                          Append(@, Head(loutq["back"]))]
            /\ R!Wake("front", "in" \in rmask["front"])
       ELSE UNCHANGED <<rinq, rarmed>>
    /\ UNCHANGED <<lrest, lgot, linq, rrest, rgot, routq>>

LinkDown ==
    /\ routq["front"] # <<>>
    /\ routq' = [routq EXCEPT !["front"] = Tail(@)]
    /\ R!Wake("front", ropen /\ "out" \in rmask["front"])
    /\ IF lopen
       THEN /\ Len(linq["back"]) < RcvBuf
            /\ linq' = [linq EXCEPT !["back"] =
                          Append(@, Head(routq["front"]))]
            /\ L!Wake("back", "in" \in lmask["back"])
       ELSE UNCHANGED <<linq, larmed>>
    /\ UNCHANGED <<rrest, rgot, rinq, lrest, lgot, loutq>>

\* The FIN of a closed program follows the last of its data.
FinUp ==
    /\ ~lopen /\ lstage["back"] # "none" /\ loutq["back"] = <<>>
    /\ R!Finish("front")
    /\ UNCHANGED lvars

FinDown ==
    /\ ~ropen /\ routq["front"] = <<>>
    /\ L!Close("back")
    /\ UNCHANGED rvars

\* Closing a socket that has unread data, or sending to a closed one, resets
\* the connection: what a closed program had left to send may be dropped.
ResetByLocal(c) ==
    /\ ~lopen /\ loutq[c] # <<>>
    /\ loutq' = [loutq EXCEPT ![c] = <<>>]
    /\ UNCHANGED <<lrest, lgot, linq, larmed, rvars>>

ResetByRemote(c) ==
    /\ ~ropen /\ routq[c] # <<>>
    /\ routq' = [routq EXCEPT ![c] = <<>>]
    /\ UNCHANGED <<rrest, rgot, rinq, rarmed, lvars>>

-----------------------------------------------------------------------------
Next ==
    \/ LocalThread \/ RemoteThread
    \/ AppSays \/ AppCloses \/ AppReads \/ SiteSays \/ SiteCloses \/ SiteReads
    \/ LinkUp \/ LinkDown \/ FinUp \/ FinDown
    \/ \E c \in {"front", "back"} : ResetByLocal(c) \/ ResetByRemote(c)

Spec == Init /\ [][Next]_vars

\* Both threads are scheduled, the network delivers, the far ends read.
FairSpec ==
    /\ Spec
    /\ WF_vars(LocalThread) /\ WF_vars(RemoteThread)
    /\ WF_vars(AppSays) /\ WF_vars(AppReads)
    /\ WF_vars(SiteSays) /\ WF_vars(SiteReads)
    /\ WF_vars(LinkUp) /\ WF_vars(LinkDown)
    /\ WF_vars(FinUp) /\ WF_vars(FinDown)

-----------------------------------------------------------------------------
(* Correctness                                                             *)

\* A CONNECT line is for the local-proxy, any other request for the site.
Control == {L!Connect, L!Reply, L!Established}
Spoken == L!Data \ Control
MessageUnits == IF kind = "https" THEN Spoken \ {AppData[1]} ELSE Spoken
Messages(s) == L!Keep(s, MessageUnits)

\* What is between the application and the site, nearest to its goal first.
UpInLocal ==
    loutq["back"]
      \o (IF lopen THEN ltxbuf["back"] \o lrxbuf["front"] \o linq["front"]
          ELSE <<>>)
UpInRemote ==
    routq["back"]
      \o (IF ropen
          THEN rtxbuf["back"] \o rrxbuf["front"] \o rinq["front"] \o UpInLocal
          ELSE <<>>)
DownInRemote ==
    routq["front"]
      \o (IF ropen THEN rtxbuf["front"] \o rrxbuf["back"] \o rinq["back"]
          ELSE <<>>)
DownInLocal ==
    loutq["front"]
      \o (IF lopen
          THEN ltxbuf["front"] \o lrxbuf["back"] \o linq["back"] \o DownInRemote
          ELSE <<>>)

P == INSTANCE Pipe WITH
        Scripts <- {[up |-> s, down |-> SiteData] :
                       s \in {AppData, Tail(AppData)}},
        todo <- [up |-> Messages(ltodo["front"]), down |-> rtodo["back"]],
        transit <- [up |-> Messages(UpInRemote), down |-> Messages(DownInLocal)],
        heard <- [up |-> Messages(rgot["back"]), down |-> Messages(lgot["front"])],
        cut <- ~(lopen /\ ropen)

\* The two proxies together are a pipe between the application and the site:
\* through handshake, packing, partial sends and reads nothing is lost,
\* repeated, reordered or made up, and when a proxy gives up what has come
\* out so far is still a beginning of what was said.
IsPipe == P!Spec

\* When the local-proxy has closed, the remote-proxy notices and closes its
\* pair too: no descriptor is left behind on the server.
RemoteFollows == (~lopen /\ lstage["back"] # "none") ~> ~ropen
=============================================================================
