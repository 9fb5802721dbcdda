------------------------------- MODULE Pipe -------------------------------
(***************************************************************************)
(* What the proxies promise to an application and to the site it talks to: *)
(* "5. exchange data blindly" (README.txt).  Two streams, "up" to the site *)
(* and "down" to the application.  What is said is heard once and in       *)
(* order.  Either end, or a proxy, may cut the pipe, which ends both ways  *)
(* at once and may lose the tail of what is under way, but nothing else.   *)
(***************************************************************************)
EXTENDS Naturals, Sequences

CONSTANT Scripts   \* what the application and the site may have to say

VARIABLES
    todo,    \* what is still to be said
    transit, \* said, not yet heard
    heard,   \* what came out
    cut      \* TRUE once the pipe is broken

vars == <<todo, transit, heard, cut>>

Ways == {"up", "down"}

Init ==
    /\ todo \in Scripts
    /\ transit = [w \in Ways |-> <<>>]
    /\ heard = [w \in Ways |-> <<>>]
    /\ cut = FALSE

\* Nothing that is said into a broken pipe gets through.
Say(w) ==
    /\ todo[w] # <<>>
    /\ todo' = [todo EXCEPT ![w] = Tail(@)]
    /\ transit' = IF cut THEN transit
                  ELSE [transit EXCEPT ![w] = Append(@, Head(todo[w]))]
    /\ UNCHANGED <<heard, cut>>

Hear(w) ==
    /\ transit[w] # <<>>
    /\ heard' = [heard EXCEPT ![w] = Append(@, Head(transit[w]))]
    /\ transit' = [transit EXCEPT ![w] = Tail(@)]
    /\ UNCHANGED <<todo, cut>>

Cut ==
    /\ cut' = TRUE
    /\ \E u \in 0 .. Len(transit["up"]), d \in 0 .. Len(transit["down"]) :
          transit' = [w \in Ways |->
                        SubSeq(transit[w], 1, IF w = "up" THEN u ELSE d)]
    /\ UNCHANGED <<todo, heard>>

Next == Cut \/ \E w \in Ways : Say(w) \/ Hear(w)

Spec == Init /\ [][Next]_vars
=============================================================================
