------------------------------- MODULE Poller -------------------------------
(* poller.c: what each call makes of the interest mask of a descriptor.    *)
(* EPOLL_CTL_MOD replaces the whole mask; kqueue keeps one filter per kind *)
(* and switches each one on its own.  The same calls, two meanings.        *)

CONSTANT Backend  \* "epoll" (__linux__) or "kqueue" (everything else)

ASSUME BackendAssumption == Backend \in {"epoll", "kqueue"}

Kinds == {"in", "out"}

\* EV_ENABLE and EV_DISABLE of one filter.
Enabled(m, kind) == m \cup {kind}
Disabled(m, kind) == m \ {kind}

WatchMask == {"in"}
WatchReadMask(m) == IF Backend = "epoll" THEN {"in"} ELSE Enabled(m, "in")
WatchWriteMask(m) == IF Backend = "epoll" THEN {"out"} ELSE Enabled(m, "out")

\* Mutations: EV_DISABLE, or EPOLL_CTL_MOD, is forgotten.
UnwatchReadForgotten(m) == m
UnwatchWriteForgotten(m) == m

UnwatchReadMask(m) == IF Backend = "epoll" THEN {} ELSE Disabled(m, "in")
UnwatchWriteMask(m) == IF Backend = "epoll" THEN {"in"} ELSE Disabled(m, "out")
=============================================================================
