----------------------------- MODULE VpnManager -----------------------------
(***************************************************************************)
(* The app: XproxyVPNManager with its list of configurations, loaded and   *)
(* deleted by asynchronous tasks, and the two switches that start and stop *)
(* a tunnel -- "menu", the StatusView in the menu bar, and "window", the   *)
(* VPNConfigurationView -- which react to every change of their own state, *)
(* whoever made it.  The system's part is what NETunnelProviderManager     *)
(* keeps: the saved preferences and the status of each connection.         *)
(*                                                                         *)
(* A configuration stands for its name, address and port, by which ==      *)
(* compares.  The provider never sets `reasserting', so no status is.      *)
(***************************************************************************)
EXTENDS Naturals, Sequences, SequencesExt

CONSTANTS
    Confs,     \* configurations
    None,      \* nil
    Tasks,     \* asynchronous tasks that may be in flight at once
    MaxActs,   \* bound: things the user does
    MaxDrops   \* bound: connections the system drops by itself

ASSUME ConfsAssumption == IsFiniteSet(Confs)
ASSUME NoneAssumption == None \notin Confs
ASSUME BoundAssumption == MaxActs \in Nat /\ MaxDrops \in Nat

VARIABLES
    saved, status, notes,          \* preferences, connections, notifications
    list,                          \* configurations of the manager
    task,                          \* where each task is
    chosen,                        \* Defaults.selectedVPN
    sel, shown,                    \* selection, and the one last rendered
    on, seen,                      \* switch, and its value last rendered
    acts, drops,                   \* what is left of the bounds
    asked, crossed, overlap, stale   \* history, see Correctness

sysVars == <<saved, status, notes, drops>>
listVars == <<list, task, chosen>>
viewVars == <<sel, shown, on, seen>>
history == <<asked, crossed, overlap, stale>>
vars == <<sysVars, listVars, viewVars, acts, history>>

Views == {"menu", "window"}
Statuses == {"invalid", "disconnected", "connecting", "connected",
             "disconnecting"}
Idle == [pc |-> "idle", conf |-> None, again |-> FALSE, idx |-> 0,
         found |-> <<>>]

Init ==
    /\ saved \in {Confs, {}}
    /\ status = [c \in Confs |-> IF c \in saved THEN "disconnected" ELSE "invalid"]
    /\ notes = 0 /\ drops = MaxDrops
    /\ list = <<>> /\ task = [t \in Tasks |-> Idle] /\ chosen = None
    /\ sel = [v \in Views |-> None] /\ shown = sel
    /\ on = [v \in Views |-> FALSE] /\ seen = on
    /\ acts = MaxActs
    /\ asked = {} /\ crossed = FALSE /\ overlap = FALSE /\ stale = TRUE

\* A change of these views' state has not been reacted to yet.
Pending(W) == \E w \in W : shown[w] # sel[w] \/ on[w] # seen[w]
Rendered == ~Pending(Views)

\* The tunnels change while reactions of the views W are pending.
Crosses(W) == crossed' = (crossed \/ (status' # status /\ Pending(W)))

\* No status is changing, and nobody is still to be told of a change.
Steady ==
    notes = 0 /\ \A c \in Confs : status[c] \notin {"connecting", "disconnecting"}

-----------------------------------------------------------------------------
(* The system                                                              *)

\* The status of c becomes s, and everybody is notified.
Becomes(c, s) ==
    /\ status' = [status EXCEPT ![c] = s]
    /\ notes' = IF s = status[c] THEN notes ELSE notes + 1

\* startVPNTunnel and stopVPNTunnel: what the status may be afterwards.
AfterStart(c) ==
    IF status[c] = "disconnected" THEN {"connecting", "disconnected"}
    ELSE {status[c]}
AfterStop(c) ==
    IF status[c] \in {"connecting", "connected"} THEN "disconnecting"
    ELSE status[c]

\* startVPNTunnel throws.
Throws(after) == after \notin {"connecting", "connected"}

Settling(c) ==
    /\ \/ status[c] = "connecting" /\ Becomes(c, "connected")
       \/ status[c] \in {"connecting", "disconnecting"} /\ Becomes(c, "disconnected")
    /\ Crosses(Views)
    /\ UNCHANGED <<saved, drops, listVars, viewVars, acts, asked, overlap, stale>>

Drop(c) ==
    /\ status[c] = "connected" /\ drops > 0
    /\ drops' = drops - 1
    /\ Becomes(c, "disconnected")
    /\ Crosses(Views)
    /\ UNCHANGED <<saved, listVars, viewVars, acts, asked, overlap, stale>>

-----------------------------------------------------------------------------
(* What the views do by themselves, on the main queue                      *)

\* A mutation of ShownOn: off until the tunnel is up.
ShownOnWhenUp(s) == s = "connected"

\* isConnected as the notification's handler sets it, from the status read
\* when it runs.
ShownOn(s) == s \in {"connecting", "connected"}

\* The observer of NEVPNStatusDidChange.
Notified ==
    /\ notes > 0
    /\ notes' = notes - 1
    /\ on' = IF sel["menu"] = None THEN on
             ELSE [on EXCEPT !["menu"] = ShownOn(status[sel["menu"]])]
    /\ UNCHANGED <<saved, status, drops, listVars, sel, shown, seen, acts, history>>

\* onChange of the selection.  Without one the switch is gone, or disabled.
OnSelection(v) ==
    /\ shown[v] # sel[v]
    /\ shown' = [shown EXCEPT ![v] = sel[v]]
    /\ LET up == sel[v] # None /\ status[sel[v]] = "connected"
       IN  /\ on' = [on EXCEPT ![v] = up]
           /\ seen' = IF sel[v] = None THEN [seen EXCEPT ![v] = FALSE] ELSE seen
    /\ UNCHANGED <<sysVars, listVars, sel, acts, history>>

\* A mutation of SwitchedBack: the error of a start is ignored.
SwitchedBackNever(v, after) == FALSE

\* When a start throws, the menu's switch goes back.
SwitchedBack(v, after) == v = "menu" /\ Throws(after)

\* onChange of the switch starts or stops the selected tunnel.
OnSwitch(v) ==
    /\ shown[v] = sel[v] /\ sel[v] # None /\ on[v] # seen[v]
    /\ seen' = [seen EXCEPT ![v] = on[v]]
    /\ asked' = asked \ {v}
    /\ IF on[v]
       THEN \E s \in AfterStart(sel[v]) :
               /\ Becomes(sel[v], s)
               /\ on' = IF SwitchedBack(v, s) THEN [on EXCEPT ![v] = FALSE] ELSE on
       ELSE Becomes(sel[v], AfterStop(sel[v])) /\ on' = on
    /\ Crosses(Views \ {v})
    /\ UNCHANGED <<saved, drops, listVars, sel, shown, acts, overlap, stale>>

-----------------------------------------------------------------------------
(* The tasks: loadVPNPerferences and delete                                *)

Goes(t, pc) == task' = [task EXCEPT ![t].pc = pc]
TaskOnly == UNCHANGED <<chosen, acts, asked, overlap>>

\* A mutation of Cleared: the list is not emptied first.
ClearedNot == list

\* configurations after removeAll.
Cleared == <<>>

\* loadVPNPerferences up to its await.
Clear(t) ==
    /\ task[t].pc = "clear"
    /\ list' = Cleared
    /\ Goes(t, "fetch")
    /\ UNCHANGED <<sysVars, viewVars, stale, crossed>> /\ TaskOnly

\* The system answers with what is saved at that moment, in any order.
Fetch(t) ==
    /\ task[t].pc = "fetch"
    /\ \E s \in SetToSeqs(saved) :
          task' = [task EXCEPT ![t].pc = "append", ![t].found = s]
    /\ UNCHANGED <<sysVars, list, viewVars, stale, crossed>> /\ TaskOnly

\* What follows a load: a delete loads once more, with nothing selected in
\* the window; the menu selects what was chosen last, or the first.
Finished(t, loaded) ==
    IF task[t].again
    THEN /\ task' = [task EXCEPT ![t].pc = "clear", ![t].again = FALSE]
         /\ sel' = [sel EXCEPT !["window"] = None]
    ELSE /\ task' = [task EXCEPT ![t] = Idle]
         /\ sel' = IF task[t].conf # None THEN sel
                   ELSE [sel EXCEPT !["menu"] =
                           IF chosen \in ToSet(loaded) THEN chosen
                           ELSE IF @ = None /\ loaded # <<>> THEN loaded[1]
                           ELSE @]

\* A selection moves, or not.
Moved == crossed' = (crossed \/ (sel' # sel /\ ~Steady))

AppendAll(t) ==
    /\ task[t].pc = "append"
    /\ list' = list \o task[t].found
    /\ Finished(t, list') /\ Moved
    /\ stale' = FALSE
    /\ UNCHANGED <<sysVars, shown, on, seen>> /\ TaskOnly

FetchFails(t) ==
    /\ task[t].pc = "fetch"
    /\ Finished(t, list) /\ Moved
    /\ stale' = TRUE
    /\ UNCHANGED <<sysVars, list, shown, on, seen>> /\ TaskOnly

\* A mutation of Preferences: what was deleted stays.
PreferencesKept(c) == saved

\* The preferences without c.
Preferences(c) == saved \ {c}

\* removeFromPreferences; a tunnel that is up goes down with it.
RemoveFromPreferences(t) ==
    /\ task[t].pc = "remove"
    /\ saved' = Preferences(task[t].conf)
    /\ Becomes(task[t].conf, "invalid")
    /\ Goes(t, "find")
    /\ Crosses(Views)
    /\ UNCHANGED <<drops, list, viewVars, stale>> /\ TaskOnly

\* On an error delete returns, and its caller goes on.
RemovingFails(t) ==
    /\ task[t].pc = "remove"
    /\ task' = [task EXCEPT ![t].pc = "clear", ![t].again = FALSE]
    /\ sel' = [sel EXCEPT !["window"] = None] /\ Moved
    /\ UNCHANGED <<sysVars, list, shown, on, seen, stale>> /\ TaskOnly

Positions(c) == {i \in DOMAIN list : list[i] = c}

\* firstIndex(of:), given that there is one.
FirstIndex(at) == CHOOSE i \in at : \A j \in at : i <= j

\* The search for the row.  delete is not bound to the main actor: the list may
\* change before the next line.
Find(t) ==
    /\ task[t].pc = "find"
    /\ LET at == Positions(task[t].conf)
       IN  task' = IF at = {} THEN [task EXCEPT ![t].pc = "clear"]
                   ELSE [task EXCEPT ![t].pc = "cut",
                           ![t].idx = FirstIndex(at)]
    /\ list' = IF Positions(task[t].conf) = {} THEN <<>> ELSE list
    /\ UNCHANGED <<sysVars, viewVars, stale, crossed>> /\ TaskOnly

\* remove(at:), which traps beyond the end (the app ends, and no step follows),
\* and configurations = [].
RemoveFound(t) ==
    /\ task[t].pc = "cut" /\ task[t].idx <= Len(list)
    /\ list' = <<>>
    /\ Goes(t, "clear")
    /\ UNCHANGED <<sysVars, viewVars, stale, crossed>> /\ TaskOnly

Work(t) ==
    \/ Clear(t) \/ Fetch(t) \/ AppendAll(t) \/ FetchFails(t)
    \/ RemoveFromPreferences(t) \/ RemovingFails(t) \/ Find(t) \/ RemoveFound(t)

-----------------------------------------------------------------------------
(* The user, who acts on what is rendered                                  *)

Quiet == \A t \in Tasks : task[t] = Idle

Acts ==
    /\ acts > 0 /\ Rendered
    /\ acts' = acts - 1
    /\ crossed' = (crossed \/ ~Steady)
    /\ UNCHANGED drops

Flip(v) ==
    /\ Acts /\ sel[v] # None
    /\ on' = [on EXCEPT ![v] = ~@]
    /\ asked' = asked \cup {v}
    /\ UNCHANGED <<saved, status, notes, listVars, sel, shown, seen, overlap,
                   stale>>

\* A row of either list; only its button remembers the choice.
Select(v, c) ==
    /\ Acts /\ c \in ToSet(list) /\ sel[v] # c
    /\ sel' = [sel EXCEPT ![v] = c]
    /\ chosen' \in {chosen, c}
    /\ UNCHANGED <<saved, status, notes, list, task, shown, on, seen, asked,
                   overlap, stale>>

\* The context menu of a row in the window.
ContextMenu(c) ==
    /\ Acts /\ c \in ToSet(list)
    /\ \/ status[c] = "connected" /\ Becomes(c, AfterStop(c))
       \/ status[c] = "disconnected" /\ \E s \in AfterStart(c) : Becomes(c, s)
    /\ UNCHANGED <<saved, listVars, viewVars, asked, overlap, stale>>

\* newVPNConfiguration, and what the user makes of it in the form.
NewVPNConfiguration(c) ==
    /\ Acts /\ c \notin saved \cup ToSet(list)
    /\ list' = Append(list, c)
    /\ sel' = [sel EXCEPT !["window"] = c]
    /\ UNCHANGED <<saved, status, notes, task, chosen, shown, on, seen, asked,
                   overlap, stale>>

\* The Save button; nothing is loaded afterwards.
Save ==
    /\ Acts /\ sel["window"] # None
    /\ saved' = saved \cup {sel["window"]}
    /\ Becomes(sel["window"], IF sel["window"] \in saved
                              THEN status[sel["window"]] ELSE "disconnected")
    /\ overlap' = (overlap \/ ~Quiet)
    /\ stale' = (stale \/ sel["window"] \notin ToSet(list))
    /\ UNCHANGED <<listVars, viewVars, asked>>

Begins(t, pc, c) ==
    /\ task[t] = Idle
    /\ task' = [task EXCEPT ![t] =
                  [Idle EXCEPT !.pc = pc, !.conf = c, !.again = (c # None)]]
    /\ overlap' = (overlap \/ ~Quiet)
    /\ UNCHANGED <<saved, status, notes, list, chosen, viewVars, asked, stale>>

Delete(t, c) == Acts /\ c \in ToSet(list) /\ Begins(t, "remove", c)
MenuAppears(t) == Acts /\ Begins(t, "clear", None)

\* quitApp, with or without stopVPN; what the app had in memory is gone when
\* it is started again.
Quit ==
    /\ Acts
    /\ IF sel["menu"] = None THEN UNCHANGED <<status, notes>>
       ELSE \E s \in {status[sel["menu"]], AfterStop(sel["menu"])} :
               status' = [status EXCEPT ![sel["menu"]] = s] /\ notes' = 0
    /\ list' = <<>> /\ task' = [t \in Tasks |-> Idle]
    /\ sel' = [v \in Views |-> None] /\ shown' = sel'
    /\ on' = [v \in Views |-> FALSE] /\ seen' = on'
    /\ asked' = {} /\ overlap' = FALSE /\ stale' = TRUE
    /\ UNCHANGED <<saved, chosen>>

User ==
    \/ \E v \in Views : Flip(v) \/ \E c \in Confs : Select(v, c)
    \/ \E c \in Confs : ContextMenu(c) \/ NewVPNConfiguration(c)
    \/ Save \/ Quit
    \/ \E t \in Tasks : MenuAppears(t) \/ \E c \in Confs : Delete(t, c)

Reaction == Notified \/ \E v \in Views : OnSelection(v) \/ OnSwitch(v)

Next ==
    \/ User \/ Reaction
    \/ \E c \in Confs : Settling(c) \/ Drop(c)
    \/ \E t \in Tasks : Work(t)

Spec == Init /\ [][Next]_vars

\* The main queue runs, and a connection does not come up or go down forever.
FairSpec ==
    /\ Spec
    /\ WF_vars(Reaction)
    /\ \A c \in Confs : WF_vars(Settling(c))

-----------------------------------------------------------------------------
(* Correctness                                                             *)

\* asked: switches the user flipped, not yet reacted to.
\* crossed: the user acted, or a load moved the selection, while a status was
\*   changing or a notification under way, or a status changed between a
\*   write to a switch and the reaction to it.
\* overlap: two tasks were in flight at once, or one and a save.
\* stale: the list is known to differ from the preferences, because nothing
\*   was loaded yet, a load failed, or what was saved was not in the list.

\* Type correctness.
TypeOK ==
    /\ saved \subseteq Confs /\ status \in [Confs -> Statuses] /\ notes \in Nat
    /\ list \in Seq(Confs) /\ chosen \in Confs \cup {None}
    /\ \A t \in Tasks : task[t].pc \in {"idle", "clear", "fetch", "append",
                                        "remove", "find", "cut"}
    /\ sel \in [Views -> Confs \cup {None}] /\ shown \in [Views -> Confs \cup {None}]
    /\ on \in [Views -> BOOLEAN] /\ seen \in [Views -> BOOLEAN]
    /\ \A c \in saved : status[c] # "invalid"

\* As long as tasks do not overlap, the list shows what is saved when they
\* are done, each configuration once.
ListTrue ==
    Quiet /\ ~overlap /\ ~stale =>
        saved \subseteq ToSet(list) /\ IsInjective(list)

\* A switch reacts to what the app itself writes to it (a notification, a
\* selection) as it does to the user.  Unless
\* actions and changes of status crossed, such a reaction changes no tunnel.
ReactionsHarmless ==
    [][\A v \in Views : OnSwitch(v) /\ v \notin asked /\ ~crossed => status' = status]_vars

\* Whatever the user, the system and the reactions did, the menu's switch
\* comes to rest showing whether the selected tunnel is up.
Settles ==
    <>[](sel["menu"] # None => on["menu"] = (status[sel["menu"]] = "connected"))
=============================================================================
