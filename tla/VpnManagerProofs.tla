-------------------------- MODULE VpnManagerProofs --------------------------
(***************************************************************************)
(* The VPN manager for any number of configurations and tasks, and without *)
(* the bounds of the run: the list is true, and a switch that reacts to    *)
(* the app itself changes no tunnel.                                       *)
(***************************************************************************)
EXTENDS VpnManager, FiniteSetTheorems, SequenceTheorems, TLAPS

Pcs == {"idle", "clear", "fetch", "append", "remove", "find", "cut"}
Task == [pc : Pcs, conf : Confs \cup {None}, again : BOOLEAN, idx : Nat,
         found : Seq(Confs)]

\* The variables of the tasks and of the list: only a deletion removes.
TasksTyped ==
    /\ list \in Seq(Confs) /\ task \in [Tasks -> Task]
    /\ \A t \in Tasks : task[t].pc = "idle" => task[t] = Idle
    /\ \A t \in Tasks : task[t].pc \in {"remove", "find", "cut"} =>
          task[t].conf \in Confs
    /\ overlap \in BOOLEAN /\ stale \in BOOLEAN

\* The variables of the system.
SystemTyped ==
    /\ saved \subseteq Confs /\ status \in [Confs -> Statuses]
    /\ notes \in Nat /\ drops \in Nat
    /\ \A c \in saved : status[c] # "invalid"

\* The variables of the views.
ViewsTyped ==
    /\ chosen \in Confs \cup {None} /\ acts \in Nat
    /\ sel \in [Views -> Confs \cup {None}] /\ shown \in [Views -> Confs \cup {None}]
    /\ on \in [Views -> BOOLEAN] /\ seen \in [Views -> BOOLEAN]
    /\ asked \subseteq Views /\ crossed \in BOOLEAN

\* TypeOK, and a little more.
Typed == TasksTyped /\ SystemTyped /\ ViewsTyped

\* Tasks that do not overlap come one after the other.
Alone ==
    ~overlap => \A t, u \in Tasks : task[t] # Idle /\ task[u] # Idle => t = u

\* A load that is under way finds only configurations that were made up
\* meanwhile, and what the system answered is what is saved.
Loading(t) ==
    /\ IsInjective(list) /\ saved \cap ToSet(list) = {}
    /\ task[t].pc = "append" =>
          IsInjective(task[t].found) /\ ToSet(task[t].found) = saved

Loads ==
    ~overlap => \A t \in Tasks :
       task[t].pc \in {"fetch", "append"} => Loading(t)

TasksInv == Typed /\ Alone /\ Loads /\ ListTrue

\* A selection that is not rendered yet leaves the tunnels alone.
SelectionSteady ==
    ~crossed /\ (\E v \in Views : shown[v] # sel[v]) => Steady

\* Reacting to the switch of v, as it stands, would change nothing.
Harmless(v) ==
    on[v] # seen[v] /\ shown[v] # None =>
       IF on[v] THEN status[shown[v]] # "disconnected"
       ELSE status[shown[v]] \notin {"connecting", "connected"}

SwitchesHarmless == ~crossed => \A v \in Views \ asked : Harmless(v)

ViewsInv == Typed /\ SelectionSteady /\ SwitchesHarmless

USE ConfsAssumption, NoneAssumption, BoundAssumption

-----------------------------------------------------------------------------
(* Sequences                                                               *)

LEMMA Appended ==
    ASSUME NEW s \in Seq(Confs), NEW c \in Confs
    PROVE  /\ Append(s, c) \in Seq(Confs) /\ Len(Append(s, c)) = Len(s) + 1
           /\ ToSet(Append(s, c)) = ToSet(s) \cup {c}
           /\ IsInjective(s) /\ c \notin ToSet(s) => IsInjective(Append(s, c))
  <1> DEFINE a == Append(s, c)
  <1>1. /\ a \in Seq(Confs) /\ Len(a) = Len(s) + 1 /\ Len(s) \in Nat
        /\ \A i \in 1 .. Len(s) : a[i] = s[i]
        /\ a[Len(s) + 1] = c
        /\ DOMAIN a = 1 .. Len(a) /\ DOMAIN s = 1 .. Len(s)
    BY AppendProperties, LenProperties
  <1> HIDE DEF a
  <1>2. ToSet(a) = ToSet(s) \cup {c}
    BY <1>1 DEF ToSet
  <1>3. IsInjective(s) /\ c \notin ToSet(s) => IsInjective(a)
    BY <1>1 DEF ToSet, IsInjective
  <1> QED
    BY <1>1, <1>2, <1>3 DEF a

LEMMA Joined ==
    ASSUME NEW s \in Seq(Confs), NEW t \in Seq(Confs)
    PROVE  /\ s \o t \in Seq(Confs)
           /\ ToSet(s \o t) = ToSet(s) \cup ToSet(t)
           /\ IsInjective(s) /\ IsInjective(t) /\ ToSet(s) \cap ToSet(t) = {}
                => IsInjective(s \o t)
  <1> DEFINE a == s \o t
  <1>1. /\ a \in Seq(Confs) /\ Len(a) = Len(s) + Len(t)
        /\ Len(s) \in Nat /\ Len(t) \in Nat
        /\ \A i \in 1 .. Len(s) + Len(t) :
             a[i] = IF i <= Len(s) THEN s[i] ELSE t[i - Len(s)]
        /\ DOMAIN a = 1 .. Len(s) + Len(t)
        /\ DOMAIN s = 1 .. Len(s) /\ DOMAIN t = 1 .. Len(t)
    BY ConcatProperties, LenProperties
  <1> HIDE DEF a
  <1>2. \A i \in 1 .. Len(s) : i \in DOMAIN a /\ a[i] = s[i]
    BY <1>1
  <1>3. \A i \in 1 .. Len(t) : Len(s) + i \in DOMAIN a /\ a[Len(s) + i] = t[i]
    BY <1>1
  <1>4. \A i \in DOMAIN a : \/ i \in 1 .. Len(s) /\ a[i] = s[i]
                            \/ i - Len(s) \in 1 .. Len(t) /\ a[i] = t[i - Len(s)]
    BY <1>1
  <1>5. ToSet(a) = ToSet(s) \cup ToSet(t)
    <2>1. ToSet(a) \subseteq ToSet(s) \cup ToSet(t)
      BY <1>1, <1>4 DEF ToSet
    <2>2. ToSet(s) \subseteq ToSet(a)
      BY <1>1, <1>2 DEF ToSet
    <2>3. ASSUME NEW i \in DOMAIN t PROVE t[i] \in ToSet(a)
      <3>1. i \in 1 .. Len(t)
        BY <1>1
      <3>2. Len(s) + i \in DOMAIN a /\ a[Len(s) + i] = t[i]
        BY <1>3, <3>1
      <3> QED
        BY <3>2 DEF ToSet
    <2>4. ToSet(t) \subseteq ToSet(a)
      BY <2>3 DEF ToSet
    <2> QED
      BY <2>1, <2>2, <2>4
  <1>6. ASSUME IsInjective(s), IsInjective(t), ToSet(s) \cap ToSet(t) = {},
               NEW i \in DOMAIN a, NEW j \in DOMAIN a, a[i] = a[j]
        PROVE  i = j
    <2>1. \A k \in 1 .. Len(s), l \in 1 .. Len(t) : s[k] # t[l]
      BY <1>1, <1>6 DEF ToSet
    <2> QED
      BY <1>1, <1>4, <1>6, <2>1 DEF IsInjective
  <1> QED
    BY <1>1, <1>5, <1>6 DEF IsInjective, a

\* The system's answer: what is saved, each configuration once.
LEMMA Answered ==
    ASSUME NEW S \in SUBSET Confs, NEW s \in SetToSeqs(S)
    PROVE  s \in Seq(Confs) /\ IsInjective(s) /\ ToSet(s) = S
  <1> DEFINE n == Cardinality(S)
             D == 1 .. n
  <1>1. IsFiniteSet(S) /\ n \in Nat
    BY FS_Subset, FS_CardinalityType
  <1>2. s \in [D -> S] /\ \A i, j \in D : i # j => s[i] # s[j]
    BY DEF SetToSeqs
  <1>3. IsInjective(s)
    BY <1>2 DEF IsInjective
  <1>4. s \in Injection(D, S)
    BY <1>2, <1>3 DEF Injection
  <1>5. Cardinality(D) = n /\ IsFiniteSet(D)
    <2> HIDE DEF n
    <2>1. /\ IsFiniteSet(1 .. n)
          /\ Cardinality(1 .. n) = IF 1 > n THEN 0 ELSE n - 1 + 1
      BY <1>1, FS_Interval
    <2> QED
      BY <1>1, <2>1
  <1>6. s \in Surjection(D, S)
    BY <1>1, <1>4, <1>5, FS_Injection
  <1>7. ToSet(s) = S
    BY <1>2, <1>6 DEF Surjection, ToSet
  <1>8. s \in Seq(Confs)
    <2>1. s \in [1 .. n -> Confs]
      BY <1>2
    <2> HIDE DEF n
    <2> QED
      BY <1>1, <2>1
  <1> QED
    BY <1>3, <1>7, <1>8

\* The empty list.
LEMMA Emptied ==
    <<>> \in Seq(Confs) /\ IsInjective(<<>>) /\ ToSet(<<>>) = {} /\ Len(<<>>) = 0
  BY EmptySeq DEF IsInjective, ToSet

\* A set of numbers has a least element.
LEMMA FirstExists ==
    ASSUME NEW T \in SUBSET Nat, T # {}
    PROVE  \E n \in T : \A m \in T : n <= m
  <1>1. PICK n \in T : \A m \in T : <<m, n>> \notin OpToRel(<, Nat)
    BY WFMin, NatLessThanWellFounded, Zenon
  <1>2. \A m \in T : ~ (m < n)
    BY <1>1, Zenon DEF OpToRel
  <1> QED
    BY <1>2

\* The index that delete looks for is a number.
LEMMA FirstFound ==
    ASSUME list \in Seq(Confs), NEW c, Positions(c) # {}
    PROVE  FirstIndex(Positions(c)) \in Nat
  <1> DEFINE at == Positions(c)
  <1>1. at \in SUBSET (1 .. Len(list)) /\ Len(list) \in Nat
    BY LenProperties DEF Positions
  <1>2. at \in SUBSET Nat /\ at # {}
    BY <1>1
  <1> HIDE DEF at
  <1>3. \E i \in at : \A j \in at : i <= j
    BY <1>2, FirstExists
  <1>4. FirstIndex(at) \in at
    BY <1>3 DEF FirstIndex
  <1> QED
    BY <1>1, <1>4 DEF at

-----------------------------------------------------------------------------
(* Typing                                                                  *)

LEMMA InitTyped == Init => Typed
  <1> SUFFICES ASSUME Init PROVE Typed
    OBVIOUS
  <1>1. Idle \in Task /\ Idle.pc = "idle"
    BY Emptied DEF Task, Pcs, Idle
  <1> HIDE DEF Idle
  <1>2. TasksTyped
    BY <1>1, Emptied DEF Init, TasksTyped
  <1>3. SystemTyped
    BY DEF Init, SystemTyped, Statuses
  <1> QED
    BY <1>2, <1>3 DEF Init, Typed, ViewsTyped

LEMMA AfterFacts ==
    ASSUME Typed, NEW c \in Confs
    PROVE  /\ AfterStart(c) \subseteq Statuses /\ AfterStop(c) \in Statuses
           /\ status[c] # "invalid" =>
                "invalid" \notin AfterStart(c) /\ AfterStop(c) # "invalid"
  BY DEF Typed, SystemTyped, AfterStart, AfterStop, Statuses

\* A status changes, and nothing that is saved gets invalid.
LEMMA BecomesTyped ==
    ASSUME Typed, NEW c \in Confs, NEW s \in Statuses, Becomes(c, s)
    PROVE  /\ status' \in [Confs -> Statuses] /\ notes' \in Nat
           /\ status' = [status EXCEPT ![c] = s]
           /\ status'[c] = s /\ \A d \in Confs : d # c => status'[d] = status[d]
  BY DEF Typed, SystemTyped, Becomes

\* A task goes on with r.
LEMMA TaskTyped ==
    ASSUME TasksTyped, NEW t \in Tasks, NEW r \in Task,
           task' = [task EXCEPT ![t] = r],
           r.pc = "idle" => r = Idle,
           r.pc \in {"remove", "find", "cut"} => r.conf \in Confs,
           list' \in Seq(Confs), overlap' \in BOOLEAN, stale' \in BOOLEAN
    PROVE  TasksTyped'
  BY DEF TasksTyped

\* What follows a load.
LEMMA FinishedTyped ==
    ASSUME Typed, NEW t \in Tasks, task[t].pc \in {"fetch", "append"},
           NEW loaded \in Seq(Confs), Finished(t, loaded)
    PROVE  /\ task' \in [Tasks -> Task]
           /\ \E r \in Task :
                 /\ task' = [task EXCEPT ![t] = r]
                 /\ r = Idle \/ r.pc = "clear"
           /\ sel' \in [Views -> Confs \cup {None}]
  <1>1. task[t] \in Task /\ Idle \in Task
    BY Emptied DEF Typed, TasksTyped, Task, Pcs, Idle
  <1>2. CASE task[t].again
    <2> DEFINE r == [task[t] EXCEPT !.pc = "clear", !.again = FALSE]
    <2>1. r \in Task /\ r.pc = "clear"
      BY <1>1 DEF Task, Pcs
    <2>2. task' = [task EXCEPT ![t] = r]
      BY <1>2 DEF Finished
    <2>3. sel' \in [Views -> Confs \cup {None}]
      BY <1>2 DEF Finished, Typed, ViewsTyped, Views
    <2> QED
      BY <2>1, <2>2, <2>3 DEF Typed, TasksTyped
  <1>3. CASE ~task[t].again
    <2>1. task' = [task EXCEPT ![t] = Idle]
      BY <1>3 DEF Finished
    <2>2. loaded # <<>> => loaded[1] \in Confs
      <3>1. loaded # <<>> => 1 \in 1 .. Len(loaded)
        BY LenProperties, EmptySeq
      <3> QED
        BY <3>1, ElementOfSeq
    <2>3. sel' \in [Views -> Confs \cup {None}]
      BY <1>3, <2>2 DEF Finished, Typed, ViewsTyped, Views
    <2> QED
      BY <1>1, <2>1, <2>3 DEF Typed, TasksTyped
  <1> QED
    BY <1>2, <1>3

LEMMA WorkTyped ==
    ASSUME Typed, NEW t \in Tasks, Work(t)
    PROVE  Typed'
  <1> USE DEF Typed
  <1>1. /\ task[t] \in Task /\ list \in Seq(Confs)
        /\ overlap \in BOOLEAN /\ stale \in BOOLEAN
    BY DEF TasksTyped
  <1>2. CASE Clear(t)
    <2> DEFINE r == [task[t] EXCEPT !.pc = "fetch"]
    <2>1. r \in Task /\ r.pc = "fetch"
      BY <1>1 DEF Task, Pcs
    <2>2. /\ task' = [task EXCEPT ![t] = r] /\ list' = <<>>
          /\ UNCHANGED <<overlap, stale>>
      BY <1>2 DEF Clear, Goes, Cleared, TaskOnly
    <2>3. TasksTyped'
      BY <1>1, <2>1, <2>2, TaskTyped, Emptied
    <2> QED
      BY <1>2, <2>3
         DEF Clear, TaskOnly, SystemTyped, ViewsTyped, sysVars, viewVars
  <1>3. CASE Fetch(t)
    <2>1. PICK s \in SetToSeqs(saved) :
             task' = [task EXCEPT ![t].pc = "append", ![t].found = s]
      BY <1>3 DEF Fetch
    <2> DEFINE r == [task[t] EXCEPT !.pc = "append", !.found = s]
    <2>2. s \in Seq(Confs)
      BY <2>1, Answered DEF SystemTyped
    <2>3. r \in Task /\ r.pc = "append"
      BY <1>1, <2>2 DEF Task, Pcs
    <2>4. task' = [task EXCEPT ![t] = r] /\ UNCHANGED <<list, overlap, stale>>
      BY <1>3, <2>1 DEF Fetch, TaskOnly, TasksTyped
    <2>5. TasksTyped'
      BY <1>1, <2>3, <2>4, TaskTyped
    <2> QED
      BY <1>3, <2>5
         DEF Fetch, TaskOnly, SystemTyped, ViewsTyped, sysVars, viewVars
  <1>4. CASE AppendAll(t) \/ FetchFails(t)
    <2>1. \/ AppendAll(t) /\ list' = list \o task[t].found
          \/ FetchFails(t) /\ list' = list
      BY <1>4 DEF AppendAll, FetchFails
    <2>2. task[t].found \in Seq(Confs)
      BY <1>1 DEF Task
    <2>3. list' \in Seq(Confs)
      BY <1>1, <2>1, <2>2, Joined
    <2>4. Finished(t, list') /\ task[t].pc \in {"fetch", "append"}
      BY <2>1 DEF AppendAll, FetchFails
    <2>5. /\ sel' \in [Views -> Confs \cup {None}]
          /\ \E r \in Task : /\ task' = [task EXCEPT ![t] = r]
                             /\ r = Idle \/ r.pc = "clear"
      BY <2>3, <2>4, FinishedTyped
    <2>6. overlap' \in BOOLEAN /\ stale' \in BOOLEAN
      BY <1>1, <1>4 DEF AppendAll, FetchFails, TaskOnly
    <2>7. PICK r \in Task : /\ task' = [task EXCEPT ![t] = r]
                            /\ r = Idle \/ r.pc = "clear"
      BY <2>5
    <2>8. TasksTyped'
      BY <2>3, <2>6, <2>7, TaskTyped DEF Idle
    <2>9. UNCHANGED <<sysVars, shown, on, seen, chosen, acts, asked>> /\ Moved
      BY <1>4 DEF AppendAll, FetchFails, TaskOnly
    <2>10. SystemTyped'
      BY <2>9 DEF SystemTyped, sysVars
    <2>11. ViewsTyped'
      BY <2>5, <2>9 DEF ViewsTyped, Moved
    <2> QED
      BY <2>8, <2>10, <2>11
  <1>5. CASE RemoveFromPreferences(t)
    <2> DEFINE c == task[t].conf
               r == [task[t] EXCEPT !.pc = "find"]
    <2>1. c \in Confs
      BY <1>5 DEF RemoveFromPreferences, TasksTyped
    <2>2. r \in Task /\ r.pc = "find" /\ r.conf = c
      BY <1>1 DEF Task, Pcs
    <2>3. /\ task' = [task EXCEPT ![t] = r]
          /\ UNCHANGED <<list, overlap, stale, drops, viewVars, chosen, acts, asked>>
          /\ Crosses(Views) /\ Becomes(c, "invalid") /\ saved' = saved \ {c}
      BY <1>5 DEF RemoveFromPreferences, Goes, TaskOnly, Preferences
    <2>4. TasksTyped'
      BY <1>1, <2>1, <2>2, <2>3, TaskTyped
    <2>5. SystemTyped'
      BY <2>1, <2>3, BecomesTyped DEF SystemTyped, Statuses
    <2>6. ViewsTyped'
      BY <2>3 DEF ViewsTyped, viewVars, Crosses
    <2> QED
      BY <2>4, <2>5, <2>6
  <1>6. CASE RemovingFails(t)
    <2> DEFINE r == [task[t] EXCEPT !.pc = "clear", !.again = FALSE]
    <2>1. r \in Task /\ r.pc = "clear"
      BY <1>1 DEF Task, Pcs
    <2>2. /\ task' = [task EXCEPT ![t] = r]
          /\ sel' = [sel EXCEPT !["window"] = None]
          /\ UNCHANGED <<sysVars, list, overlap, stale, shown, on, seen, chosen,
                         acts, asked>>
          /\ Moved
      BY <1>6 DEF RemovingFails, TaskOnly
    <2>3. TasksTyped'
      BY <1>1, <2>1, <2>2, TaskTyped
    <2>4. SystemTyped'
      BY <2>2 DEF SystemTyped, sysVars
    <2>5. ViewsTyped'
      BY <2>2 DEF ViewsTyped, Moved, Views
    <2> QED
      BY <2>3, <2>4, <2>5
  <1>7. CASE Find(t)
    <2> DEFINE at == Positions(task[t].conf)
               r == IF at = {} THEN [task[t] EXCEPT !.pc = "clear"]
                    ELSE [task[t] EXCEPT !.pc = "cut", !.idx = FirstIndex(at)]
    <2>1. at # {} => FirstIndex(at) \in Nat
      BY <1>1, FirstFound
    <2>2. task[t].conf \in Confs
      BY <1>7 DEF Find, TasksTyped
    <2>3. r \in Task /\ r.pc \in {"clear", "cut"} /\ r.conf = task[t].conf
      BY <1>1, <2>1 DEF Task, Pcs
    <2>4. /\ task' = [task EXCEPT ![t] = r] /\ list' \in {list, <<>>}
          /\ UNCHANGED <<sysVars, viewVars, stale, crossed, chosen, acts, asked,
                         overlap>>
      BY <1>7 DEF Find, TaskOnly, TasksTyped
    <2> HIDE DEF r
    <2>5. TasksTyped'
      BY <1>1, <2>2, <2>3, <2>4, TaskTyped, Emptied
    <2> QED
      BY <2>4, <2>5 DEF SystemTyped, ViewsTyped, sysVars, viewVars
  <1>8. CASE RemoveFound(t)
    <2> DEFINE r == [task[t] EXCEPT !.pc = "clear"]
    <2>1. r \in Task /\ r.pc = "clear"
      BY <1>1 DEF Task, Pcs
    <2>2. /\ task' = [task EXCEPT ![t] = r] /\ list' = <<>>
          /\ UNCHANGED <<overlap, stale>>
      BY <1>8 DEF RemoveFound, Goes, TaskOnly
    <2>3. TasksTyped'
      BY <1>1, <2>1, <2>2, TaskTyped, Emptied
    <2> QED
      BY <1>8, <2>3
         DEF RemoveFound, TaskOnly, SystemTyped, ViewsTyped, sysVars, viewVars
  <1> QED
    BY <1>2, <1>3, <1>4, <1>5, <1>6, <1>7, <1>8 DEF Work

\* The user acts on what is rendered.
LEMMA UserActs ==
    ASSUME User
    PROVE  Acts
  BY DEF User, Flip, Select, ContextMenu, NewVPNConfiguration, Save, Quit,
         MenuAppears, Delete

\* What the user does to the tasks: nothing, as a rule.
LEMMA UserTasksTyped ==
    ASSUME Typed, User
    PROVE  TasksTyped'
  <1>1. /\ list \in Seq(Confs) /\ overlap \in BOOLEAN /\ stale \in BOOLEAN
    BY DEF Typed, TasksTyped
  <1>2. CASE UNCHANGED <<list, task, overlap, stale>>
    BY <1>2 DEF Typed, TasksTyped
  <1>3. ASSUME NEW c \in Confs, NewVPNConfiguration(c)
        PROVE  TasksTyped'
    <2>1. list' \in Seq(Confs)
      BY <1>1, <1>3, Appended DEF NewVPNConfiguration
    <2> QED
      BY <1>3, <2>1 DEF NewVPNConfiguration, Typed, TasksTyped
  <1>4. CASE Save
    BY <1>4 DEF Save, listVars, Typed, TasksTyped
  <1>5. ASSUME NEW t \in Tasks, NEW c \in Confs \cup {None}, NEW pc \in Pcs,
               Begins(t, pc, c), pc # "idle", pc = "remove" => c \in Confs,
               pc \in {"remove", "clear"}
        PROVE  TasksTyped'
    <2> DEFINE r == [Idle EXCEPT !.pc = pc, !.conf = c, !.again = (c # None)]
    <2>1. r \in Task /\ r.pc = pc /\ r.conf = c
      BY <1>5, Emptied DEF Task, Pcs, Idle
    <2>2. task' = [task EXCEPT ![t] = r] /\ list' = list /\ stale' = stale
          /\ overlap' \in BOOLEAN
      BY <1>1, <1>5 DEF Begins
    <2> HIDE DEF r
    <2> QED
      BY <1>1, <1>5, <2>1, <2>2, TaskTyped DEF Typed
  <1>6. CASE Quit
    <2>1. Idle \in Task /\ Idle.pc = "idle"
      BY Emptied DEF Task, Pcs, Idle
    <2> HIDE DEF Idle
    <2>2. /\ task' = [t \in Tasks |-> Idle] /\ list' = <<>>
          /\ overlap' = FALSE /\ stale' = TRUE
      BY <1>6 DEF Quit
    <2> QED
      BY <2>1, <2>2, Emptied DEF TasksTyped
  <1>7. CASE \E v \in Views : Flip(v) \/ \E c \in Confs : Select(v, c)
    BY <1>2, <1>7 DEF Flip, Select, listVars
  <1>8. CASE \E c \in Confs : ContextMenu(c)
    BY <1>2, <1>8 DEF ContextMenu, listVars
  <1>9. CASE \E t \in Tasks : MenuAppears(t) \/ \E c \in Confs : Delete(t, c)
    BY <1>5, <1>9 DEF MenuAppears, Delete, Pcs
  <1> QED
    BY <1>3, <1>4, <1>6, <1>7, <1>8, <1>9 DEF User

LEMMA UserSystemTyped ==
    ASSUME Typed, User
    PROVE  SystemTyped'
  <1> USE DEF SystemTyped
  <1>1. CASE UNCHANGED <<saved, status, notes, drops>>
    BY <1>1 DEF Typed
  <1>2. drops' = drops
    BY UserActs DEF Acts
  <1>3. ASSUME NEW c \in Confs, NEW s \in Statuses, Becomes(c, s),
               s = "invalid" => status[c] = "invalid", saved' = saved
        PROVE  SystemTyped'
    BY <1>2, <1>3, BecomesTyped DEF Typed
  <1>4. ASSUME NEW c \in Confs, ContextMenu(c)
        PROVE  SystemTyped'
    <2>1. PICK s \in AfterStart(c) \cup {AfterStop(c)} : Becomes(c, s)
      BY <1>4 DEF ContextMenu
    <2>2. saved' = saved /\ status[c] # "invalid"
      BY <1>4 DEF ContextMenu
    <2> QED
      BY <1>3, <2>1, <2>2, AfterFacts
  <1>5. CASE Save
    <2> DEFINE c == sel["window"]
               s == IF c \in saved THEN status[c] ELSE "disconnected"
    <2>1. c \in Confs
      BY <1>5 DEF Save, Typed, ViewsTyped, Views
    <2>2. s \in Statuses /\ s # "invalid"
      BY <2>1 DEF Typed, Statuses
    <2>3. Becomes(c, s) /\ saved' = saved \cup {c}
      BY <1>5 DEF Save
    <2> HIDE DEF c, s
    <2> QED
      BY <1>2, <2>1, <2>2, <2>3, BecomesTyped DEF Typed
  <1>6. CASE Quit
    <2> DEFINE c == sel["menu"]
    <2>1. CASE c = None
      BY <1>1, <1>2, <1>6, <2>1 DEF Quit
    <2>2. CASE c # None
      <3>1. c \in Confs
        BY <2>2 DEF Typed, ViewsTyped, Views
      <3>2. PICK s \in {status[c], AfterStop(c)} :
              status' = [status EXCEPT ![c] = s] /\ notes' = 0
        BY <1>6, <2>2 DEF Quit
      <3>3. saved' = saved
        BY <1>6 DEF Quit
      <3>4. s \in Statuses /\ (s = "invalid" => status[c] = "invalid")
        BY <3>1, <3>2, AfterFacts DEF Typed
      <3> HIDE DEF c
      <3> QED
        BY <1>2, <3>1, <3>2, <3>3, <3>4 DEF Typed
    <2> QED
      BY <2>1, <2>2
  <1>7. CASE \E v \in Views : Flip(v) \/ \E c \in Confs : Select(v, c)
    BY <1>1, <1>2, <1>7 DEF Flip, Select
  <1>8. CASE \E c \in Confs : NewVPNConfiguration(c)
    BY <1>1, <1>2, <1>8 DEF NewVPNConfiguration
  <1>9. CASE \E t \in Tasks : MenuAppears(t) \/ \E c \in Confs : Delete(t, c)
    BY <1>1, <1>2, <1>9 DEF MenuAppears, Delete, Begins
  <1> QED
    BY <1>4, <1>5, <1>6, <1>7, <1>8, <1>9 DEF User

LEMMA UserViewsTyped ==
    ASSUME Typed, User
    PROVE  ViewsTyped'
  <1> USE DEF ViewsTyped
  <1>1. acts' \in Nat /\ crossed' \in BOOLEAN
    <2>1. Acts
      BY UserActs
    <2> QED
      BY <2>1 DEF Acts, Typed
  <1>2. CASE UNCHANGED <<chosen, sel, shown, on, seen, asked>>
    BY <1>1, <1>2 DEF Typed
  <1>3. CASE \E v \in Views : Flip(v)
    BY <1>1, <1>3 DEF Flip, listVars, Typed
  <1>4. CASE \E v \in Views, c \in Confs : Select(v, c)
    BY <1>1, <1>4 DEF Select, Typed
  <1>5. ASSUME NEW c \in Confs, NewVPNConfiguration(c)
        PROVE  ViewsTyped'
    <2>1. /\ sel' = [sel EXCEPT !["window"] = c]
          /\ UNCHANGED <<chosen, shown, on, seen, asked>>
      BY <1>5 DEF NewVPNConfiguration
    <2>2. sel' \in [Views -> Confs \cup {None}]
      BY <2>1 DEF Typed
    <2> QED
      BY <1>1, <2>1, <2>2 DEF Typed
  <1>6. CASE Quit
    BY <1>1, <1>6 DEF Quit, Typed
  <1>7. CASE Save \/ \E c \in Confs : ContextMenu(c)
    BY <1>2, <1>7 DEF Save, ContextMenu, listVars, viewVars
  <1>8. CASE \E t \in Tasks : MenuAppears(t) \/ \E c \in Confs : Delete(t, c)
    BY <1>2, <1>8 DEF MenuAppears, Delete, Begins, viewVars
  <1> QED
    BY <1>3, <1>4, <1>5, <1>6, <1>7, <1>8 DEF User

\* Reactions and changes of status leave the tasks and the list alone.
LEMMA OthersKeepTasks ==
    ASSUME Reaction \/ \E c \in Confs : Settling(c) \/ Drop(c)
    PROVE  UNCHANGED <<saved, drops, list, task, chosen, acts, overlap, stale>>
           \/ (UNCHANGED <<saved, list, task, chosen, acts, overlap, stale>>
               /\ drops > 0 /\ drops' = drops - 1)
  BY DEF Reaction, Notified, OnSelection, OnSwitch, Settling, Drop, sysVars,
         listVars, history

LEMMA OthersTyped ==
    ASSUME Typed, Reaction \/ \E c \in Confs : Settling(c) \/ Drop(c)
    PROVE  Typed'
  <1>1. TasksTyped'
    BY OthersKeepTasks DEF Typed, TasksTyped
  <1>2. drops' \in Nat /\ saved' = saved /\ acts' = acts /\ chosen' = chosen
    BY OthersKeepTasks DEF Typed, SystemTyped
  <1>3. ASSUME NEW c \in Confs, NEW s \in Statuses, Becomes(c, s),
               s = "invalid" => status[c] = "invalid"
        PROVE  SystemTyped'
    BY <1>2, <1>3, BecomesTyped DEF Typed, SystemTyped
  <1>4. CASE \E c \in Confs : Settling(c) \/ Drop(c)
    <2>1. PICK c \in Confs : Settling(c) \/ Drop(c)
      BY <1>4
    <2>2. \E s \in {"connected", "disconnected"} : Becomes(c, s)
      BY <2>1 DEF Settling, Drop
    <2>3. SystemTyped'
      BY <1>3, <2>2 DEF Statuses
    <2>4. ViewsTyped'
      BY <1>2, <2>1 DEF Settling, Drop, viewVars, Crosses, Typed, ViewsTyped
    <2> QED
      BY <1>1, <2>3, <2>4 DEF Typed
  <1>5. CASE Notified
    <2>1. SystemTyped'
      BY <1>5 DEF Notified, Typed, SystemTyped
    <2>2. on' \in [Views -> BOOLEAN]
      BY <1>5 DEF Notified, ShownOn, Typed, ViewsTyped, Views
    <2>3. ViewsTyped'
      BY <1>2, <1>5, <2>2 DEF Notified, history, Typed, ViewsTyped
    <2> QED
      BY <1>1, <2>1, <2>3 DEF Typed
  <1>6. CASE \E v \in Views : OnSelection(v)
    <2>1. PICK v \in Views : OnSelection(v)
      BY <1>6
    <2>2. SystemTyped'
      BY <2>1 DEF OnSelection, sysVars, Typed, SystemTyped
    <2>3. /\ shown' \in [Views -> Confs \cup {None}]
          /\ on' \in [Views -> BOOLEAN] /\ seen' \in [Views -> BOOLEAN]
      BY <2>1 DEF OnSelection, Typed, ViewsTyped
    <2>4. ViewsTyped'
      BY <1>2, <2>1, <2>3 DEF OnSelection, history, Typed, ViewsTyped
    <2> QED
      BY <1>1, <2>2, <2>4 DEF Typed
  <1>7. CASE \E v \in Views : OnSwitch(v)
    <2>1. PICK v \in Views : OnSwitch(v)
      BY <1>7
    <2>2. sel[v] \in Confs
      BY <2>1 DEF OnSwitch, Typed, ViewsTyped
    <2>3. \E s \in AfterStart(sel[v]) \cup {AfterStop(sel[v])} :
            Becomes(sel[v], s)
      BY <2>1 DEF OnSwitch
    <2>4. SystemTyped'
      <3>1. PICK s \in AfterStart(sel[v]) \cup {AfterStop(sel[v])} :
              Becomes(sel[v], s)
        BY <2>3
      <3>2. s \in Statuses /\ (s = "invalid" => status[sel[v]] = "invalid")
        BY <2>2, <3>1, AfterFacts
      <3> QED
        BY <1>3, <2>2, <3>1, <3>2
    <2>5. /\ seen' = [seen EXCEPT ![v] = on[v]]
          /\ on' = on \/ on' = [on EXCEPT ![v] = FALSE]
          /\ asked' = asked \ {v} /\ sel' = sel /\ shown' = shown
          /\ Crosses(Views \ {v})
      BY <2>1 DEF OnSwitch
    <2>6. ViewsTyped'
      BY <1>2, <2>5 DEF Crosses, Typed, ViewsTyped
    <2> QED
      BY <1>1, <2>4, <2>6 DEF Typed
  <1> QED
    BY <1>4, <1>5, <1>6, <1>7 DEF Reaction

LEMMA NextTyped == Typed /\ [Next]_vars => Typed'
  <1> SUFFICES ASSUME Typed, [Next]_vars PROVE Typed'
    OBVIOUS
  <1>1. CASE User
    BY <1>1, UserTasksTyped, UserSystemTyped, UserViewsTyped DEF Typed
  <1>2. CASE Reaction \/ \E c \in Confs : Settling(c) \/ Drop(c)
    BY <1>2, OthersTyped
  <1>3. CASE \E t \in Tasks : Work(t)
    BY <1>3, WorkTyped
  <1>4. CASE UNCHANGED vars
    BY <1>4 DEF vars, sysVars, listVars, viewVars, history, Typed, TasksTyped,
                SystemTyped, ViewsTyped
  <1> QED
    BY <1>1, <1>2, <1>3, <1>4 DEF Next

\* The manager and the views keep every variable in its range, and nothing
\* that is saved has an invalid status.
THEOREM TypeCorrect == Spec => []TypeOK
  <1>1. Typed => TypeOK
    BY DEF Typed, TasksTyped, SystemTyped, ViewsTyped, TypeOK, Task, Pcs
  <1> QED
    BY InitTyped, NextTyped, <1>1, PTL DEF Spec

-----------------------------------------------------------------------------
(* The list                                                                *)

\* Only one of the tasks is under way, and it is t.
LEMMA WorkAlone ==
    ASSUME Typed, Alone, NEW t \in Tasks, Work(t), ~overlap
    PROVE  /\ overlap' = overlap /\ Alone'
           /\ \A u \in Tasks : u # t => task'[u] = Idle /\ task'[u].pc = "idle"
           /\ Idle.pc = "idle"
  <1>1. task[t].pc # "idle" /\ overlap' = overlap
    BY DEF Work, Clear, Fetch, AppendAll, FetchFails, RemoveFromPreferences,
           RemovingFails, Find, RemoveFound, TaskOnly
  <1>2. Idle.pc = "idle"
    BY DEF Idle
  <1> HIDE DEF Idle
  <1>3. task[t] # Idle
    BY <1>1, <1>2
  <1>4. \A u \in Tasks : u # t => task'[u] = task[u]
    BY DEF Work, Clear, Fetch, AppendAll, FetchFails, RemoveFromPreferences,
           RemovingFails, Find, RemoveFound, Goes, Finished, Typed, TasksTyped
  <1>5. \A u \in Tasks : u # t => task'[u] = Idle
    BY <1>3, <1>4 DEF Alone
  <1>6. Alone'
    BY <1>5 DEF Alone
  <1> QED
    BY <1>1, <1>2, <1>5, <1>6

LEMMA FinishedTask ==
    ASSUME Typed, NEW t \in Tasks, NEW loaded, Finished(t, loaded)
    PROVE  task'[t].pc = "clear" \/ task'[t] = Idle
  <1>1. task[t] \in Task
    BY DEF Typed, TasksTyped
  <1>2. CASE task[t].again
    <2> DEFINE r == [task[t] EXCEPT !.pc = "clear", !.again = FALSE]
    <2>1. r.pc = "clear"
      BY <1>1 DEF Task
    <2>2. task' = [task EXCEPT ![t] = r]
      BY <1>2 DEF Finished
    <2> QED
      BY <2>1, <2>2 DEF Typed, TasksTyped
  <1>3. CASE ~task[t].again
    BY <1>3 DEF Finished, Typed, TasksTyped
  <1> QED
    BY <1>2, <1>3

LEMMA WorkKeepsList ==
    ASSUME TasksInv, NEW t \in Tasks, Work(t)
    PROVE  (Alone /\ Loads /\ ListTrue)'
  <1>1. CASE overlap
    <2>1. overlap'
      BY <1>1 DEF Work, Clear, Fetch, AppendAll, FetchFails,
             RemoveFromPreferences, RemovingFails, Find, RemoveFound, TaskOnly
    <2> QED
      BY <2>1 DEF Alone, Loads, ListTrue
  <1>2. CASE ~overlap
    <2>1. /\ overlap' = overlap /\ Alone'
          /\ \A u \in Tasks : u # t => task'[u] = Idle /\ task'[u].pc = "idle"
          /\ Idle.pc = "idle"
      BY <1>2, WorkAlone DEF TasksInv
    <2>2. task[t] \in Task /\ list \in Seq(Confs)
      BY DEF TasksInv, Typed, TasksTyped
    <2> HIDE DEF Idle
    <2>3. SUFFICES /\ task'[t].pc \in {"fetch", "append"} => Loading(t)'
                   /\ task'[t] = Idle /\ ~stale' =>
                        saved' \subseteq ToSet(list') /\ IsInjective(list')
      <3>1. Loads'
        BY <2>1, <2>3 DEF Loads
      <3>2. ListTrue'
        BY <2>3 DEF ListTrue, Quiet
      <3> QED
        BY <2>1, <3>1, <3>2
    <2>4. CASE Clear(t)
      <3>1. task'[t].pc = "fetch" /\ list' = <<>>
        BY <2>2, <2>4 DEF Clear, Cleared, Goes, Task, TasksInv, Typed, TasksTyped
      <3>2. Loading(t)'
        BY <3>1, Emptied DEF Loading
      <3> QED
        BY <2>1, <3>1, <3>2
    <2>5. CASE Fetch(t)
      <3>1. PICK s \in SetToSeqs(saved) :
               task' = [task EXCEPT ![t].pc = "append", ![t].found = s]
        BY <2>5 DEF Fetch
      <3>2. task'[t].pc = "append" /\ task'[t].found = s
        BY <2>2, <3>1 DEF Task, TasksInv, Typed, TasksTyped
      <3>3. IsInjective(s) /\ ToSet(s) = saved
        BY <3>1, Answered DEF TasksInv, Typed, SystemTyped
      <3>4. Loading(t) /\ UNCHANGED <<list, saved>>
        BY <1>2, <2>5 DEF Fetch, sysVars, TasksInv, Loads
      <3> QED
        BY <2>1, <3>2, <3>3, <3>4 DEF Loading
    <2>6. CASE AppendAll(t)
      <3>1. /\ Finished(t, list') /\ task[t].pc = "append"
            /\ list' = list \o task[t].found /\ saved' = saved
        BY <2>6 DEF AppendAll, sysVars
      <3>2. task'[t].pc = "clear" \/ task'[t] = Idle
        BY <3>1, FinishedTask DEF TasksInv
      <3>3. /\ IsInjective(list) /\ saved \cap ToSet(list) = {}
            /\ IsInjective(task[t].found) /\ ToSet(task[t].found) = saved
        BY <1>2, <3>1 DEF TasksInv, Loads, Loading
      <3>4. task[t].found \in Seq(Confs)
        BY <2>2 DEF Task
      <3>5. saved' \subseteq ToSet(list') /\ IsInjective(list')
        BY <2>2, <3>1, <3>3, <3>4, Joined
      <3> QED
        BY <2>1, <3>2, <3>5
    <2>7. CASE FetchFails(t)
      <3>1. task'[t].pc = "clear" \/ task'[t] = Idle
        BY <2>7, FinishedTask DEF FetchFails, TasksInv
      <3>2. stale'
        BY <2>7 DEF FetchFails
      <3> QED
        BY <2>1, <3>1, <3>2
    <2>8. CASE RemoveFromPreferences(t) \/ RemovingFails(t) \/ RemoveFound(t)
      <3>1. task'[t].pc \in {"find", "clear"}
        BY <2>2, <2>8 DEF RemoveFromPreferences, RemovingFails, RemoveFound,
                          Goes, Task, TasksInv, Typed, TasksTyped
      <3> QED
        BY <2>1, <3>1
    <2>9. CASE Find(t)
      <3> DEFINE at == Positions(task[t].conf)
      <3>1. CASE at = {}
        <4>1. task'[t].pc = "clear"
          BY <2>2, <2>9, <3>1 DEF Find, Task, TasksInv, Typed, TasksTyped
        <4> QED
          BY <2>1, <4>1
      <3>2. CASE at # {}
        <4>1. task'[t].pc = "cut"
          BY <2>2, <2>9, <3>2 DEF Find, Task, TasksInv, Typed, TasksTyped
        <4> QED
          BY <2>1, <4>1
      <3> QED
        BY <3>1, <3>2
    <2> QED
      BY <2>4, <2>5, <2>6, <2>7, <2>8, <2>9 DEF Work
  <1> QED
    BY <1>1, <1>2

LEMMA UserKeepsList ==
    ASSUME TasksInv, User
    PROVE  (Alone /\ Loads /\ ListTrue)'
  <1>1. CASE UNCHANGED <<saved, list, task, overlap, stale>>
    BY <1>1 DEF TasksInv, Alone, Loads, Loading, ListTrue, Quiet
  <1>2. ASSUME NEW c \in Confs, NewVPNConfiguration(c)
        PROVE  (Alone /\ Loads /\ ListTrue)'
    <2>1. /\ c \notin saved \cup ToSet(list) /\ list' = Append(list, c)
          /\ UNCHANGED <<saved, task, overlap, stale>>
      BY <1>2 DEF NewVPNConfiguration
    <2>2. list \in Seq(Confs)
      BY DEF TasksInv, Typed, TasksTyped
    <2>3. /\ ToSet(list') = ToSet(list) \cup {c}
          /\ IsInjective(list) => IsInjective(list')
      BY <2>1, <2>2, Appended
    <2>4. \A t \in Tasks : Loading(t) => Loading(t)'
      BY <2>1, <2>3 DEF Loading
    <2>5. Loads'
      BY <2>1, <2>4 DEF TasksInv, Loads
    <2>6. ListTrue'
      BY <2>1, <2>3 DEF TasksInv, ListTrue, Quiet
    <2> QED
      BY <2>1, <2>5, <2>6 DEF TasksInv, Alone
  <1>3. CASE Save
    <2>1. /\ overlap' = (overlap \/ ~Quiet) /\ UNCHANGED <<list, task>>
          /\ saved' = saved \cup {sel["window"]}
          /\ stale' = (stale \/ sel["window"] \notin ToSet(list))
      BY <1>3 DEF Save, listVars
    <2>2. Idle.pc = "idle"
      BY DEF Idle
    <2> HIDE DEF Idle
    <2>3. CASE overlap'
      BY <2>3 DEF Alone, Loads, ListTrue
    <2>4. CASE ~overlap'
      <3>1. ~overlap /\ Quiet
        BY <2>1, <2>4
      <3>2. \A t \in Tasks : task'[t] = Idle
        BY <2>1, <3>1 DEF Quiet
      <3>3. ListTrue'
        BY <2>1, <3>1 DEF TasksInv, ListTrue
      <3> QED
        BY <2>2, <3>2, <3>3 DEF Alone, Loads
    <2> QED
      BY <2>3, <2>4
  <1>4. ASSUME NEW t \in Tasks, NEW c, NEW pc \in {"clear", "remove"},
               Begins(t, pc, c)
        PROVE  (Alone /\ Loads /\ ListTrue)'
    <2>1. /\ overlap' = (overlap \/ ~Quiet)
          /\ task' = [task EXCEPT ![t] =
                        [Idle EXCEPT !.pc = pc, !.conf = c, !.again = (c # None)]]
      BY <1>4 DEF Begins
    <2>2. Idle.pc = "idle" /\ task'[t].pc = pc
      BY <2>1 DEF Idle, TasksInv, Typed, TasksTyped
    <2> HIDE DEF Idle
    <2>3. \A u \in Tasks : u # t => task'[u] = task[u]
      BY <2>1 DEF TasksInv, Typed, TasksTyped
    <2>4. CASE overlap'
      BY <2>4 DEF Alone, Loads, ListTrue
    <2>5. CASE ~overlap'
      <3>1. \A u \in Tasks : u # t => task'[u] = Idle
        BY <2>1, <2>3, <2>5 DEF Quiet
      <3>2. Alone' /\ Loads'
        BY <2>2, <3>1 DEF Alone, Loads
      <3>3. ~Quiet'
        BY <2>2 DEF Quiet
      <3> QED
        BY <3>2, <3>3 DEF ListTrue
    <2> QED
      BY <2>4, <2>5
  <1>5. CASE Quit
    <2>1. (\A t \in Tasks : task'[t] = Idle) /\ stale'
      BY <1>5 DEF Quit
    <2>2. Idle.pc = "idle"
      BY DEF Idle
    <2> HIDE DEF Idle
    <2> QED
      BY <2>1, <2>2 DEF Alone, Loads, ListTrue
  <1>6. CASE \E v \in Views : Flip(v) \/ \E c \in Confs : Select(v, c)
    BY <1>1, <1>6 DEF Flip, Select, listVars
  <1>7. CASE \E c \in Confs : ContextMenu(c)
    BY <1>1, <1>7 DEF ContextMenu, listVars
  <1>8. CASE \E t \in Tasks : MenuAppears(t) \/ \E c \in Confs : Delete(t, c)
    BY <1>4, <1>8 DEF MenuAppears, Delete
  <1> QED
    BY <1>2, <1>3, <1>5, <1>6, <1>7, <1>8 DEF User

LEMMA NextKeepsList ==
    ASSUME TasksInv, [Next]_vars
    PROVE  (Alone /\ Loads /\ ListTrue)'
  <1>1. CASE UNCHANGED <<saved, list, task, overlap, stale>>
    BY <1>1 DEF TasksInv, Alone, Loads, Loading, ListTrue, Quiet
  <1>2. CASE Reaction \/ \E c \in Confs : Settling(c) \/ Drop(c)
    BY <1>1, <1>2, OthersKeepTasks
  <1>3. CASE UNCHANGED vars
    BY <1>1, <1>3 DEF vars, sysVars, listVars, history
  <1> QED
    BY <1>2, <1>3, WorkKeepsList, UserKeepsList DEF Next

LEMMA ListInvariant == Spec => []TasksInv
  <1>1. Init => TasksInv
    <2> SUFFICES ASSUME Init PROVE TasksInv
      OBVIOUS
    <2>1. Idle.pc = "idle"
      BY DEF Idle
    <2> HIDE DEF Idle
    <2>2. Alone /\ Loads /\ ListTrue
      BY <2>1 DEF Init, Alone, Loads, ListTrue
    <2> QED
      BY <2>2, InitTyped DEF TasksInv
  <1>2. TasksInv /\ [Next]_vars => TasksInv'
    <2> SUFFICES ASSUME TasksInv, [Next]_vars PROVE TasksInv'
      OBVIOUS
    <2> QED
      BY NextTyped, NextKeepsList DEF TasksInv
  <1> QED
    BY <1>1, <1>2, PTL DEF Spec

\* As long as loads, deletions and saves do not overlap, the list of the
\* manager shows what is saved, each configuration once, whatever the user
\* adds meanwhile (loadVPNPerferences, delete).
THEOREM ListAlwaysTrue == Spec => []ListTrue
  <1>1. TasksInv => ListTrue
    BY DEF TasksInv
  <1> QED
    BY ListInvariant, <1>1, PTL

-----------------------------------------------------------------------------
(* The switches                                                            *)

\* Steps that render nothing and write to no switch: a change of status while
\* a reaction is pending counts as crossed.
LEMMA StatusChanges ==
    ASSUME ViewsInv, UNCHANGED <<sel, shown, on, seen, asked>>, Crosses(Views),
           status' = status => notes' \in {notes, 0}
    PROVE  SelectionSteady' /\ SwitchesHarmless'
  <1> SUFFICES ASSUME ~crossed' PROVE SelectionSteady' /\ SwitchesHarmless'
    BY DEF SelectionSteady, SwitchesHarmless
  <1>1. ~crossed /\ (status' = status \/ Rendered)
    BY DEF Crosses, Rendered
  <1>2. CASE status' = status
    BY <1>1, <1>2
       DEF ViewsInv, SelectionSteady, SwitchesHarmless, Harmless, Steady
  <1>3. CASE Rendered
    BY <1>3 DEF Rendered, Pending, SelectionSteady, SwitchesHarmless, Harmless
  <1> QED
    BY <1>1, <1>2, <1>3

LEMMA NotifiedHarmless ==
    ASSUME ViewsInv, Notified
    PROVE  SelectionSteady' /\ SwitchesHarmless'
  <1> SUFFICES ASSUME ~crossed' PROVE SelectionSteady' /\ SwitchesHarmless'
    BY DEF SelectionSteady, SwitchesHarmless
  <1>1. /\ ~crossed /\ notes > 0
        /\ UNCHANGED <<sel, shown, seen, status, asked>>
    BY DEF Notified, history
  <1>2. \A v \in Views : shown[v] = sel[v]
    <2>1. notes # 0
      BY <1>1
    <2> QED
      BY <1>1, <2>1 DEF ViewsInv, SelectionSteady, Steady
  <1>3. SelectionSteady'
    BY <1>1, <1>2 DEF SelectionSteady
  <1>4. ASSUME NEW v \in Views \ asked'
        PROVE  Harmless(v)'
    <2>1. CASE on'[v] = on[v]
      BY <1>1, <1>4, <2>1 DEF ViewsInv, SwitchesHarmless, Harmless
    <2>2. CASE on'[v] # on[v]
      <3>1. v = "menu" /\ sel["menu"] # None
            /\ on'["menu"] = ShownOn(status[sel["menu"]])
        BY <2>2 DEF Notified, ViewsInv, Typed, ViewsTyped, Views
      <3> QED
        BY <1>1, <1>2, <3>1 DEF Harmless, ShownOn
    <2> QED
      BY <2>1, <2>2
  <1> QED
    BY <1>3, <1>4 DEF SwitchesHarmless

LEMMA OnSelectionHarmless ==
    ASSUME ViewsInv, NEW v \in Views, OnSelection(v)
    PROVE  SelectionSteady' /\ SwitchesHarmless'
  <1> SUFFICES ASSUME ~crossed' PROVE SelectionSteady' /\ SwitchesHarmless'
    BY DEF SelectionSteady, SwitchesHarmless
  <1>1. /\ ~crossed /\ shown[v] # sel[v]
        /\ UNCHANGED <<sel, status, notes, asked>>
    BY DEF OnSelection, sysVars, history
  <1>2. Steady
    BY <1>1 DEF ViewsInv, SelectionSteady
  <1>3. SelectionSteady'
    BY <1>1, <1>2 DEF SelectionSteady, Steady
  <1>4. /\ shown'[v] = sel[v]
        /\ on'[v] = (sel[v] # None /\ status[sel[v]] = "connected")
        /\ \A w \in Views : w # v =>
              shown'[w] = shown[w] /\ on'[w] = on[w] /\ seen'[w] = seen[w]
    BY DEF OnSelection, ViewsInv, Typed, ViewsTyped
  <1>5. sel[v] # None => status[sel[v]] \notin {"connecting", "disconnecting"}
    BY <1>2 DEF Steady, ViewsInv, Typed, ViewsTyped
  <1>6. Harmless(v)'
    BY <1>1, <1>4, <1>5 DEF Harmless
  <1>7. \A w \in Views \ asked : w # v => Harmless(w)'
    BY <1>1, <1>4 DEF ViewsInv, SwitchesHarmless, Harmless
  <1> QED
    BY <1>1, <1>3, <1>6, <1>7 DEF SwitchesHarmless

\* The reaction itself; if the start throws, the menu's switch goes back.
LEMMA OnSwitchHarmless ==
    ASSUME ViewsInv, NEW v \in Views, OnSwitch(v)
    PROVE  SelectionSteady' /\ SwitchesHarmless'
  <1> SUFFICES ASSUME ~crossed' PROVE SelectionSteady' /\ SwitchesHarmless'
    BY DEF SelectionSteady, SwitchesHarmless
  <1>1. /\ shown[v] = sel[v] /\ sel[v] \in Confs /\ UNCHANGED <<sel, shown>>
        /\ asked' = asked \ {v} /\ seen'[v] = on[v]
        /\ \A w \in Views : w # v => on'[w] = on[w] /\ seen'[w] = seen[w]
    BY DEF OnSwitch, ViewsInv, Typed, ViewsTyped
  <1>2. PICK s : /\ Becomes(sel[v], s)
                 /\ on'[v] = on[v] \/ (~on'[v] /\ Throws(s))
    BY DEF OnSwitch, SwitchedBack, ViewsInv, Typed, ViewsTyped
  <1>3. ~crossed /\ (Pending(Views \ {v}) => status' = status)
    BY DEF OnSwitch, Crosses
  <1>4. status'[sel[v]] = s /\ (status' = status => notes' = notes)
    BY <1>1, <1>2 DEF Becomes, ViewsInv, Typed, SystemTyped
  <1>5. SelectionSteady'
    <2> SUFFICES ASSUME NEW w \in Views, shown[w] # sel[w]
                 PROVE  Steady'
      BY <1>1 DEF SelectionSteady
    <2>1. Steady
      BY <1>3 DEF ViewsInv, SelectionSteady
    <2>2. status' = status
      BY <1>1, <1>3 DEF Pending
    <2> QED
      BY <1>4, <2>1, <2>2 DEF Steady
  <1>6. ASSUME NEW w \in Views \ asked, w # v
        PROVE  Harmless(w)'
    <2> SUFFICES ASSUME on[w] # seen[w] PROVE Harmless(w)'
      BY <1>1, <1>6 DEF Harmless
    <2>1. status' = status
      BY <1>3, <1>6 DEF Pending
    <2> QED
      BY <1>1, <1>3, <1>6, <2>1 DEF Harmless, ViewsInv, SwitchesHarmless
  <1>7. Harmless(v)'
    BY <1>1, <1>2, <1>4 DEF Harmless, Throws
  <1> QED
    BY <1>1, <1>5, <1>6, <1>7 DEF SwitchesHarmless

\* A load or a deletion moves a selection, or changes a status.
LEMMA WorkHarmless ==
    ASSUME ViewsInv, NEW t \in Tasks, Work(t)
    PROVE  SelectionSteady' /\ SwitchesHarmless'
  <1>1. CASE RemoveFromPreferences(t)
    <2>1. /\ UNCHANGED <<sel, shown, on, seen, asked>> /\ Crosses(Views)
          /\ Becomes(task[t].conf, "invalid") /\ task[t].conf \in Confs
      BY <1>1 DEF RemoveFromPreferences, viewVars, TaskOnly, ViewsInv, Typed,
                  TasksTyped
    <2>2. status' = status => notes' = notes
      BY <2>1 DEF Becomes, ViewsInv, Typed, SystemTyped
    <2> QED
      BY <2>1, <2>2, StatusChanges
  <1>2. CASE AppendAll(t) \/ FetchFails(t) \/ RemovingFails(t)
    <2>1. /\ UNCHANGED <<status, notes, shown, on, seen, asked>> /\ Moved
      BY <1>2 DEF AppendAll, FetchFails, RemovingFails, TaskOnly, sysVars
    <2>2. SelectionSteady'
      BY <2>1 DEF Moved, Steady, SelectionSteady, ViewsInv
    <2>3. SwitchesHarmless'
      BY <2>1 DEF Moved, SwitchesHarmless, Harmless, ViewsInv
    <2> QED
      BY <2>2, <2>3
  <1>3. CASE Clear(t) \/ Fetch(t) \/ Find(t) \/ RemoveFound(t)
    <2>1. UNCHANGED <<status, notes, sel, shown, on, seen, asked, crossed>>
      BY <1>3 DEF Clear, Fetch, Find, RemoveFound, TaskOnly, sysVars, viewVars
    <2> QED
      BY <2>1 DEF SelectionSteady, Steady, SwitchesHarmless, Harmless, ViewsInv
  <1> QED
    BY <1>1, <1>2, <1>3 DEF Work

\* The user acts when everything is rendered.
LEMMA UserHarmless ==
    ASSUME ViewsInv, User
    PROVE  SelectionSteady' /\ SwitchesHarmless'
  <1> SUFFICES ASSUME ~crossed' PROVE SelectionSteady' /\ SwitchesHarmless'
    BY DEF SelectionSteady, SwitchesHarmless
  <1>1. /\ \A v \in Views : shown[v] = sel[v] /\ on[v] = seen[v]
        /\ Steady
    BY UserActs DEF Acts, Rendered, Pending
  <1>2. CASE UNCHANGED <<shown, on, seen, sel>>
    BY <1>1, <1>2 DEF SelectionSteady, SwitchesHarmless, Harmless
  <1>3. CASE UNCHANGED <<shown, on, seen, status, notes>>
    BY <1>1, <1>3 DEF SelectionSteady, Steady, SwitchesHarmless, Harmless
  <1>4. ASSUME NEW v \in Views, Flip(v)
        PROVE  SelectionSteady' /\ SwitchesHarmless'
    <2>1. /\ UNCHANGED <<sel, shown, seen>> /\ asked' = asked \cup {v}
          /\ \A w \in Views : w # v => on'[w] = on[w]
      BY <1>4 DEF Flip, ViewsInv, Typed, ViewsTyped
    <2> QED
      BY <1>1, <2>1 DEF SelectionSteady, SwitchesHarmless, Harmless
  <1>5. CASE Quit
    BY <1>5 DEF Quit, SelectionSteady, SwitchesHarmless, Harmless
  <1>6. CASE \/ \E v \in Views, c \in Confs : Select(v, c)
             \/ \E c \in Confs : NewVPNConfiguration(c)
    BY <1>3, <1>6 DEF Select, NewVPNConfiguration
  <1>7. CASE Save \/ \E c \in Confs : ContextMenu(c)
    BY <1>2, <1>7 DEF Save, ContextMenu, viewVars
  <1>8. CASE \E t \in Tasks : MenuAppears(t) \/ \E c \in Confs : Delete(t, c)
    BY <1>2, <1>8 DEF MenuAppears, Delete, Begins, viewVars
  <1> QED
    BY <1>4, <1>5, <1>6, <1>7, <1>8 DEF User

LEMMA NextHarmless ==
    ASSUME ViewsInv, [Next]_vars
    PROVE  SelectionSteady' /\ SwitchesHarmless'
  <1>1. ASSUME NEW c \in Confs, Settling(c) \/ Drop(c)
        PROVE  SelectionSteady' /\ SwitchesHarmless'
    <2>1. /\ UNCHANGED <<sel, shown, on, seen, asked>> /\ Crosses(Views)
          /\ \E s \in Statuses : Becomes(c, s)
      BY <1>1 DEF Settling, Drop, viewVars, Statuses
    <2>2. status' = status => notes' = notes
      BY <2>1 DEF Becomes, ViewsInv, Typed, SystemTyped
    <2> QED
      BY <2>1, <2>2, StatusChanges
  <1>2. CASE UNCHANGED vars
    BY <1>2 DEF vars, sysVars, viewVars, history, SelectionSteady, Steady,
                SwitchesHarmless, Harmless, ViewsInv
  <1> QED
    BY <1>1, <1>2, NotifiedHarmless, OnSelectionHarmless, OnSwitchHarmless,
       WorkHarmless, UserHarmless DEF Next, Reaction

LEMMA ViewsInvariant == Spec => []ViewsInv
  <1>1. Init => ViewsInv
    <2> SUFFICES ASSUME Init PROVE ViewsInv
      OBVIOUS
    <2>1. SelectionSteady /\ SwitchesHarmless
      BY DEF Init, SelectionSteady, SwitchesHarmless, Harmless
    <2> QED
      BY <2>1, InitTyped DEF ViewsInv
  <1>2. ViewsInv /\ [Next]_vars => ViewsInv'
    <2> SUFFICES ASSUME ViewsInv, [Next]_vars PROVE ViewsInv'
      OBVIOUS
    <2> QED
      BY NextTyped, NextHarmless DEF ViewsInv
  <1> QED
    BY <1>1, <1>2, PTL DEF Spec

\* Unless actions and changes of status crossed, a switch that reacts to what
\* a notification or a selection wrote to it starts and stops no tunnel
\* (onChange of isConnected in StatusView and VPNConfigurationView).
THEOREM ReactionsAlwaysHarmless == Spec => ReactionsHarmless
  <1>1. ViewsInv => [\A v \in Views :
                       OnSwitch(v) /\ v \notin asked /\ ~crossed
                         => status' = status]_vars
    <2> SUFFICES ASSUME ViewsInv, NEW v \in Views, OnSwitch(v), v \notin asked,
                        ~crossed
                 PROVE  status' = status
      OBVIOUS
    <2>1. /\ shown[v] = sel[v] /\ sel[v] # None /\ on[v] # seen[v]
          /\ sel[v] \in Confs /\ Harmless(v)
      BY DEF OnSwitch, ViewsInv, SwitchesHarmless, Typed, ViewsTyped
    <2>2. \E s \in {status[sel[v]]} : Becomes(sel[v], s)
      <3>1. CASE on[v]
        <4>1. AfterStart(sel[v]) = {status[sel[v]]}
          BY <2>1, <3>1 DEF Harmless, AfterStart
        <4> QED
          BY <3>1, <4>1 DEF OnSwitch
      <3>2. CASE ~on[v]
        <4>1. AfterStop(sel[v]) = status[sel[v]]
          BY <2>1, <3>2 DEF Harmless, AfterStop
        <4> QED
          BY <3>2, <4>1 DEF OnSwitch
      <3> QED
        BY <3>1, <3>2
    <2> QED
      BY <2>1, <2>2 DEF Becomes, ViewsInv, Typed, SystemTyped
  <1> QED
    BY <1>1, ViewsInvariant, PTL DEF ReactionsHarmless

=============================================================================
