------------------------------ MODULE Targets ------------------------------
(***************************************************************************)
(* The target manager (browser_runtime/targets.rs) between its two kinds   *)
(* of callers: the event dispatcher, which applies Target.* events one at  *)
(* a time, and the IPC handlers of server.rs, which run on other worker    *)
(* threads (switch_target, tabs, and simulate_reconnect or crash_handle,   *)
(* which do the same to this component).                                   *)
(*                                                                         *)
(* The manager has one RwLock for the records, one for the id of the       *)
(* active target and one for the session map.  The first two are held      *)
(* across one another, so every acquisition of them is a step; the third   *)
(* is only ever held for one access and needs no lock variable.  A step    *)
(* whose lock is taken and released within it only waits for the lock.     *)
(*                                                                         *)
(* Records lose what decides nothing: url, title, type and the lifecycle   *)
(* word (a Destroyed record is removed in the critical section that marks  *)
(* it).  target_generation and connection_generation are bumped together   *)
(* by DomState::on_reconnected and are one number, gen, here.              *)
(***************************************************************************)
EXTENDS Naturals, Sequences, FiniteSets, Functions

CONSTANTS
    Ids,        \* target ids
    Sessions,   \* session ids; the browser uses each of them once
    Calls,      \* the IPC requests
    MaxGen,     \* bound on the generations
    MaxEvents,  \* bound on the events the browser emits
    Capacity    \* capacity of the broadcast channel (4096 in the code)

ASSUME BoundsAssumption ==
    /\ MaxGen \in Nat \ {0} /\ MaxEvents \in Nat /\ Capacity \in Nat \ {0}
ASSUME NamesAssumption == Ids \cap {"none", "unused", "ended"} = {} /\ "none" \notin Sessions /\ "disp" \notin Calls

None == "none"
Disp == "disp"
Actors == Calls \cup {Disp}

VARIABLES
    targets,    \* the records, by id
    s2t,        \* session_to_target
    active,     \* active_target_id
    gen,        \* DomState's target and connection generation
    lockT,      \* who holds the lock of the records across another lock
    lockA,      \* who holds the lock of the active id, and how
    pc,         \* where every actor is
    loc,        \* every actor's local variables
    stream,     \* the dispatcher's broadcast receiver
    subscribed, \* whether the dispatcher exists yet
    tab,        \* the browser's targets; an id is used once
    live,       \* the browser's sessions: the target of an attached one
    emitted,    \* number of events so far
    lagged,     \* history: the receiver has dropped events
    vanished,   \* history: a switch has answered "vanished during switch"
    since,      \* history: the generation in which the browser attached a session
    taken       \* history: the one in which the dispatcher took its attach up

manager == <<targets, s2t, active, gen>>
locks == <<lockT, lockA>>
actors == <<pc, loc>>
open == {t \in Ids : tab[t] = "open"}
browser == <<tab, live, emitted>>
history == <<vanished, since, taken>>
vars == <<manager, locks, actors, browser, history, stream, subscribed, lagged>>

Free == [by |-> None, mode |-> "free"]
Held(a, mode) == [by |-> a, mode |-> mode]
CanRead(lock) == lock.mode # "write"
CanWrite(lock) == lock.mode = "free"

Records == [gen: 1..MaxGen, cgen: 1..MaxGen, session: Sessions \cup {None},
            active: BOOLEAN, crashed: BOOLEAN]
Events == [kind: {"created", "destroyed", "crashed", "attached", "detached", "navigated"},
           id: Ids \cup {None}, session: Sessions \cup {None}]

\* Where a request and the dispatcher can be, and what they know there.
CallPlaces == {"idle", "done", "switch", "switch_flags", "switch_get", "reconnect", "reconnect_map",
               "reconnect_clear", "reconnect_first", "reconnect_promote",
               "sync", "sync_records", "sync_active", "sync_promote"}
DispPlaces == {"idle", "created", "created_active", "destroyed", "destroyed_active",
               "crashed", "crashed_active", "attached", "attached_map", "attached_active",
               "attached_flag", "detached", "detached_map", "detached_clear", "detached_promote",
               "detached_read", "detached_flag", "navigated", "navigated_url"}
Locals == [id: Ids \cup {None}, session: Sessions \cup {None}, gen: 0..MaxGen,
           old: Ids \cup {None}, infos: SUBSET Ids]

ManagerOK ==
    /\ DOMAIN targets \subseteq Ids /\ targets \in [DOMAIN targets -> Records]
    /\ DOMAIN s2t \subseteq Sessions /\ s2t \in [DOMAIN s2t -> Ids]
    /\ active \in Ids \cup {None} /\ gen \in 1..MaxGen
    /\ lockT \in [by: Actors \cup {None}, mode: {"free", "write"}]
    /\ lockA \in [by: Actors \cup {None}, mode: {"free", "read", "write"}]

ActorsOK ==
    /\ pc \in [Actors -> CallPlaces \cup DispPlaces] /\ loc \in [Actors -> Locals]
    /\ pc[Disp] \in DispPlaces /\ \A c \in Calls : pc[c] \in CallPlaces

BrowserOK ==
    /\ stream \in Seq(Events) /\ Len(stream) <= Capacity
    /\ subscribed \in BOOLEAN /\ lagged \in BOOLEAN /\ vanished \in BOOLEAN
    /\ tab \in [Ids -> {"unused", "open", "gone"}]
    /\ live \in [Sessions -> open \cup {"unused", "ended"}]
    /\ emitted \in 0..MaxEvents /\ since \in [Sessions -> 0..MaxGen] /\ taken \in [Sessions -> 0..MaxGen]

TypeOK == ManagerOK /\ ActorsOK /\ BrowserOK

NoLocals == [id |-> None, session |-> None, gen |-> 0, old |-> None, infos |-> {}]

NewRecord(g) == [gen |-> g, cgen |-> g, session |-> None, active |-> FALSE, crashed |-> FALSE]

\* Adds or replaces records, and drops some.
Put(f, k, v) == [x \in DOMAIN f \cup {k} |-> IF x = k THEN v ELSE f[x]]
Without(f, S) == Restrict(f, DOMAIN f \ S)
Flag(recs, id, b) == IF id \in DOMAIN recs THEN [recs EXCEPT ![id].active = b] ELSE recs

-----------------------------------------------------------------------------
(* Start-up: serve() seeds the manager and only then subscribes.           *)

\* connect() has attached the pages; what it made the browser emit had no
\* receiver yet.
Init ==
    /\ tab \in [Ids -> {"unused", "open"}]
    /\ live = [s \in Sessions |-> "unused"]
    /\ s2t = [s \in {} |-> None]
    /\ gen = 1
    /\ IF open = {} THEN active = None ELSE active \in open
    /\ targets = [t \in open |-> [NewRecord(1) EXCEPT !.active = (t = active)]]
    /\ lockT = Free /\ lockA = Free
    /\ pc = [a \in Actors |-> "idle"]
    /\ loc = [a \in Actors |-> NoLocals]
    /\ stream = <<>>
    /\ subscribed = FALSE
    /\ emitted = 0
    /\ lagged = FALSE
    /\ vanished = FALSE
    /\ since = [s \in Sessions |-> 0] /\ taken = [s \in Sessions |-> 0]

\* The dispatcher is created and the daemon is Connected.
Subscribe ==
    /\ ~subscribed
    /\ subscribed' = TRUE
    /\ UNCHANGED <<manager, locks, actors, browser, history, stream, lagged>>

-----------------------------------------------------------------------------
(* The browser and the broadcast channel.                                  *)

\* An event reaches the receiver, if there is one; a full one drops its
\* oldest event.
Emit(ev) ==
    /\ emitted < MaxEvents
    /\ emitted' = emitted + 1
    /\ lagged' = (lagged \/ (subscribed /\ Len(stream) = Capacity))
    /\ stream' = IF ~subscribed THEN stream
                 ELSE Append(IF Len(stream) = Capacity THEN Tail(stream) ELSE stream, ev)
    /\ since' = IF ev.kind = "attached" THEN [since EXCEPT ![ev.session] = gen] ELSE since
    /\ UNCHANGED <<manager, locks, actors, vanished, taken, subscribed>>

BrowserCreates(t) ==
    /\ tab[t] = "unused"
    /\ tab' = [tab EXCEPT ![t] = "open"]
    /\ Emit([kind |-> "created", id |-> t, session |-> None])
    /\ UNCHANGED live

BrowserDestroys(t) ==
    /\ t \in open
    /\ tab' = [tab EXCEPT ![t] = "gone"]
    /\ live' = [s \in Sessions |-> IF live[s] = t THEN "ended" ELSE live[s]]
    /\ Emit([kind |-> "destroyed", id |-> t, session |-> None])

BrowserCrashes(t) ==
    /\ t \in open
    /\ Emit([kind |-> "crashed", id |-> t, session |-> None])
    /\ UNCHANGED <<tab, live>>

\* By itself, or for the attach_target operation, whose whole effect this is.
BrowserAttaches(t, s) ==
    /\ t \in open /\ live[s] = "unused"
    /\ live' = [live EXCEPT ![s] = t]
    /\ Emit([kind |-> "attached", id |-> t, session |-> s])
    /\ UNCHANGED tab

\* By itself, or for detach_target.  The event may or may not carry the
\* deprecated targetId.
BrowserDetaches(s) ==
    /\ live[s] \in open
    /\ live' = [live EXCEPT ![s] = "ended"]
    /\ \E t \in {live[s], None} : Emit([kind |-> "detached", id |-> t, session |-> s])
    /\ UNCHANGED tab

\* A frameNavigated of the main frame that belongs to no session.
BrowserNavigates ==
    /\ Emit([kind |-> "navigated", id |-> None, session |-> None])
    /\ UNCHANGED <<tab, live>>

Browser ==
    \/ \E t \in Ids : BrowserCreates(t) \/ BrowserDestroys(t) \/ BrowserCrashes(t)
    \/ \E t \in Ids, s \in Sessions : BrowserAttaches(t, s)
    \/ \E s \in Sessions : BrowserDetaches(s)
    \/ BrowserNavigates

-----------------------------------------------------------------------------
(* The dispatcher.                                                         *)

Goto(a, l) == pc' = [pc EXCEPT ![a] = l] /\ UNCHANGED loc
Return(a, l) == pc' = [pc EXCEPT ![a] = l] /\ loc' = [loc EXCEPT ![a] = NoLocals]

\* on_event picks the handler; the ones that create a record have read the
\* generation before they ask for a lock.  on_detached finds its target in the
\* session map, else in the event.
Receive ==
    /\ pc[Disp] = "idle" /\ stream # <<>>
    /\ stream' = Tail(stream)
    /\ LET ev == Head(stream)
           id == IF ev.kind = "detached" /\ ev.session \in DOMAIN s2t
                 THEN s2t[ev.session] ELSE ev.id
       IN /\ IF ev.kind = "detached" /\ id = None THEN UNCHANGED actors
             ELSE /\ pc' = [pc EXCEPT ![Disp] = ev.kind]
                  /\ loc' = [loc EXCEPT ![Disp].id = id, ![Disp].session = ev.session, ![Disp].gen = gen]
          /\ taken' = IF ev.kind = "attached" THEN [taken EXCEPT ![ev.session] = gen] ELSE taken
    /\ UNCHANGED <<manager, locks, browser, vanished, since, subscribed, lagged>>

\* Steps of a handler change the manager, the locks and the actor.
Handled == UNCHANGED <<gen, browser, history, stream, subscribed, lagged>>

tid == loc[Disp].id
sid == loc[Disp].session

\* on_target_created: the record, with the lock kept ...
OnTargetCreated ==
    /\ pc[Disp] = "created" /\ CanWrite(lockT)
    /\ targets' = IF tid \in DOMAIN targets THEN targets ELSE Put(targets, tid, NewRecord(loc[Disp].gen))
    /\ lockT' = Held(Disp, "write")
    /\ Goto(Disp, "created_active")
    /\ UNCHANGED <<s2t, active, lockA>> /\ Handled

\* ... until the active id has been looked at.
OnTargetCreatedActive ==
    /\ pc[Disp] = "created_active" /\ CanWrite(lockA)
    /\ \/ active = None /\ active' = tid /\ targets' = Flag(targets, tid, TRUE)
       \/ active # None /\ UNCHANGED <<active, targets>>
    /\ lockT' = Free
    /\ Return(Disp, "idle")
    /\ UNCHANGED <<s2t, lockA>> /\ Handled

\* on_target_destroyed: the record and its session go ...
OnTargetDestroyed ==
    /\ pc[Disp] = "destroyed" /\ CanWrite(lockT)
    /\ targets' = Without(targets, {tid})
    /\ s2t' = IF tid \in DOMAIN targets THEN Without(s2t, {targets[tid].session}) ELSE s2t
    /\ lockT' = Held(Disp, "write")
    /\ Goto(Disp, "destroyed_active")
    /\ UNCHANGED <<active, lockA>> /\ Handled

\* Mutant of OnTargetDestroyedActive: nothing is promoted and the id stays.
OnTargetDestroyedKeepsActive ==
    /\ pc[Disp] = "destroyed_active" /\ CanWrite(lockA)
    /\ s2t' = Restrict(s2t, {s \in DOMAIN s2t : s2t[s] # tid})
    /\ lockT' = Free
    /\ Return(Disp, "idle")
    /\ UNCHANGED <<targets, active, lockA>> /\ Handled

\* ... and if it was active any other target is promoted, a crashed one too.
OnTargetDestroyedActive ==
    /\ pc[Disp] = "destroyed_active" /\ CanWrite(lockA)
    /\ \/ active # tid /\ UNCHANGED <<active, targets>>
       \/ active = tid /\ DOMAIN targets = {} /\ active' = None /\ UNCHANGED targets
       \/ active = tid /\ \E t \in DOMAIN targets : active' = t /\ targets' = Flag(targets, t, TRUE)
    /\ s2t' = Restrict(s2t, {s \in DOMAIN s2t : s2t[s] # tid})
    /\ lockT' = Free
    /\ Return(Disp, "idle")
    /\ UNCHANGED lockA /\ Handled

\* on_target_crashed: mark it, or leave a tombstone ...
OnTargetCrashed ==
    /\ pc[Disp] = "crashed" /\ CanWrite(lockT)
    /\ targets' = Put(targets, tid,
                      [(IF tid \in DOMAIN targets THEN targets[tid] ELSE NewRecord(gen))
                          EXCEPT !.crashed = TRUE, !.active = FALSE])
    /\ Goto(Disp, "crashed_active")
    /\ UNCHANGED <<s2t, active, locks>> /\ Handled

\* ... and then nothing is active if it was; nothing is promoted.
OnTargetCrashedActive ==
    /\ pc[Disp] = "crashed_active" /\ CanWrite(lockA)
    /\ active' = IF active = tid THEN None ELSE active
    /\ Return(Disp, "idle")
    /\ UNCHANGED <<targets, s2t, locks>> /\ Handled

\* on_attached: the record (a new one has the generation of now, the session
\* the one read before) ...
OnAttached ==
    /\ pc[Disp] = "attached" /\ CanWrite(lockT)
    /\ targets' = Put(targets, tid,
                      [(IF tid \in DOMAIN targets THEN targets[tid] ELSE NewRecord(gen))
                          EXCEPT !.session = sid, !.cgen = loc[Disp].gen])
    /\ Goto(Disp, "attached_map")
    /\ UNCHANGED <<s2t, active, locks>> /\ Handled

\* ... the session map, and a look at the active id ...
OnAttachedMap ==
    /\ pc[Disp] = "attached_map" /\ CanRead(lockA)
    /\ s2t' = Put(s2t, sid, tid)
    /\ IF active = None THEN Goto(Disp, "attached_active") ELSE Return(Disp, "idle")
    /\ UNCHANGED <<targets, active, locks>> /\ Handled

\* ... which is released, and written in a second critical section ...
OnAttachedActive ==
    /\ pc[Disp] = "attached_active" /\ CanWrite(lockA)
    /\ active' = tid
    /\ Goto(Disp, "attached_flag")
    /\ UNCHANGED <<targets, s2t, locks>> /\ Handled

\* ... and the flag in a third.
OnAttachedFlag ==
    /\ pc[Disp] = "attached_flag" /\ CanWrite(lockT)
    /\ targets' = Flag(targets, tid, TRUE)
    /\ Return(Disp, "idle")
    /\ UNCHANGED <<s2t, active, locks>> /\ Handled

\* Mutant of OnDetached: the event is only looked at.
OnDetachedForgetsNothing ==
    /\ pc[Disp] = "detached" /\ CanWrite(lockT)
    /\ Return(Disp, "idle")
    /\ UNCHANGED <<targets, s2t, active, locks>> /\ Handled

\* on_detached: the record forgets the session if it is the one it has ...
OnDetached ==
    /\ pc[Disp] = "detached" /\ CanWrite(lockT)
    /\ targets' = IF tid \in DOMAIN targets /\ targets[tid].session = sid
                  THEN [targets EXCEPT ![tid].session = None, ![tid].active = FALSE]
                  ELSE targets
    /\ Goto(Disp, "detached_map")
    /\ UNCHANGED <<s2t, active, locks>> /\ Handled

\* ... the map too, and a look at the active id ...
OnDetachedMap ==
    /\ pc[Disp] = "detached_map" /\ CanRead(lockA)
    /\ s2t' = Without(s2t, {sid})
    /\ IF active = tid THEN Goto(Disp, "detached_clear") ELSE Return(Disp, "idle")
    /\ UNCHANGED <<targets, active, locks>> /\ Handled

\* ... whoever is active now stops being it, and its lock is kept ...
OnDetachedClear ==
    /\ pc[Disp] = "detached_clear" /\ CanWrite(lockA)
    /\ active' = None
    /\ lockA' = Held(Disp, "write")
    /\ Goto(Disp, "detached_promote")
    /\ UNCHANGED <<targets, s2t, lockT>> /\ Handled

\* ... while the records are read for an attached target, else any ...
OnDetachedPromote ==
    /\ pc[Disp] = "detached_promote" /\ CanRead(lockT)
    /\ LET attached == {t \in DOMAIN targets : targets[t].session # None}
           choice == IF attached # {} THEN attached ELSE DOMAIN targets
       IN IF choice = {} THEN active' = None ELSE active' \in choice
    /\ lockA' = Free
    /\ Goto(Disp, "detached_read")
    /\ UNCHANGED <<targets, s2t, lockT>> /\ Handled

\* ... and the id is read back, under a read lock that is kept ...
OnDetachedRead ==
    /\ pc[Disp] = "detached_read" /\ CanRead(lockA)
    /\ IF active = None THEN lockA' = lockA /\ Return(Disp, "idle")
       ELSE lockA' = Held(Disp, "read") /\ Goto(Disp, "detached_flag")
    /\ UNCHANGED <<targets, s2t, active, lockT>> /\ Handled

\* ... until its record has the flag.
OnDetachedFlag ==
    /\ pc[Disp] = "detached_flag" /\ CanWrite(lockT)
    /\ targets' = Flag(targets, active, TRUE)
    /\ lockA' = Free
    /\ Return(Disp, "idle")
    /\ UNCHANGED <<s2t, active, lockT>> /\ Handled

\* on_frame_navigated without a session: the active id's lock is kept while
\* the record gets its new url.
OnFrameNavigated ==
    /\ pc[Disp] = "navigated" /\ CanRead(lockA)
    /\ IF active = None THEN lockA' = lockA /\ Return(Disp, "idle")
       ELSE lockA' = Held(Disp, "read") /\ Goto(Disp, "navigated_url")
    /\ UNCHANGED <<targets, s2t, active, lockT>> /\ Handled

OnFrameNavigatedUrl ==
    /\ pc[Disp] = "navigated_url" /\ CanWrite(lockT)
    /\ lockA' = Free
    /\ Return(Disp, "idle")
    /\ UNCHANGED <<targets, s2t, active, lockT>> /\ Handled

Dispatch ==
    \/ Receive
    \/ OnTargetCreated \/ OnTargetCreatedActive
    \/ OnTargetDestroyed \/ OnTargetDestroyedActive
    \/ OnTargetCrashed \/ OnTargetCrashedActive
    \/ OnAttached \/ OnAttachedMap \/ OnAttachedActive \/ OnAttachedFlag
    \/ OnDetached \/ OnDetachedMap \/ OnDetachedClear \/ OnDetachedPromote
    \/ OnDetachedRead \/ OnDetachedFlag
    \/ OnFrameNavigated \/ OnFrameNavigatedUrl

-----------------------------------------------------------------------------
(* switch_target.                                                          *)

\* check_target_ref and the checks on a copy of the record; the request may
\* come with a generation it was told earlier, and is refused.
SwitchTarget(c) ==
    /\ pc[c] = "idle" /\ subscribed /\ CanRead(lockT)
    /\ \E t \in Ids :
           IF t \in DOMAIN targets /\ ~targets[t].crashed /\ targets[t].gen = gen
           THEN \/ loc' = [loc EXCEPT ![c].id = t] /\ pc' = [pc EXCEPT ![c] = "switch"]
                \/ gen > 1 /\ Return(c, "done")
           ELSE Return(c, "done")
    /\ UNCHANGED <<manager, locks, browser, history, stream, subscribed, lagged>>

\* The active id is written, and its lock kept ...
SwitchActive(c) ==
    /\ pc[c] = "switch" /\ CanWrite(lockA)
    /\ loc' = [loc EXCEPT ![c].old = active]
    /\ active' = loc[c].id
    /\ lockA' = Held(c, "write")
    /\ pc' = [pc EXCEPT ![c] = "switch_flags"]
    /\ UNCHANGED <<targets, s2t, lockT>> /\ Handled

\* Mutant of SwitchFlags: the old flag goes after the new one has come.
SwitchFlagsSwapped(c) ==
    /\ pc[c] = "switch_flags" /\ CanWrite(lockT)
    /\ targets' = Flag(Flag(targets, loc[c].id, TRUE), loc[c].old, FALSE)
    /\ lockA' = Free
    /\ Goto(c, "switch_get")
    /\ UNCHANGED <<s2t, active, lockT>> /\ Handled

\* Mutant of SwitchFlags: the lock of the active id outlives the switch.
SwitchFlagsKeepsLock(c) ==
    /\ pc[c] = "switch_flags" /\ CanWrite(lockT)
    /\ targets' = Flag(Flag(targets, loc[c].old, FALSE), loc[c].id, TRUE)
    /\ Goto(c, "switch_get")
    /\ UNCHANGED <<s2t, active, locks>> /\ Handled

\* ... for the flags of the old and the new record.
SwitchFlags(c) ==
    /\ pc[c] = "switch_flags" /\ CanWrite(lockT)
    /\ targets' = Flag(Flag(targets, loc[c].old, FALSE), loc[c].id, TRUE)
    /\ lockA' = Free
    /\ Goto(c, "switch_get")
    /\ UNCHANGED <<s2t, active, lockT>> /\ Handled

\* The answer is the record, if it is still there.
SwitchAnswer(c) ==
    /\ pc[c] = "switch_get" /\ CanRead(lockT)
    /\ vanished' = (vanished \/ loc[c].id \notin DOMAIN targets)
    /\ Return(c, "done")
    /\ UNCHANGED <<manager, locks, browser, since, taken, stream, subscribed, lagged>>

-----------------------------------------------------------------------------
(* Reconnect: DomState::on_reconnected and handle_reconnect.               *)

Reconnect(c) ==
    /\ pc[c] = "idle" /\ subscribed /\ gen < MaxGen
    /\ gen' = gen + 1
    /\ loc' = [loc EXCEPT ![c].gen = gen + 1]
    /\ pc' = [pc EXCEPT ![c] = "reconnect"]
    /\ UNCHANGED <<targets, s2t, active, locks, browser, history, stream, subscribed, lagged>>

\* Mutant of ReconnectRecords: the records keep their sessions.
ReconnectKeepsSessions(c) ==
    /\ pc[c] = "reconnect" /\ CanWrite(lockT)
    /\ targets' = [t \in DOMAIN targets |->
                      [targets[t] EXCEPT !.gen = loc[c].gen, !.cgen = loc[c].gen]]
    /\ Goto(c, "reconnect_map")
    /\ UNCHANGED <<s2t, active, locks>> /\ Handled

\* Every record adopts the generations it was called with.
ReconnectRecords(c) ==
    /\ pc[c] = "reconnect" /\ CanWrite(lockT)
    /\ targets' = [t \in DOMAIN targets |->
                      [targets[t] EXCEPT !.gen = loc[c].gen, !.cgen = loc[c].gen, !.session = None]]
    /\ Goto(c, "reconnect_map")
    /\ UNCHANGED <<s2t, active, locks>> /\ Handled

ReconnectMap(c) ==
    /\ pc[c] = "reconnect_map"
    /\ s2t' = [s \in {} |-> None]
    /\ Goto(c, "reconnect_clear")
    /\ UNCHANGED <<targets, active, locks>> /\ Handled

\* The id is cleared, the flag of the record it named is not.
ReconnectClear(c) ==
    /\ pc[c] = "reconnect_clear" /\ CanWrite(lockA)
    /\ active' = None
    /\ Goto(c, "reconnect_first")
    /\ UNCHANGED <<targets, s2t, locks>> /\ Handled

\* The records are locked again for a first survivor ...
ReconnectFirst(c) ==
    /\ pc[c] = "reconnect_first" /\ CanWrite(lockT)
    /\ IF DOMAIN targets = {} THEN lockT' = lockT /\ Return(c, "done")
       ELSE lockT' = Held(c, "write") /\ Goto(c, "reconnect_promote")
    /\ UNCHANGED <<targets, s2t, active, lockA>> /\ Handled

\* ... that becomes the active one.
ReconnectPromote(c) ==
    /\ pc[c] = "reconnect_promote" /\ CanWrite(lockA)
    /\ \E t \in DOMAIN targets : active' = t /\ targets' = Flag(targets, t, TRUE)
    /\ lockT' = Free
    /\ Return(c, "done")
    /\ UNCHANGED <<s2t, lockA>> /\ Handled

-----------------------------------------------------------------------------
(* tabs: an empty manager is filled from Target.getTargets.                *)

\* target_count is 0, and the browser answers with its targets of then.
Tabs(c) ==
    /\ pc[c] = "idle" /\ subscribed /\ CanRead(lockT)
    /\ IF DOMAIN targets = {}
       THEN /\ loc' = [loc EXCEPT ![c].infos = open]
            /\ pc' = [pc EXCEPT ![c] = "sync"]
       ELSE Return(c, "done")
    /\ UNCHANGED <<manager, locks, browser, history, stream, subscribed, lagged>>

\* sync_from_target_infos reads the generation and asks for the records ...
Sync(c) ==
    /\ pc[c] = "sync"
    /\ loc' = [loc EXCEPT ![c].gen = gen]
    /\ pc' = [pc EXCEPT ![c] = "sync_records"]
    /\ UNCHANGED <<targets, s2t, active, locks>> /\ Handled

SyncRecords(c) ==
    /\ pc[c] = "sync_records" /\ CanWrite(lockT)
    /\ targets' = [t \in DOMAIN targets \cup loc[c].infos |->
                      IF t \in DOMAIN targets THEN targets[t] ELSE NewRecord(loc[c].gen)]
    /\ lockT' = Held(c, "write")
    /\ Goto(c, "sync_active")
    /\ UNCHANGED <<s2t, active, lockA>> /\ Handled

\* ... which it keeps while it looks at the active id ...
SyncActive(c) ==
    /\ pc[c] = "sync_active" /\ CanRead(lockA)
    /\ IF active # None \/ DOMAIN targets = {} THEN lockT' = Free /\ Return(c, "done")
       ELSE lockT' = lockT /\ Goto(c, "sync_promote")
    /\ UNCHANGED <<targets, s2t, active, lockA>> /\ Handled

\* ... and, if there was none, writes it in a second critical section.
SyncPromote(c) ==
    /\ pc[c] = "sync_promote" /\ CanWrite(lockA)
    /\ \E t \in DOMAIN targets : active' = t /\ targets' = Flag(targets, t, TRUE)
    /\ lockT' = Free
    /\ Return(c, "done")
    /\ UNCHANGED <<s2t, lockA>> /\ Handled

-----------------------------------------------------------------------------
CallStep(c) ==
    \/ SwitchActive(c) \/ SwitchFlags(c) \/ SwitchAnswer(c)
    \/ ReconnectRecords(c) \/ ReconnectMap(c) \/ ReconnectClear(c)
    \/ ReconnectFirst(c) \/ ReconnectPromote(c)
    \/ Sync(c) \/ SyncRecords(c) \/ SyncActive(c) \/ SyncPromote(c)

Request(c) == SwitchTarget(c) \/ Reconnect(c) \/ Tabs(c)

Next ==
    \/ Browser \/ Subscribe \/ Dispatch
    \/ \E c \in Calls : Request(c) \/ CallStep(c)

Spec == Init /\ [][Next]_vars

-----------------------------------------------------------------------------
(* Properties.                                                             *)

\* check_session_id: the record the map names has this very session, else
\* some record has it; either way with the current generation, and in the map.
Accepts(s) ==
    /\ s \in DOMAIN s2t
    /\ \E t \in DOMAIN targets : targets[t].session = s /\ targets[t].cgen = gen

Busy(a) == pc[a] \notin {"idle", "done"}
Quiet == \A a \in Actors : ~Busy(a)

\* Between operations the active target carries the active flag, whichever of
\* the code paths made it active and whatever ran in between.  (A target that is
\* gone may lack it: a late getTargets answer can bring its record back while a
\* switch to it is under way.)
ActiveIsFlagged ==
    (Quiet /\ active \in DOMAIN targets \cap open) => targets[active].active

\* The active id names a target that is gone only when a switch that lost the
\* race with targetDestroyed has told its caller so ("vanished during switch").
DanglingIsReported ==
    (Quiet /\ active # None /\ active \notin DOMAIN targets) => vanished

\* An event that ends the session s of target t.
Ends(ev, s, t) ==
    \/ ev.kind = "detached" /\ ev.session = s
    \/ ev.kind = "destroyed" /\ ev.id = t

\* A session that validate_session_id lets through is attached in the browser, to
\* the target the map has for it, unless the event of its end is still in the
\* channel or being handled, or was lost with the events the full channel dropped.
AcceptedSessionIsLive ==
    \A s \in Sessions : (Accepts(s) /\ ~lagged) =>
        \/ live[s] = s2t[s]
        \/ \E i \in 1..Len(stream) : Ends(stream[i], s, s2t[s])
        \/ pc[Disp] \in {"detached", "detached_map"} /\ sid = s
        \/ pc[Disp] \in {"destroyed", "destroyed_active"} /\ tid = s2t[s]

\* The attach was sent on a connection that has been replaced, and received after.
TakenUpLate(s) == since[s] < gen /\ taken[s] = gen

\* A session the browser attached before a reconnect is refused from the moment the
\* generation is bumped, though clearing the records and the map are two steps and
\* the dispatcher may be between its own two (I12).  Excepted is a session whose
\* attach was still in the channel at the bump: on_attached stamps it with the
\* generation of the time it is taken up, and the old dispatcher goes on until
\* recreate_dispatcher aborts it, so that this session of a previous connection is
\* accepted, against what handle_reconnect says of such sessions.
OldSessionRejected == \A s \in Sessions : Accepts(s) => since[s] = gen \/ TakenUpLate(s)

\* One thread holds the records and waits for the active id, another the other
\* way round: neither ever continues.
Inversion ==
    /\ lockT.mode = "write" /\ lockA.mode # "free" /\ lockT.by # lockA.by
    /\ pc[lockT.by] \in {"created_active", "destroyed_active", "reconnect_promote", "sync_active", "sync_promote"}
    /\ pc[lockA.by] \in {"switch_flags", "detached_promote", "detached_flag", "navigated_url"}

\* Threads that are inside the manager never all wait for one another, unless
\* the inverted order of its two locks (switch_target, on_detached and
\* on_frame_navigated against all others) has stopped them: nothing else does.
OnlyInversionBlocks ==
    (~Quiet /\ ~Inversion) => ENABLED (Dispatch \/ \E c \in Calls : CallStep(c))
=============================================================================
