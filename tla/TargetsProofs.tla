--------------------------- MODULE TargetsProofs ---------------------------
(***************************************************************************)
(* Proofs about Targets for any targets, sessions and number of requests,  *)
(* any capacity of the broadcast channel and any number of events and      *)
(* reconnects: type correctness, and what the manager promises of its      *)
(* sessions and of the active target though no lock is held throughout an  *)
(* operation; and that its two locks stop everybody only by an inversion.  *)
(***************************************************************************)
EXTENDS Targets, SequenceTheorems, TLAPS

-----------------------------------------------------------------------------
(* The inductive invariant *)

\* What the dispatcher knows of the event it is handling: a destroyed target is
\* gone for good, and a record it has just seen or made is only removed by itself.
Handling ==
    /\ pc[Disp] \notin {"idle", "navigated", "navigated_url"} => tid \in Ids
    /\ pc[Disp] \in {"attached", "attached_map", "detached", "detached_map"} => sid \in Sessions
    /\ pc[Disp] \in {"destroyed", "destroyed_active"} => tab[tid] = "gone"
    /\ pc[Disp] \in {"created_active", "attached_map", "attached_active"} => tid \in DOMAIN targets

\* The same of the events it has not received yet.
EventOK(ev) ==
    /\ ev.kind \in {"created", "destroyed", "crashed", "attached"} => ev.id \in Ids
    /\ ev.kind \in {"attached", "detached"} => ev.session \in Sessions
    /\ ev.kind = "destroyed" => tab[ev.id] = "gone"

Streaming ==
    /\ \A i \in 1..Len(stream) : EventOK(stream[i])
    /\ ~subscribed => stream = <<>> /\ DOMAIN s2t = {} /\ pc[Disp] = "idle"

\* A generation that was read to be stored is a real one.
GenerationsRead ==
    /\ pc[Disp] \in {"created", "attached"} => loc[Disp].gen >= 1
    /\ \A c \in Calls : pc[c] \in {"reconnect", "sync_records"} => loc[c].gen >= 1

\* A session is in a record with the generation of its attach, or an older one.
SessionsDated ==
    /\ \A s \in Sessions : since[s] <= gen /\ taken[s] <= gen
    /\ \A t \in DOMAIN targets :
          targets[t].session # None => targets[t].cgen <= taken[targets[t].session]
    /\ pc[Disp] = "attached" => loc[Disp].gen <= taken[sid]

\* Only a target that is gone loses its record.
KnownIds ==
    /\ active # None => active \in DOMAIN targets \/ tab[active] = "gone"
    /\ \A c \in Calls : pc[c] = "switch" =>
          loc[c].id \in Ids /\ (loc[c].id \in DOMAIN targets \/ tab[loc[c].id] = "gone")

\* Who is between two uses of the active id keeps its lock.
ActiveLocked ==
    /\ \A c \in Calls : pc[c] = "switch_flags" => lockA = Held(c, "write") /\ active = loc[c].id
    /\ pc[Disp] = "detached_promote" => lockA = Held(Disp, "write") /\ active = None
    /\ pc[Disp] \in {"detached_flag", "navigated_url"} => lockA = Held(Disp, "read") /\ active # None

\* The active target has the flag, or somebody is about to set it or to make
\* another target active.
FlagComes ==
    (active \in DOMAIN targets /\ tab[active] # "gone" /\ ~targets[active].active) =>
        \/ \E c \in Calls : pc[c] = "switch_flags"
        \/ pc[Disp] \in {"detached_clear", "detached_read", "detached_flag"}
        \/ pc[Disp] \in {"crashed_active", "attached_flag", "detached_map"} /\ tid = active

\* An active id without a record is about to be replaced or reported.
ReportComes ==
    (active # None /\ active \notin DOMAIN targets) =>
        \/ vanished
        \/ pc[Disp] = "destroyed_active" /\ tid = active
        \/ \E c \in Calls : pc[c] \in {"switch_flags", "switch_get"} /\ loc[c].id = active

\* An event after the i-th of q ends the session s of target t.
EndsAfter(q, s, t, i) == \E j \in i + 1..Len(q) : Ends(q[j], s, t)

Ending(s, t) ==
    \/ EndsAfter(stream, s, t, 0)
    \/ pc[Disp] \in {"detached", "detached_map"} /\ sid = s
    \/ pc[Disp] \in {"destroyed", "destroyed_active"} /\ tid = t

\* Unless an event was dropped, a session the manager knows of, or is about to
\* learn of, is attached or its end will follow.
EndsFollow == ~lagged =>
    /\ \A s \in DOMAIN s2t : live[s] = s2t[s] \/ Ending(s, s2t[s])
    /\ \A i \in 1..Len(stream) : stream[i].kind = "attached" =>
          \/ live[stream[i].session] = stream[i].id
          \/ EndsAfter(stream, stream[i].session, stream[i].id, i)
    /\ pc[Disp] \in {"attached", "attached_map"} => live[sid] = tid \/ EndsAfter(stream, sid, tid, 0)

IInv ==
    /\ TypeOK /\ Handling /\ Streaming /\ GenerationsRead /\ SessionsDated /\ KnownIds /\ ActiveLocked
    /\ FlagComes /\ ReportComes /\ EndsFollow

-----------------------------------------------------------------------------
(* Records and actors *)

\* A flag changes nothing else of the records.
LEMMA FlagFacts ==
  ASSUME NEW recs, recs \in [DOMAIN recs -> Records], NEW id, NEW b \in BOOLEAN
  PROVE  /\ Flag(recs, id, b) \in [DOMAIN recs -> Records] /\ DOMAIN Flag(recs, id, b) = DOMAIN recs
         /\ \A t \in DOMAIN recs :
               /\ Flag(recs, id, b)[t].session = recs[t].session
               /\ Flag(recs, id, b)[t].cgen = recs[t].cgen
               /\ Flag(recs, id, b)[t].active = IF t = id THEN b ELSE recs[t].active
<1>1. CASE id \in DOMAIN recs
  <2>1. Flag(recs, id, b) = [recs EXCEPT ![id] = [recs[id] EXCEPT !.active = b]]
    BY <1>1 DEF Flag
  <2>2. recs[id] \in Records
    BY <1>1
  <2> DEFINE r == [recs[id] EXCEPT !.active = b]
  <2>3. r \in Records /\ r.session = recs[id].session /\ r.cgen = recs[id].cgen /\ r.active = b
    BY <2>2 DEF Records
  <2> HIDE DEF r
  <2>4. \A t \in DOMAIN recs : Flag(recs, id, b)[t] = IF t = id THEN r ELSE recs[t]
    BY <2>1 DEF r
  <2>5. Flag(recs, id, b) \in [DOMAIN recs -> Records] /\ DOMAIN Flag(recs, id, b) = DOMAIN recs
    BY <2>1, <2>3 DEF r
  <2> QED  BY <2>3, <2>4, <2>5
<1>2. CASE id \notin DOMAIN recs
  BY <1>2 DEF Flag
<1> QED  BY <1>1, <1>2

\* The flag moves from one record to another.
LEMMA FlagsMove ==
  ASSUME NEW recs, recs \in [DOMAIN recs -> Records], NEW old, NEW id, NEW off \in BOOLEAN, NEW on \in BOOLEAN
  PROVE  LET new == Flag(Flag(recs, old, off), id, on)
         IN /\ new \in [DOMAIN recs -> Records] /\ DOMAIN new = DOMAIN recs
            /\ \A t \in DOMAIN recs :
                  /\ new[t].session = recs[t].session /\ new[t].cgen = recs[t].cgen
                  /\ t = id => new[t].active = on
<1> DEFINE one == Flag(recs, old, off)
<1>1. /\ one \in [DOMAIN recs -> Records] /\ DOMAIN one = DOMAIN recs
      /\ \A t \in DOMAIN recs : one[t].session = recs[t].session /\ one[t].cgen = recs[t].cgen
  BY FlagFacts
<1> HIDE DEF one
<1>2. one \in [DOMAIN one -> Records]
  BY <1>1
<1>3. /\ Flag(one, id, on) \in [DOMAIN one -> Records] /\ DOMAIN Flag(one, id, on) = DOMAIN one
      /\ \A t \in DOMAIN one :
            /\ Flag(one, id, on)[t].session = one[t].session
            /\ Flag(one, id, on)[t].cgen = one[t].cgen
            /\ Flag(one, id, on)[t].active = IF t = id THEN on ELSE one[t].active
  BY <1>2, FlagFacts
<1>4. /\ Flag(one, id, on) \in [DOMAIN recs -> Records] /\ DOMAIN Flag(one, id, on) = DOMAIN recs
      /\ \A t \in DOMAIN recs :
            /\ Flag(one, id, on)[t].session = recs[t].session
            /\ Flag(one, id, on)[t].cgen = recs[t].cgen
            /\ t = id => Flag(one, id, on)[t].active = on
  BY <1>1, <1>3
<1> QED  BY <1>4 DEF one

\* Entries are dropped.
LEMMA RestrictFacts ==
  ASSUME NEW S, NEW f, f \in [DOMAIN f -> S], NEW D, D \subseteq DOMAIN f
  PROVE  /\ DOMAIN Restrict(f, D) = D /\ Restrict(f, D) \in [D -> S]
         /\ \A x \in D : Restrict(f, D)[x] = f[x]
BY DEF Restrict

\* The records the manager makes.
LEMMA NewRecords ==
  ASSUME NEW g \in 1 .. MaxGen
  PROVE  /\ NewRecord(g) \in Records /\ NewRecord(g).session = None /\ NewRecord(g).active = FALSE
BY DEF NewRecord, Records

\* One actor moves and the others stay.
LEMMA Moved ==
  ASSUME ActorsOK, NEW a \in Actors, NEW l, Goto(a, l) \/ Return(a, l)
  PROVE  /\ pc'[a] = l /\ (loc'[a] = loc[a] \/ loc'[a] = NoLocals)
         /\ loc' \in [Actors -> Locals] /\ DOMAIN pc' = Actors /\ pc' = [pc EXCEPT ![a] = l]
         /\ \A b \in Actors : b # a => pc'[b] = pc[b] /\ loc'[b] = loc[b]
         /\ Goto(a, l) => loc' = loc
<1>1. NoLocals \in Locals
  <2>1. 0 \in 0 .. MaxGen
    BY BoundsAssumption
  <2> QED  BY <2>1 DEF NoLocals, Locals, None
<1> QED  BY <1>1 DEF Goto, Return, ActorsOK

\* A request that is at one of its places leaves the actors well placed.
LEMMA CallPlaced ==
  ASSUME ActorsOK, NEW c \in Calls, NEW l \in CallPlaces, pc' = [pc EXCEPT ![c] = l],
         loc' \in [Actors -> Locals]
  PROVE  /\ ActorsOK' /\ pc'[c] = l
         /\ pc'[Disp] = pc[Disp] /\ \A b \in Calls : b # c => pc'[b] = pc[b]
<1>1. c # Disp /\ c \in Actors /\ Disp \in Actors /\ Calls \subseteq Actors
  BY NamesAssumption DEF Disp, Actors
<1> QED  BY <1>1 DEF ActorsOK

\* So does the dispatcher.
LEMMA DispPlaced ==
  ASSUME ActorsOK, NEW l \in DispPlaces, pc' = [pc EXCEPT ![Disp] = l],
         loc' \in [Actors -> Locals]
  PROVE  /\ ActorsOK' /\ pc'[Disp] = l
         /\ \A b \in Calls : pc'[b] = pc[b]
<1>1. Disp \in Actors /\ Calls \subseteq Actors /\ Disp \notin Calls
  BY NamesAssumption DEF Disp, Actors
<1> QED  BY <1>1 DEF ActorsOK

\* What an actor's step makes of the actors.
LEMMA CallMoves ==
  ASSUME ActorsOK, NEW c \in Calls, NEW l \in CallPlaces, NEW r \in Locals,
         pc' = [pc EXCEPT ![c] = l], loc' = [loc EXCEPT ![c] = r]
  PROVE  /\ ActorsOK' /\ pc'[c] = l /\ loc'[c] = r
         /\ \A b \in Actors : b # c => pc'[b] = pc[b] /\ loc'[b] = loc[b]
<1>1. c # Disp /\ c \in Actors /\ Disp \in Actors /\ Calls \subseteq Actors
  BY NamesAssumption DEF Disp, Actors
<1> QED  BY <1>1 DEF ActorsOK

-----------------------------------------------------------------------------
(* What a request does to the rest *)

CallMoved(c) ==
    /\ ActorsOK' /\ \A b \in Actors : b # c => pc'[b] = pc[b] /\ loc'[b] = loc[b]
    /\ pc'[c] \in {"reconnect", "sync_records"} => loc'[c].gen >= 1

\* No record or session appears but by an event: records may be added or lose
\* their session, and the map may be cleared.
SessionsKept ==
    /\ DOMAIN targets \subseteq DOMAIN targets'
    /\ \A t \in DOMAIN targets' :
          \/ targets'[t].session = None
          \/ t \in DOMAIN targets /\ targets'[t].session = targets[t].session /\ targets'[t].cgen = targets[t].cgen
    /\ s2t' = s2t \/ DOMAIN s2t' = {}

\* A request is always at one of its places.
LEMMA CallsMove ==
  ASSUME IInv, NEW c \in Calls, Request(c) \/ CallStep(c)
  PROVE  CallMoved(c)
<1>1. ActorsOK /\ c \in Actors /\ gen \in 1 .. MaxGen /\ MaxGen \in Nat /\ active \in Ids \cup {None}
  BY BoundsAssumption DEF IInv, TypeOK, ManagerOK, Actors
<1>2. loc[c] \in Locals /\ NoLocals \in Locals /\ loc[c].gen \in 0 .. MaxGen
  <2>1. 0 \in 0 .. MaxGen
    BY BoundsAssumption
  <2> QED  BY <1>1, <2>1 DEF ActorsOK, NoLocals, Locals
<1>3. ASSUME NEW l \in CallPlaces \ {"reconnect", "sync_records"}, Goto(c, l) \/ Return(c, l)
      PROVE  CallMoved(c)
  <2>1. pc' = [pc EXCEPT ![c] = l]
    BY <1>3 DEF Goto, Return
  <2>2. loc' = [loc EXCEPT ![c] = loc[c]] \/ loc' = [loc EXCEPT ![c] = NoLocals]
    BY <1>1, <1>3 DEF Goto, Return, ActorsOK
  <2>3. PICK r \in Locals : loc' = [loc EXCEPT ![c] = r]
    BY <1>2, <2>2
  <2>4. /\ ActorsOK' /\ pc'[c] = l /\ \A b \in Actors : b # c => pc'[b] = pc[b] /\ loc'[b] = loc[b]
    BY <1>1, <2>1, <2>3, CallMoves
  <2>5. pc'[c] \notin {"reconnect", "sync_records"}
    BY <2>4
  <2> QED  BY <2>4, <2>5, Zenon DEF CallMoved
<1>4. ASSUME NEW l \in CallPlaces, NEW r \in Locals, r.gen >= 1 \/ l \notin {"reconnect", "sync_records"},
             pc' = [pc EXCEPT ![c] = l], loc' = [loc EXCEPT ![c] = r]
      PROVE  CallMoved(c)
  <2>1. /\ ActorsOK' /\ pc'[c] = l /\ loc'[c] = r
        /\ \A b \in Actors : b # c => pc'[b] = pc[b] /\ loc'[b] = loc[b]
    BY <1>1, <1>4, CallMoves
  <2>2. pc'[c] \in {"reconnect", "sync_records"} => loc'[c].gen >= 1
    BY <1>4, <2>1
  <2> QED  BY <2>1, <2>2, Zenon DEF CallMoved
<1>5. CASE SwitchTarget(c)
  <2>1. \/ \E t \in Ids : loc' = [loc EXCEPT ![c].id = t] /\ pc' = [pc EXCEPT ![c] = "switch"]
        \/ Return(c, "done")
    BY <1>5 DEF SwitchTarget
  <2>2. ASSUME NEW t \in Ids, loc' = [loc EXCEPT ![c].id = t], pc' = [pc EXCEPT ![c] = "switch"]
        PROVE  CallMoved(c)
    <3>1. [loc[c] EXCEPT !.id = t] \in Locals /\ "switch" \in CallPlaces
      BY <1>2 DEF Locals, CallPlaces
    <3> QED  BY <1>4, <2>2, <3>1
  <2> QED  BY <1>3, <2>1, <2>2 DEF CallPlaces
<1>6. CASE SwitchActive(c)
  <2>1. [loc[c] EXCEPT !.old = active] \in Locals /\ "switch_flags" \in CallPlaces
    BY <1>1, <1>2 DEF Locals, CallPlaces
  <2> QED  BY <1>4, <1>6, <2>1 DEF SwitchActive
<1>7. CASE Reconnect(c)
  <2>1. gen + 1 \in 0 .. MaxGen /\ gen + 1 >= 1
    BY <1>1, <1>7 DEF Reconnect
  <2>2. [loc[c] EXCEPT !.gen = gen + 1] \in Locals /\ [loc[c] EXCEPT !.gen = gen + 1].gen >= 1
        /\ "reconnect" \in CallPlaces
    BY <1>2, <2>1 DEF Locals, CallPlaces
  <2> QED  BY <1>4, <1>7, <2>2 DEF Reconnect
<1>8. CASE Tabs(c)
  <2>1. \/ loc' = [loc EXCEPT ![c].infos = open] /\ pc' = [pc EXCEPT ![c] = "sync"]
        \/ Return(c, "done")
    BY <1>8 DEF Tabs
  <2>2. ASSUME loc' = [loc EXCEPT ![c].infos = open], pc' = [pc EXCEPT ![c] = "sync"]
        PROVE  CallMoved(c)
    <3>1. open \in SUBSET Ids
      BY DEF open
    <3>2. [loc[c] EXCEPT !.infos = open] \in Locals /\ "sync" \in CallPlaces
      BY <1>2, <3>1 DEF Locals, CallPlaces
    <3> QED  BY <1>4, <2>2, <3>2
  <2> QED  BY <1>3, <2>1, <2>2 DEF CallPlaces
<1>9. CASE Sync(c)
  <2>1. [loc[c] EXCEPT !.gen = gen] \in Locals /\ [loc[c] EXCEPT !.gen = gen].gen >= 1
        /\ "sync_records" \in CallPlaces
    BY <1>1, <1>2 DEF Locals, CallPlaces
  <2> QED  BY <1>4, <1>9, <2>1 DEF Sync
<1>10. CASE SwitchFlags(c) \/ SwitchAnswer(c)
  BY <1>3, <1>10 DEF SwitchFlags, SwitchAnswer, CallPlaces
<1>11. CASE ReconnectRecords(c) \/ ReconnectMap(c) \/ ReconnectClear(c) \/ ReconnectFirst(c) \/ ReconnectPromote(c)
  BY <1>3, <1>11 DEF ReconnectRecords, ReconnectMap, ReconnectClear, ReconnectFirst, ReconnectPromote, CallPlaces
<1>12. CASE SyncRecords(c) \/ SyncActive(c) \/ SyncPromote(c)
  BY <1>3, <1>12 DEF SyncRecords, SyncActive, SyncPromote, CallPlaces
<1> QED  BY <1>5, <1>6, <1>7, <1>8, <1>9, <1>10, <1>11, <1>12 DEF Request, CallStep

\* A request changes nothing of the browser's and the dispatcher's.
LEMMA CallsAlone ==
  ASSUME NEW c \in Calls, Request(c) \/ CallStep(c)
  PROVE  UNCHANGED <<tab, live, emitted, since, taken, stream, subscribed, lagged>>
BY DEF Request, SwitchTarget, Reconnect, Tabs, CallStep, SwitchActive, SwitchFlags, SwitchAnswer,
       ReconnectRecords, ReconnectMap, ReconnectClear, ReconnectFirst, ReconnectPromote,
       Sync, SyncRecords, SyncActive, SyncPromote, Handled, browser, history

FlagsKept == \A t \in DOMAIN targets : targets'[t].active = targets[t].active

\* A promotion keeps the sessions.
LEMMA FlagKeepsSessions ==
  ASSUME ManagerOK, NEW id, NEW b \in BOOLEAN, targets' = Flag(targets, id, b), s2t' = s2t
  PROVE  /\ SessionsKept /\ DOMAIN targets' = DOMAIN targets /\ targets' \in [DOMAIN targets' -> Records]
         /\ \A t \in DOMAIN targets : targets'[t].active = IF t = id THEN b ELSE targets[t].active
<1>1. targets \in [DOMAIN targets -> Records]
  BY DEF ManagerOK
<1>2. /\ Flag(targets, id, b) \in [DOMAIN targets -> Records] /\ DOMAIN Flag(targets, id, b) = DOMAIN targets
      /\ \A t \in DOMAIN targets :
            /\ Flag(targets, id, b)[t].session = targets[t].session
            /\ Flag(targets, id, b)[t].cgen = targets[t].cgen
            /\ Flag(targets, id, b)[t].active = IF t = id THEN b ELSE targets[t].active
  BY <1>1, FlagFacts
<1> QED  BY <1>2 DEF SessionsKept

\* A reconnect takes the sessions of all records, a late answer to getTargets
\* adds records without one.
LEMMA RecordsRenewed ==
  ASSUME IInv, NEW c \in Calls, ReconnectRecords(c) \/ SyncRecords(c)
  PROVE  /\ targets' \in [DOMAIN targets' -> Records] /\ DOMAIN targets' \subseteq Ids
         /\ SessionsKept /\ FlagsKept
<1>1. /\ targets \in [DOMAIN targets -> Records] /\ DOMAIN targets \subseteq Ids /\ s2t' = s2t
  BY DEF IInv, TypeOK, ManagerOK, ReconnectRecords, SyncRecords
<1>2. loc[c] \in Locals /\ MaxGen \in Nat
  BY BoundsAssumption DEF IInv, TypeOK, ActorsOK, Actors
<1>3. loc[c].gen \in 1 .. MaxGen
  <2>1. loc[c].gen >= 1
    BY DEF IInv, GenerationsRead, ReconnectRecords, SyncRecords
  <2> QED  BY <1>2, <2>1 DEF Locals
<1>4. CASE ReconnectRecords(c)
  <2> DEFINE r(t) == [targets[t] EXCEPT !.gen = loc[c].gen, !.cgen = loc[c].gen, !.session = None]
  <2>1. targets' = [t \in DOMAIN targets |-> r(t)]
    BY <1>4 DEF ReconnectRecords
  <2>2. \A t \in DOMAIN targets : r(t) \in Records /\ r(t).session = None /\ r(t).active = targets[t].active
    BY <1>1, <1>3 DEF Records
  <2> HIDE DEF r
  <2> QED  BY <1>1, <2>1, <2>2 DEF SessionsKept, FlagsKept
<1>5. CASE SyncRecords(c)
  <2> DEFINE r(t) == IF t \in DOMAIN targets THEN targets[t] ELSE NewRecord(loc[c].gen)
             D == DOMAIN targets \cup loc[c].infos
  <2>1. targets' = [t \in D |-> r(t)]
    BY <1>5 DEF SyncRecords
  <2>2. D \subseteq Ids
    BY <1>1, <1>2 DEF Locals
  <2>3. \A t \in D : r(t) \in Records
    BY <1>1, <1>3, NewRecords
  <2>4. /\ \A t \in DOMAIN targets : r(t) = targets[t]
        /\ \A t \in D : t \notin DOMAIN targets => r(t).session = None
    BY <1>3, NewRecords
  <2> HIDE DEF r
  <2> QED  BY <1>1, <2>1, <2>2, <2>3, <2>4 DEF SessionsKept, FlagsKept
<1> QED  BY <1>4, <1>5

\* What a request leaves of the manager's state.
LEMMA CallsManage ==
  ASSUME IInv, NEW c \in Calls, Request(c) \/ CallStep(c)
  PROVE  ManagerOK' /\ SessionsKept /\ gen <= gen'
<1>1. ManagerOK /\ gen \in 1 .. MaxGen /\ MaxGen \in Nat /\ gen <= gen
  BY BoundsAssumption DEF IInv, TypeOK, ManagerOK
<1>2. loc[c] \in Locals /\ Free \in [by: Actors \cup {None}, mode: {"free", "write"}]
      /\ Free \in [by: Actors \cup {None}, mode: {"free", "read", "write"}]
      /\ Held(c, "write") \in [by: Actors \cup {None}, mode: {"free", "write"}]
      /\ Held(c, "write") \in [by: Actors \cup {None}, mode: {"free", "read", "write"}]
  BY DEF IInv, TypeOK, ActorsOK, Actors, Free, Held
<1>3. CASE SwitchTarget(c) \/ Tabs(c) \/ SwitchAnswer(c) \/ Sync(c)
  <2>1. UNCHANGED <<targets, s2t, active, gen, lockT, lockA>>
    BY <1>3 DEF SwitchTarget, Tabs, SwitchAnswer, Sync, manager, locks, Handled
  <2> QED  BY <1>1, <2>1 DEF ManagerOK, SessionsKept
<1>4. CASE SwitchActive(c)
  <2>1. /\ UNCHANGED <<targets, s2t, gen, lockT>> /\ active' = loc[c].id /\ lockA' = Held(c, "write")
    BY <1>4 DEF SwitchActive, Handled
  <2>2. active' \in Ids \cup {None}
    BY <1>2, <2>1 DEF Locals
  <2> QED  BY <1>1, <1>2, <2>1, <2>2 DEF ManagerOK, SessionsKept
<1>5. CASE SwitchFlags(c)
  <2>1. /\ UNCHANGED <<s2t, gen, lockT, active>> /\ lockA' = Free
        /\ targets' = Flag(Flag(targets, loc[c].old, FALSE), loc[c].id, TRUE)
    BY <1>5 DEF SwitchFlags, Handled
  <2>2. /\ targets' \in [DOMAIN targets -> Records] /\ DOMAIN targets' = DOMAIN targets
        /\ \A t \in DOMAIN targets :
              targets'[t].session = targets[t].session /\ targets'[t].cgen = targets[t].cgen
    <3>1. targets \in [DOMAIN targets -> Records]
      BY <1>1 DEF ManagerOK
    <3>2. PICK off \in BOOLEAN, on \in BOOLEAN : off = FALSE /\ on = TRUE
      OBVIOUS
    <3>3. targets' = Flag(Flag(targets, loc[c].old, off), loc[c].id, on)
      BY <2>1, <3>2
    <3> QED  BY <3>1, <3>3, FlagsMove
  <2> QED  BY <1>1, <1>2, <2>1, <2>2 DEF ManagerOK, SessionsKept
<1>6. CASE Reconnect(c)
  <2>1. UNCHANGED <<targets, s2t, active, lockT, lockA>> /\ gen' = gen + 1 /\ gen < MaxGen
    BY <1>6 DEF Reconnect, locks
  <2>2. gen' \in 1 .. MaxGen /\ gen <= gen'
    BY <1>1, <2>1
  <2> QED  BY <1>1, <2>1, <2>2 DEF ManagerOK, SessionsKept
<1>7. CASE ReconnectRecords(c) \/ SyncRecords(c)
  <2>1. UNCHANGED <<s2t, active, gen, lockA>> /\ lockT' \in {lockT, Held(c, "write")}
    BY <1>7 DEF ReconnectRecords, SyncRecords, locks, Handled
  <2>2. lockT' \in [by: Actors \cup {None}, mode: {"free", "write"}]
    BY <1>1, <1>2, <2>1 DEF ManagerOK
  <2> QED  BY <1>1, <1>7, <2>1, <2>2, RecordsRenewed DEF ManagerOK
<1>8. CASE ReconnectMap(c)
  <2>1. UNCHANGED <<targets, active, gen, lockA, lockT>> /\ s2t' = [s \in {} |-> None]
    BY <1>8 DEF ReconnectMap, locks, Handled
  <2>2. DOMAIN s2t' = {} /\ s2t' \in [{} -> Ids]
    BY <2>1
  <2> QED  BY <1>1, <2>1, <2>2 DEF ManagerOK, SessionsKept
<1>9. CASE ReconnectClear(c) \/ ReconnectFirst(c) \/ SyncActive(c)
  <2>1. /\ UNCHANGED <<targets, s2t, gen, lockA>> /\ active' \in {active, None}
        /\ lockT' \in {lockT, Held(c, "write"), Free}
    BY <1>9 DEF ReconnectClear, ReconnectFirst, SyncActive, locks, Handled
  <2>2. lockT' \in [by: Actors \cup {None}, mode: {"free", "write"}] /\ active' \in Ids \cup {None}
    BY <1>1, <1>2, <2>1 DEF ManagerOK
  <2> QED  BY <1>1, <2>1, <2>2 DEF ManagerOK, SessionsKept
<1>10. CASE ReconnectPromote(c) \/ SyncPromote(c)
  <2>1. PICK t \in DOMAIN targets : active' = t /\ targets' = Flag(targets, t, TRUE)
    BY <1>10 DEF ReconnectPromote, SyncPromote
  <2>2. UNCHANGED <<s2t, gen, lockA>> /\ lockT' = Free
    BY <1>10 DEF ReconnectPromote, SyncPromote, Handled
  <2>3. /\ SessionsKept /\ DOMAIN targets' = DOMAIN targets /\ targets' \in [DOMAIN targets' -> Records]
    BY <1>1, <2>1, <2>2, FlagKeepsSessions
  <2>4. active' \in Ids \cup {None}
    BY <1>1, <2>1 DEF ManagerOK
  <2> QED  BY <1>1, <1>2, <2>2, <2>3, <2>4 DEF ManagerOK
<1> QED  BY <1>3, <1>4, <1>5, <1>6, <1>7, <1>8, <1>9, <1>10 DEF Request, CallStep

-----------------------------------------------------------------------------
(* What a handler of the dispatcher does *)

Handler ==
    \/ OnTargetCreated \/ OnTargetCreatedActive
    \/ OnTargetDestroyed \/ OnTargetDestroyedActive
    \/ OnTargetCrashed \/ OnTargetCrashedActive
    \/ OnAttached \/ OnAttachedMap \/ OnAttachedActive \/ OnAttachedFlag
    \/ OnDetached \/ OnDetachedMap \/ OnDetachedClear \/ OnDetachedPromote
    \/ OnDetachedRead \/ OnDetachedFlag
    \/ OnFrameNavigated \/ OnFrameNavigatedUrl

Transitions ==
    {<<"created", "created_active">>, <<"created_active", "idle">>,
     <<"destroyed", "destroyed_active">>, <<"destroyed_active", "idle">>,
     <<"crashed", "crashed_active">>, <<"crashed_active", "idle">>,
     <<"attached", "attached_map">>, <<"attached_map", "attached_active">>, <<"attached_map", "idle">>,
     <<"attached_active", "attached_flag">>, <<"attached_flag", "idle">>,
     <<"detached", "detached_map">>, <<"detached_map", "detached_clear">>, <<"detached_map", "idle">>,
     <<"detached_clear", "detached_promote">>, <<"detached_promote", "detached_read">>,
     <<"detached_read", "detached_flag">>, <<"detached_read", "idle">>, <<"detached_flag", "idle">>,
     <<"navigated", "navigated_url">>, <<"navigated", "idle">>, <<"navigated_url", "idle">>}

\* The dispatcher goes from step to step of a handler and keeps what it knows to
\* the end of it.
LEMMA HandlersMove ==
  ASSUME IInv, Handler
  PROVE  /\ ActorsOK' /\ <<pc[Disp], pc'[Disp]>> \in Transitions
         /\ \A c \in Calls : pc'[c] = pc[c] /\ loc'[c] = loc[c]
         /\ pc'[Disp] # "idle" => loc'[Disp] = loc[Disp]
         /\ UNCHANGED <<gen, tab, live, emitted, vanished, since, taken, stream, subscribed, lagged>>
<1>1. ActorsOK /\ Disp \in Actors /\ Calls \subseteq Actors /\ Disp \notin Calls
  BY NamesAssumption DEF IInv, TypeOK, Disp, Actors
<1>2. \E l \in DispPlaces : (Goto(Disp, l) \/ (l = "idle" /\ Return(Disp, l))) /\ <<pc[Disp], l>> \in Transitions
  <2>1. CASE OnTargetCreated \/ OnTargetCreatedActive \/ OnTargetDestroyed \/ OnTargetDestroyedActive
    BY <2>1 DEF OnTargetCreated, OnTargetCreatedActive, OnTargetDestroyed, OnTargetDestroyedActive,
                Transitions, DispPlaces
  <2>2. CASE OnTargetCrashed \/ OnTargetCrashedActive \/ OnFrameNavigated \/ OnFrameNavigatedUrl
    BY <2>2 DEF OnTargetCrashed, OnTargetCrashedActive, OnFrameNavigated, OnFrameNavigatedUrl,
                Transitions, DispPlaces
  <2>3. CASE OnAttached \/ OnAttachedMap \/ OnAttachedActive \/ OnAttachedFlag
    BY <2>3 DEF OnAttached, OnAttachedMap, OnAttachedActive, OnAttachedFlag, Transitions, DispPlaces
  <2>4. CASE OnDetached \/ OnDetachedMap \/ OnDetachedClear
    BY <2>4 DEF OnDetached, OnDetachedMap, OnDetachedClear, Transitions, DispPlaces
  <2>5. CASE OnDetachedPromote \/ OnDetachedRead \/ OnDetachedFlag
    BY <2>5 DEF OnDetachedPromote, OnDetachedRead, OnDetachedFlag, Transitions, DispPlaces
  <2> QED  BY <2>1, <2>2, <2>3, <2>4, <2>5 DEF Handler
<1>3. PICK l \in DispPlaces : (Goto(Disp, l) \/ (l = "idle" /\ Return(Disp, l))) /\ <<pc[Disp], l>> \in Transitions
  BY <1>2
<1>4. /\ pc'[Disp] = l /\ loc' \in [Actors -> Locals] /\ pc' = [pc EXCEPT ![Disp] = l]
      /\ \A b \in Actors : b # Disp => pc'[b] = pc[b] /\ loc'[b] = loc[b]
      /\ Goto(Disp, l) => loc' = loc
  BY <1>1, <1>3, Moved
<1>5. ActorsOK'
  BY <1>1, <1>3, <1>4, DispPlaced
<1>6. UNCHANGED <<gen, tab, live, emitted, vanished, since, taken, stream, subscribed, lagged>>
  BY DEF Handler, OnTargetCreated, OnTargetCreatedActive, OnTargetDestroyed, OnTargetDestroyedActive,
         OnTargetCrashed, OnTargetCrashedActive, OnAttached, OnAttachedMap, OnAttachedActive,
         OnAttachedFlag, OnDetached, OnDetachedMap, OnDetachedClear, OnDetachedPromote,
         OnDetachedRead, OnDetachedFlag, OnFrameNavigated, OnFrameNavigatedUrl,
         Handled, browser, history
<1> QED  BY <1>1, <1>3, <1>4, <1>5, <1>6

\* The records after a handler's step.
HandlerRecords ==
    /\ targets' \in [DOMAIN targets' -> Records] /\ DOMAIN targets' \subseteq Ids
    /\ \A t \in DOMAIN targets : t \in DOMAIN targets' \/ (pc[Disp] = "destroyed" /\ t = tid)
    /\ \A t \in DOMAIN targets' :
          \/ targets'[t].session = None
          \/ t \in DOMAIN targets /\ targets'[t].session = targets[t].session /\ targets'[t].cgen = targets[t].cgen
          \/ pc[Disp] = "attached" /\ targets'[t].session = sid /\ targets'[t].cgen = loc[Disp].gen
    /\ pc[Disp] \in {"created", "attached"} => tid \in DOMAIN targets'

\* Every handler does that to the records.
LEMMA HandlersRecord ==
  ASSUME IInv, Handler
  PROVE  HandlerRecords
<1>1. /\ targets \in [DOMAIN targets -> Records] /\ DOMAIN targets \subseteq Ids /\ ManagerOK
      /\ gen \in 1 .. MaxGen /\ MaxGen \in Nat
  BY BoundsAssumption DEF IInv, TypeOK, ManagerOK
<1>2. loc[Disp] \in Locals /\ loc[Disp].gen \in 0 .. MaxGen /\ Handling /\ GenerationsRead
  <2>1. loc[Disp] \in Locals
    BY DEF IInv, TypeOK, ActorsOK, Actors
  <2> QED  BY <2>1 DEF IInv, Locals
<1>3. ASSUME targets' = targets, pc[Disp] \notin {"created", "attached"} PROVE HandlerRecords
  BY <1>1, <1>3 DEF HandlerRecords
<1>4. ASSUME NEW id, NEW b \in BOOLEAN, targets' = Flag(targets, id, b), pc[Disp] \notin {"created", "attached"}
      PROVE  HandlerRecords
  <2>1. /\ DOMAIN targets' = DOMAIN targets /\ targets' \in [DOMAIN targets -> Records]
        /\ \A t \in DOMAIN targets :
              targets'[t].session = targets[t].session /\ targets'[t].cgen = targets[t].cgen
    BY <1>1, <1>4, FlagFacts
  <2> QED  BY <1>1, <1>4, <2>1 DEF HandlerRecords
<1>5. ASSUME NEW r \in Records, targets' = Put(targets, tid, r), tid \in Ids,
             \/ r.session = None
             \/ tid \in DOMAIN targets /\ r.session = targets[tid].session /\ r.cgen = targets[tid].cgen
             \/ pc[Disp] = "attached" /\ r.session = sid /\ r.cgen = loc[Disp].gen
      PROVE  HandlerRecords
  <2>1. /\ DOMAIN targets' = DOMAIN targets \cup {tid} /\ targets' \in [DOMAIN targets' -> Records]
        /\ targets'[tid] = r /\ \A x \in DOMAIN targets : x # tid => targets'[x] = targets[x]
    <3>1. /\ DOMAIN Put(targets, tid, r) = DOMAIN targets \cup {tid}
          /\ Put(targets, tid, r) \in [DOMAIN targets \cup {tid} -> Records]
          /\ Put(targets, tid, r)[tid] = r
          /\ \A x \in DOMAIN targets : x # tid => Put(targets, tid, r)[x] = targets[x]
      BY <1>1 DEF Put
    <3> QED  BY <1>5, <3>1, Zenon
  <2> QED  BY <1>1, <1>5, <2>1 DEF HandlerRecords
<1>6. CASE OnTargetCreated
  <2>1. tid \in Ids /\ loc[Disp].gen \in 1 .. MaxGen /\ pc[Disp] = "created"
    BY <1>1, <1>2, <1>6 DEF OnTargetCreated, Handling, GenerationsRead
  <2>2. NewRecord(loc[Disp].gen) \in Records /\ NewRecord(loc[Disp].gen).session = None
    BY <2>1, NewRecords
  <2>3. targets' = Put(targets, tid, NewRecord(loc[Disp].gen)) \/ (targets' = targets /\ tid \in DOMAIN targets)
    BY <1>6 DEF OnTargetCreated
  <2>4. CASE targets' = targets /\ tid \in DOMAIN targets
    BY <1>1, <2>1, <2>4 DEF HandlerRecords
  <2> QED  BY <1>5, <2>1, <2>2, <2>3, <2>4
<1>7. CASE OnTargetDestroyed
  <2>1. pc[Disp] = "destroyed" /\ targets' = Restrict(targets, DOMAIN targets \ {tid})
    BY <1>7 DEF OnTargetDestroyed, Without
  <2>2. /\ DOMAIN targets' = DOMAIN targets \ {tid} /\ targets' \in [DOMAIN targets' -> Records]
        /\ \A x \in DOMAIN targets' : targets'[x] = targets[x]
    BY <1>1, <2>1, RestrictFacts
  <2> QED  BY <1>1, <2>1, <2>2 DEF HandlerRecords
<1>8. CASE OnTargetCrashed
  <2> DEFINE o == IF tid \in DOMAIN targets THEN targets[tid] ELSE NewRecord(gen)
             r == [o EXCEPT !.crashed = TRUE, !.active = FALSE]
  <2>1. tid \in Ids /\ targets' = Put(targets, tid, r)
    BY <1>2, <1>8 DEF OnTargetCrashed, Handling
  <2>2. o \in Records /\ (tid \notin DOMAIN targets => o.session = None)
        /\ (tid \in DOMAIN targets => o = targets[tid])
    BY <1>1, NewRecords
  <2> HIDE DEF o
  <2>3. r \in Records /\ r.session = o.session /\ r.cgen = o.cgen
    BY <2>2 DEF Records
  <2> HIDE DEF r
  <2> QED  BY <1>5, <2>1, <2>2, <2>3
<1>9. CASE OnAttached
  <2> DEFINE o == IF tid \in DOMAIN targets THEN targets[tid] ELSE NewRecord(gen)
             r == [o EXCEPT !.session = sid, !.cgen = loc[Disp].gen]
  <2>1. /\ tid \in Ids /\ sid \in Sessions /\ loc[Disp].gen \in 1 .. MaxGen /\ pc[Disp] = "attached"
        /\ targets' = Put(targets, tid, r)
    BY <1>1, <1>2, <1>9 DEF OnAttached, Handling, GenerationsRead
  <2>2. o \in Records
    BY <1>1, NewRecords
  <2> HIDE DEF o
  <2>3. r \in Records /\ r.session = sid /\ r.cgen = loc[Disp].gen
    BY <2>1, <2>2 DEF Records
  <2> HIDE DEF r
  <2> QED  BY <1>5, <2>1, <2>3
<1>10. CASE OnDetached
  <2>1. pc[Disp] = "detached"
    BY <1>10 DEF OnDetached
  <2>2. CASE tid \in DOMAIN targets /\ targets[tid].session = sid
    <3> DEFINE r == [targets[tid] EXCEPT !.session = None, !.active = FALSE]
    <3>1. targets' = [targets EXCEPT ![tid] = r]
      BY <1>10, <2>2 DEF OnDetached
    <3>2. targets[tid] \in Records
      BY <1>1, <2>2
    <3>3. r \in Records /\ r.session = None
      BY <3>2 DEF Records
    <3> HIDE DEF r
    <3>4. /\ DOMAIN targets' = DOMAIN targets /\ targets' \in [DOMAIN targets -> Records]
          /\ targets'[tid] = r /\ \A x \in DOMAIN targets : x # tid => targets'[x] = targets[x]
      BY <1>1, <2>2, <3>1, <3>3
    <3> QED  BY <1>1, <2>1, <3>3, <3>4 DEF HandlerRecords
  <2>3. CASE targets' = targets
    BY <1>3, <2>1, <2>3
  <2> QED  BY <1>10, <2>2, <2>3 DEF OnDetached
<1>11. CASE OnTargetCreatedActive \/ OnTargetDestroyedActive \/ OnAttachedFlag \/ OnDetachedFlag
  <2>1. pc[Disp] \notin {"created", "attached"}
    BY <1>11 DEF OnTargetCreatedActive, OnTargetDestroyedActive, OnAttachedFlag, OnDetachedFlag
  <2>2. targets' = targets \/ \E id : targets' = Flag(targets, id, TRUE)
    BY <1>11 DEF OnTargetCreatedActive, OnTargetDestroyedActive, OnAttachedFlag, OnDetachedFlag
  <2>3. ASSUME NEW id, targets' = Flag(targets, id, TRUE) PROVE HandlerRecords
    <3>1. PICK b \in BOOLEAN : b = TRUE
      OBVIOUS
    <3> QED  BY <1>4, <2>1, <2>3, <3>1
  <2> QED  BY <1>3, <2>1, <2>2, <2>3
<1>12. CASE \/ OnTargetCrashedActive \/ OnAttachedMap \/ OnAttachedActive \/ OnDetachedMap
            \/ OnDetachedClear \/ OnDetachedPromote \/ OnDetachedRead \/ OnFrameNavigated \/ OnFrameNavigatedUrl
  <2>1. targets' = targets /\ pc[Disp] \notin {"created", "attached"}
    BY <1>12 DEF OnTargetCrashedActive, OnAttachedMap, OnAttachedActive, OnDetachedMap,
                 OnDetachedClear, OnDetachedPromote, OnDetachedRead, OnFrameNavigated, OnFrameNavigatedUrl
  <2> QED  BY <1>3, <2>1
<1> QED  BY <1>6, <1>7, <1>8, <1>9, <1>10, <1>11, <1>12 DEF Handler

\* The session map after a handler's step: an attach adds an entry, a detach takes
\* one, and a destroyed target all its entries.
HandlerMap ==
    /\ s2t' \in [DOMAIN s2t' -> Ids] /\ DOMAIN s2t' \subseteq Sessions
    /\ \A s \in DOMAIN s2t' :
          \/ s \in DOMAIN s2t /\ s2t'[s] = s2t[s]
          \/ pc[Disp] = "attached_map" /\ s = sid /\ s2t'[s] = tid
    /\ pc[Disp] = "detached_map" => sid \notin DOMAIN s2t'
    /\ pc[Disp] = "destroyed_active" => \A s \in DOMAIN s2t' : s2t'[s] # tid

\* Every handler does that to the session map.
LEMMA HandlersMap ==
  ASSUME IInv, Handler
  PROVE  HandlerMap
<1>1. s2t \in [DOMAIN s2t -> Ids] /\ DOMAIN s2t \subseteq Sessions /\ Handling
  BY DEF IInv, TypeOK, ManagerOK
<1>2. ASSUME NEW D, D \subseteq DOMAIN s2t, s2t' = Restrict(s2t, D),
             pc[Disp] = "detached_map" => sid \notin D,
             pc[Disp] = "destroyed_active" => \A s \in D : s2t[s] # tid
      PROVE  HandlerMap
  <2>1. DOMAIN s2t' = D /\ s2t' \in [DOMAIN s2t' -> Ids] /\ \A s \in D : s2t'[s] = s2t[s]
    BY <1>1, <1>2, RestrictFacts
  <2> QED  BY <1>1, <1>2, <2>1 DEF HandlerMap
<1>3. CASE OnTargetDestroyed
  <2>1. pc[Disp] = "destroyed" /\ (s2t' = s2t \/ \E x : s2t' = Restrict(s2t, DOMAIN s2t \ {x}))
    BY <1>3 DEF OnTargetDestroyed, Without
  <2>2. CASE s2t' = s2t
    BY <1>1, <2>1, <2>2 DEF HandlerMap
  <2>3. ASSUME NEW x, s2t' = Restrict(s2t, DOMAIN s2t \ {x}) PROVE HandlerMap
    <3>1. DOMAIN s2t \ {x} \subseteq DOMAIN s2t
      OBVIOUS
    <3> QED  BY <1>2, <2>1, <2>3, <3>1
  <2> QED  BY <2>1, <2>2, <2>3
<1>4. CASE OnTargetDestroyedActive
  <2> DEFINE D == {s \in DOMAIN s2t : s2t[s] # tid}
  <2>1. pc[Disp] = "destroyed_active" /\ s2t' = Restrict(s2t, D)
    BY <1>4 DEF OnTargetDestroyedActive
  <2>2. D \subseteq DOMAIN s2t /\ \A s \in D : s2t[s] # tid
    OBVIOUS
  <2> HIDE DEF D
  <2> QED  BY <1>2, <2>1, <2>2
<1>5. CASE OnDetachedMap
  <2> DEFINE D == DOMAIN s2t \ {sid}
  <2>1. pc[Disp] = "detached_map" /\ s2t' = Restrict(s2t, D)
    BY <1>5 DEF OnDetachedMap, Without
  <2>2. D \subseteq DOMAIN s2t /\ sid \notin D
    OBVIOUS
  <2> HIDE DEF D
  <2> QED  BY <1>2, <2>1, <2>2
<1>6. CASE OnAttachedMap
  <2>1. pc[Disp] = "attached_map" /\ s2t' = Put(s2t, sid, tid) /\ tid \in Ids /\ sid \in Sessions
    BY <1>1, <1>6 DEF OnAttachedMap, Handling
  <2>2. /\ DOMAIN Put(s2t, sid, tid) = DOMAIN s2t \cup {sid}
        /\ Put(s2t, sid, tid) \in [DOMAIN s2t \cup {sid} -> Ids]
        /\ Put(s2t, sid, tid)[sid] = tid
        /\ \A x \in DOMAIN s2t : x # sid => Put(s2t, sid, tid)[x] = s2t[x]
    BY <1>1, <2>1 DEF Put
  <2> QED  BY <1>1, <2>1, <2>2 DEF HandlerMap
<1>7. CASE \/ OnTargetCreated \/ OnTargetCreatedActive \/ OnTargetCrashed \/ OnTargetCrashedActive
           \/ OnAttached \/ OnAttachedActive \/ OnAttachedFlag \/ OnDetached
           \/ OnDetachedClear \/ OnDetachedPromote \/ OnDetachedRead \/ OnDetachedFlag
           \/ OnFrameNavigated \/ OnFrameNavigatedUrl
  <2>1. s2t' = s2t /\ pc[Disp] \notin {"detached_map", "destroyed_active"}
    BY <1>7 DEF OnTargetCreated, OnTargetCreatedActive, OnTargetCrashed, OnTargetCrashedActive,
                OnAttached, OnAttachedActive, OnAttachedFlag, OnDetached, OnDetachedClear,
                OnDetachedPromote, OnDetachedRead, OnDetachedFlag, OnFrameNavigated, OnFrameNavigatedUrl
  <2> QED  BY <1>1, <2>1 DEF HandlerMap
<1> QED  BY <1>3, <1>4, <1>5, <1>6, <1>7 DEF Handler

\* The locks and the active id keep their types.
LEMMA HandlersManage ==
  ASSUME IInv, Handler
  PROVE  ManagerOK'
<1>1. /\ targets' \in [DOMAIN targets' -> Records] /\ DOMAIN targets' \subseteq Ids
      /\ s2t' \in [DOMAIN s2t' -> Ids] /\ DOMAIN s2t' \subseteq Sessions
  BY HandlersRecord, HandlersMap DEF HandlerRecords, HandlerMap
<1>2. ManagerOK /\ gen' = gen
  BY HandlersMove DEF IInv, TypeOK
<1>3. Free \in [by: Actors \cup {None}, mode: {"free", "write"}]
      /\ Free \in [by: Actors \cup {None}, mode: {"free", "read", "write"}]
      /\ Held(Disp, "write") \in [by: Actors \cup {None}, mode: {"free", "write"}]
      /\ Held(Disp, "write") \in [by: Actors \cup {None}, mode: {"free", "read", "write"}]
      /\ Held(Disp, "read") \in [by: Actors \cup {None}, mode: {"free", "read", "write"}]
  BY DEF Actors, Free, Held
<1>4. /\ lockT' \in {lockT, Held(Disp, "write"), Free}
      /\ lockA' \in {lockA, Held(Disp, "write"), Held(Disp, "read"), Free}
  BY DEF Handler, OnTargetCreated, OnTargetCreatedActive, OnTargetDestroyed, OnTargetDestroyedActive,
         OnTargetCrashed, OnTargetCrashedActive, OnAttached, OnAttachedMap, OnAttachedActive,
         OnAttachedFlag, OnDetached, OnDetachedMap, OnDetachedClear, OnDetachedPromote,
         OnDetachedRead, OnDetachedFlag, OnFrameNavigated, OnFrameNavigatedUrl, locks
<1>5. /\ lockT' \in [by: Actors \cup {None}, mode: {"free", "write"}]
      /\ lockA' \in [by: Actors \cup {None}, mode: {"free", "read", "write"}]
  <2>1. /\ lockT \in [by: Actors \cup {None}, mode: {"free", "write"}]
        /\ lockA \in [by: Actors \cup {None}, mode: {"free", "read", "write"}]
    BY <1>2 DEF ManagerOK
  <2> QED  BY <1>3, <1>4, <2>1
<1>6. active' \in Ids \cup {None}
  <2>1. Handling /\ DOMAIN targets \subseteq Ids /\ active \in Ids \cup {None}
    BY <1>2 DEF IInv, ManagerOK
  <2>2. CASE OnTargetCreatedActive \/ OnAttachedActive
    BY <2>1, <2>2 DEF Handling, OnTargetCreatedActive, OnAttachedActive
  <2>3. CASE OnTargetDestroyedActive \/ OnTargetCrashedActive \/ OnDetachedClear
    BY <2>1, <2>3 DEF OnTargetDestroyedActive, OnTargetCrashedActive, OnDetachedClear
  <2>4. CASE OnDetachedPromote
    BY <2>1, <2>4 DEF OnDetachedPromote
  <2>5. CASE \/ OnTargetCreated \/ OnTargetDestroyed \/ OnTargetCrashed \/ OnAttached \/ OnAttachedMap
             \/ OnAttachedFlag \/ OnDetached \/ OnDetachedMap \/ OnDetachedRead \/ OnDetachedFlag
             \/ OnFrameNavigated \/ OnFrameNavigatedUrl
    BY <2>1, <2>5 DEF OnTargetCreated, OnTargetDestroyed, OnTargetCrashed, OnAttached, OnAttachedMap,
             OnAttachedFlag, OnDetached, OnDetachedMap, OnDetachedRead, OnDetachedFlag,
             OnFrameNavigated, OnFrameNavigatedUrl
  <2> QED  BY <2>2, <2>3, <2>4, <2>5 DEF Handler
<1> QED  BY <1>1, <1>2, <1>5, <1>6 DEF ManagerOK

-----------------------------------------------------------------------------
(* The browser and the channel *)

\* The channel drops nothing before it has said so.
LEMMA Emitting ==
  ASSUME BrowserOK, NEW ev \in Events, Emit(ev)
  PROVE  /\ stream' \in Seq(Events) /\ Len(stream') <= Capacity /\ emitted' \in 0 .. MaxEvents
         /\ lagged' \in BOOLEAN /\ (lagged => lagged')
         /\ (~lagged' /\ subscribed) => stream' = Append(stream, ev)
         /\ ~subscribed => stream' = stream
         /\ \A i \in 1 .. Len(stream') : stream'[i] = ev \/ \E j \in 1 .. Len(stream) : stream'[i] = stream[j]
<1>1. /\ stream \in Seq(Events) /\ Len(stream) \in Nat /\ Len(stream) <= Capacity
      /\ Capacity \in Nat \ {0} /\ MaxEvents \in Nat /\ emitted \in 0 .. MaxEvents
      /\ lagged \in BOOLEAN /\ subscribed \in BOOLEAN
  BY BoundsAssumption, LenProperties DEF BrowserOK
<1>2. emitted' \in 0 .. MaxEvents
  BY <1>1 DEF Emit
<1>3. lagged' \in BOOLEAN /\ (lagged => lagged') /\ (~lagged' /\ subscribed => Len(stream) # Capacity)
  BY Zenon DEF Emit
<1>4. CASE ~subscribed
  BY <1>1, <1>2, <1>3, <1>4 DEF Emit
<1>5. CASE subscribed
  <2> DEFINE q == IF Len(stream) = Capacity THEN Tail(stream) ELSE stream
  <2>1. stream' = Append(q, ev)
    BY <1>5 DEF Emit
  <2>2. /\ q \in Seq(Events) /\ Len(q) \in Nat /\ Len(q) < Capacity
        /\ \A i \in 1 .. Len(q) : \E j \in 1 .. Len(stream) : q[i] = stream[j]
    <3>1. CASE Len(stream) = Capacity
      <4>1. stream # << >>
        BY <1>1, <3>1, EmptySeq
      <4>2. /\ Tail(stream) \in Seq(Events) /\ Len(Tail(stream)) = Len(stream) - 1
            /\ \A i \in 1 .. Len(Tail(stream)) : Tail(stream)[i] = stream[i + 1]
        BY <1>1, <4>1, HeadTailProperties
      <4>3. \A i \in 1 .. Len(Tail(stream)) : i + 1 \in 1 .. Len(stream)
        BY <1>1, <4>2
      <4> QED  BY <1>1, <3>1, <4>2, <4>3
    <3>2. CASE Len(stream) # Capacity
      BY <1>1, <3>2
    <3> QED  BY <3>1, <3>2
  <2>3. ~lagged' => q = stream
    BY <1>3, <1>5
  <2> HIDE DEF q
  <2>4. /\ stream' \in Seq(Events) /\ Len(stream') = Len(q) + 1
        /\ \A i \in 1 .. Len(q) : stream'[i] = q[i]
        /\ stream'[Len(q) + 1] = ev
    BY <2>1, <2>2, AppendProperties
  <2>5. \A i \in 1 .. Len(stream') : i = Len(q) + 1 \/ i \in 1 .. Len(q)
    BY <2>2, <2>4
  <2>6. Len(stream') <= Capacity
    BY <1>1, <2>2, <2>4
  <2> QED  BY <1>2, <1>3, <1>5, <2>1, <2>2, <2>3, <2>4, <2>5, <2>6
<1> QED  BY <1>1, <1>4, <1>5

\* What the browser does and the event that tells of it: a session ends with its
\* detach or with its target.
BrowserEffect(ev) ==
    /\ Emit(ev)
    /\ tab' \in [Ids -> {"unused", "open", "gone"}] /\ \A t \in Ids : tab[t] = "gone" => tab'[t] = "gone"
    /\ live' \in [Sessions -> open' \cup {"unused", "ended"}]
    /\ ev.kind \in {"created", "destroyed", "crashed", "attached"} => ev.id \in Ids
    /\ ev.kind \in {"attached", "detached"} => ev.session \in Sessions
    /\ ev.kind = "destroyed" => tab'[ev.id] = "gone"
    /\ ev.kind = "attached" => live'[ev.session] = ev.id
    /\ \A s \in Sessions : live[s] \in Ids =>
          \/ live'[s] = live[s]
          \/ ev.kind = "detached" /\ ev.session = s
          \/ ev.kind = "destroyed" /\ ev.id = live[s]

\* Everything the browser does is of that kind.
LEMMA BrowserActs ==
  ASSUME IInv, Browser
  PROVE  \E ev \in Events : BrowserEffect(ev)
<1>1. /\ tab \in [Ids -> {"unused", "open", "gone"}] /\ live \in [Sessions -> open \cup {"unused", "ended"}]
      /\ open = {t \in Ids : tab[t] = "open"} /\ open' = {t \in Ids : tab'[t] = "open"}
      /\ "unused" \notin Ids /\ "ended" \notin Ids
  BY NamesAssumption DEF IInv, TypeOK, BrowserOK, open
<1>2. ASSUME NEW k \in {"created", "destroyed", "crashed", "attached", "detached", "navigated"},
             NEW t \in Ids \cup {None}, NEW s \in Sessions \cup {None}
      PROVE  [kind |-> k, id |-> t, session |-> s] \in Events
  BY DEF Events
<1>3. None \in Ids \cup {None} /\ None \in Sessions \cup {None}
  OBVIOUS
<1>4. ASSUME NEW t \in Ids, BrowserCreates(t) PROVE \E ev \in Events : BrowserEffect(ev)
  <2> DEFINE ev == [kind |-> "created", id |-> t, session |-> None]
  <2>1. ev \in Events
    BY <1>2, <1>3
  <2>2. Emit(ev) /\ tab[t] = "unused" /\ tab' = [tab EXCEPT ![t] = "open"] /\ live' = live
    BY <1>4 DEF BrowserCreates
  <2>3. BrowserEffect(ev)
    <3>1. open \subseteq open'
      BY <1>1, <2>2
    <3> QED  BY <1>1, <2>2, <3>1 DEF BrowserEffect
  <2> QED  BY <2>1, <2>3
<1>5. ASSUME NEW t \in Ids, BrowserDestroys(t) PROVE \E ev \in Events : BrowserEffect(ev)
  <2> DEFINE ev == [kind |-> "destroyed", id |-> t, session |-> None]
  <2>1. ev \in Events
    BY <1>2, <1>3
  <2>2. /\ Emit(ev) /\ tab' = [tab EXCEPT ![t] = "gone"]
        /\ live' = [s \in Sessions |-> IF live[s] = t THEN "ended" ELSE live[s]]
    BY <1>5 DEF BrowserDestroys
  <2>3. open \ {t} \subseteq open'
    BY <1>1, <2>2
  <2>4. live' \in [Sessions -> open' \cup {"unused", "ended"}]
    BY <1>1, <2>2, <2>3
  <2>5. BrowserEffect(ev)
    BY <1>1, <2>2, <2>4 DEF BrowserEffect
  <2> QED  BY <2>1, <2>5
<1>6. ASSUME NEW t \in Ids, BrowserCrashes(t) PROVE \E ev \in Events : BrowserEffect(ev)
  <2> DEFINE ev == [kind |-> "crashed", id |-> t, session |-> None]
  <2>1. ev \in Events
    BY <1>2, <1>3
  <2>2. BrowserEffect(ev)
    BY <1>1, <1>6 DEF BrowserEffect, BrowserCrashes
  <2> QED  BY <2>1, <2>2
<1>7. ASSUME NEW t \in Ids, NEW s \in Sessions, BrowserAttaches(t, s) PROVE \E ev \in Events : BrowserEffect(ev)
  <2> DEFINE ev == [kind |-> "attached", id |-> t, session |-> s]
  <2>1. ev \in Events
    BY <1>2
  <2>2. Emit(ev) /\ tab' = tab /\ t \in open /\ live[s] = "unused" /\ live' = [live EXCEPT ![s] = t]
    BY <1>7 DEF BrowserAttaches
  <2>3. BrowserEffect(ev)
    BY <1>1, <2>2 DEF BrowserEffect
  <2> QED  BY <2>1, <2>3
<1>8. ASSUME NEW s \in Sessions, BrowserDetaches(s) PROVE \E ev \in Events : BrowserEffect(ev)
  <2>1. PICK t \in {live[s], None} : Emit([kind |-> "detached", id |-> t, session |-> s])
    BY <1>8 DEF BrowserDetaches
  <2> DEFINE ev == [kind |-> "detached", id |-> t, session |-> s]
  <2>2. tab' = tab /\ live[s] \in open /\ live' = [live EXCEPT ![s] = "ended"]
    BY <1>8 DEF BrowserDetaches
  <2>3. ev \in Events
    <3>1. t \in Ids \cup {None}
      BY <1>1, <2>1, <2>2
    <3> QED  BY <1>2, <3>1
  <2>4. BrowserEffect(ev)
    BY <1>1, <2>1, <2>2 DEF BrowserEffect
  <2> QED  BY <2>3, <2>4
<1>9. CASE BrowserNavigates
  <2> DEFINE ev == [kind |-> "navigated", id |-> None, session |-> None]
  <2>1. ev \in Events
    BY <1>2, <1>3
  <2>2. BrowserEffect(ev)
    BY <1>1, <1>9 DEF BrowserEffect, BrowserNavigates
  <2> QED  BY <2>1, <2>2
<1> QED  BY <1>4, <1>5, <1>6, <1>7, <1>8, <1>9 DEF Browser

-----------------------------------------------------------------------------
(* What the dispatcher takes up *)

\* The oldest event leaves the channel, and its handler begins with what it
\* says; a detach that names no target the manager knows of is dropped.
Received(ev) ==
    /\ ev = stream[1] /\ 1 \in 1 .. Len(stream) /\ EventOK(ev) /\ pc[Disp] = "idle"
    /\ stream' \in Seq(Events) /\ Len(stream') \in Nat /\ Len(stream) = Len(stream') + 1
    /\ \A i \in 1 .. Len(stream') : i + 1 \in 1 .. Len(stream) /\ stream'[i] = stream[i + 1]
    /\ taken' \in [Sessions -> 0 .. MaxGen]
    /\ \A s \in Sessions : taken[s] <= taken'[s] /\ taken'[s] <= gen
    /\ ActorsOK' /\ \A c \in Calls : pc'[c] = pc[c] /\ loc'[c] = loc[c]
    /\ \/ pc'[Disp] = "idle" /\ ev.kind = "detached" /\ ev.session \notin DOMAIN s2t
       \/ /\ pc'[Disp] = ev.kind /\ sid' = ev.session /\ loc'[Disp].gen = gen
          /\ ev.kind # "detached" => tid' = ev.id
          /\ ev.kind = "detached" => tid' \in Ids
          /\ ev.kind = "attached" => taken'[ev.session] = gen
    /\ UNCHANGED <<targets, s2t, active, gen, lockT, lockA, tab, live, emitted, vanished, since, subscribed, lagged>>

\* Receive does just that.
LEMMA Receiving ==
  ASSUME IInv, Receive
  PROVE  \E ev \in Events : Received(ev)
<1> DEFINE ev == Head(stream)
           id == IF ev.kind = "detached" /\ ev.session \in DOMAIN s2t THEN s2t[ev.session] ELSE ev.id
<1>1. /\ stream \in Seq(Events) /\ stream # << >> /\ ActorsOK /\ Streaming /\ SessionsDated
      /\ s2t \in [DOMAIN s2t -> Ids] /\ gen \in 1 .. MaxGen /\ MaxGen \in Nat
      /\ taken \in [Sessions -> 0 .. MaxGen] /\ Disp \in Actors /\ Calls \subseteq Actors /\ Disp \notin Calls
      /\ "none" \notin Ids /\ None = "none"
  BY BoundsAssumption, NamesAssumption
     DEF IInv, TypeOK, ManagerOK, BrowserOK, Receive, Actors, Disp, None
<1>2. /\ ev \in Events /\ ev = stream[1] /\ Len(stream) \in Nat /\ Len(stream) > 0
      /\ stream' = Tail(stream) /\ Tail(stream) \in Seq(Events) /\ Len(Tail(stream)) = Len(stream) - 1
      /\ \A i \in 1 .. Len(Tail(stream)) : Tail(stream)[i] = stream[i + 1]
  BY <1>1, HeadTailProperties, LenProperties, EmptySeq DEF Receive
<1>3. /\ 1 \in 1 .. Len(stream) /\ Len(stream') \in Nat /\ Len(stream) = Len(stream') + 1 /\ stream' \in Seq(Events)
      /\ \A i \in 1 .. Len(stream') : i + 1 \in 1 .. Len(stream) /\ stream'[i] = stream[i + 1]
  BY <1>2
<1>4. EventOK(ev)
  BY <1>1, <1>2, <1>3 DEF Streaming
<1>5. UNCHANGED <<targets, s2t, active, gen, lockT, lockA, tab, live, emitted, vanished, since, subscribed, lagged>>
      /\ pc[Disp] = "idle"
  BY DEF Receive, manager, locks, browser
<1>6. /\ taken' = IF ev.kind = "attached" THEN [taken EXCEPT ![ev.session] = gen] ELSE taken
      /\ \/ ev.kind = "detached" /\ id = None /\ pc' = pc /\ loc' = loc
         \/ /\ ~(ev.kind = "detached" /\ id = None)
            /\ pc' = [pc EXCEPT ![Disp] = ev.kind]
            /\ loc' = [loc EXCEPT ![Disp].id = id, ![Disp].session = ev.session, ![Disp].gen = gen]
  BY DEF Receive, actors
<1>7. /\ ev.kind \in {"created", "destroyed", "crashed", "attached", "detached", "navigated"}
      /\ ev.id \in Ids \cup {None} /\ ev.session \in Sessions \cup {None}
  BY <1>2 DEF Events
<1>8. /\ ev.kind = "attached" => ev.session \in Sessions
      /\ ev.kind = "detached" /\ ev.session \in DOMAIN s2t => id \in Ids
      /\ ~(ev.kind = "detached" /\ ev.session \in DOMAIN s2t) => id = ev.id
  BY <1>1, <1>4 DEF EventOK
<1> HIDE DEF ev, id
<1>9. /\ taken' \in [Sessions -> 0 .. MaxGen]
      /\ \A s \in Sessions : taken[s] <= taken'[s] /\ taken'[s] <= gen
      /\ ev.kind = "attached" => taken'[ev.session] = gen
  BY <1>1, <1>6, <1>8 DEF SessionsDated
<1>10. CASE ev.kind = "detached" /\ id = None /\ pc' = pc /\ loc' = loc
  <2>1. ActorsOK' /\ \A c \in Calls : pc'[c] = pc[c] /\ loc'[c] = loc[c]
    BY <1>1, <1>10 DEF ActorsOK
  <2>2. pc'[Disp] = "idle" /\ ev.session \notin DOMAIN s2t
    BY <1>1, <1>5, <1>8, <1>10
  <2> QED  BY <1>2, <1>3, <1>4, <1>5, <1>9, <1>10, <2>1, <2>2 DEF Received
<1>11. CASE /\ ~(ev.kind = "detached" /\ id = None)
            /\ pc' = [pc EXCEPT ![Disp] = ev.kind]
            /\ loc' = [loc EXCEPT ![Disp].id = id, ![Disp].session = ev.session, ![Disp].gen = gen]
  <2>1. id \in Ids \cup {None} /\ gen \in 0 .. MaxGen /\ (ev.kind = "detached" => id \in Ids)
        /\ (ev.kind # "detached" => id = ev.id)
    BY <1>1, <1>7, <1>8, <1>11
  <2> DEFINE r == [loc[Disp] EXCEPT !.id = id, !.session = ev.session, !.gen = gen]
  <2>2. loc[Disp] \in Locals /\ ev.kind \in DispPlaces
    BY <1>1, <1>7 DEF ActorsOK, DispPlaces
  <2>3. r \in Locals /\ r.id = id /\ r.session = ev.session /\ r.gen = gen
    BY <1>7, <2>1, <2>2 DEF Locals
  <2>4. loc' = [loc EXCEPT ![Disp] = r]
    BY <1>1, <1>11 DEF ActorsOK
  <2> HIDE DEF r
  <2>5. loc' \in [Actors -> Locals] /\ loc'[Disp] = r /\ \A c \in Calls : loc'[c] = loc[c]
    BY <1>1, <2>3, <2>4 DEF ActorsOK
  <2>6. ActorsOK' /\ pc'[Disp] = ev.kind /\ \A c \in Calls : pc'[c] = pc[c]
    BY <1>1, <1>11, <2>2, <2>5, DispPlaced
  <2>7. sid' = ev.session /\ tid' = id /\ loc'[Disp].gen = gen
    BY <2>3, <2>5 DEF sid, tid
  <2> QED  BY <1>2, <1>3, <1>4, <1>5, <1>9, <2>1, <2>5, <2>6, <2>7 DEF Received
<1> QED  BY <1>2, <1>6, <1>10, <1>11

-----------------------------------------------------------------------------
(* Every step keeps the types and what the dispatcher knows *)

\* The browser changes only its own side, and the channel as it says.
LEMMA BrowserLeaves ==
  ASSUME IInv, NEW ev \in Events, BrowserEffect(ev)
  PROVE  /\ UNCHANGED <<targets, s2t, active, gen, lockT, lockA, pc, loc, vanished, taken, subscribed>>
         /\ since' \in [Sessions -> 0 .. MaxGen] /\ \A s \in Sessions : since'[s] <= gen
         /\ stream' \in Seq(Events) /\ Len(stream') <= Capacity /\ emitted' \in 0 .. MaxEvents
         /\ lagged' \in BOOLEAN /\ (lagged => lagged')
         /\ (~lagged' /\ subscribed) => stream' = Append(stream, ev)
         /\ ~subscribed => stream' = stream
         /\ \A i \in 1 .. Len(stream') : stream'[i] = ev \/ \E j \in 1 .. Len(stream) : stream'[i] = stream[j]
<1>1. Emit(ev) /\ BrowserOK
  BY DEF IInv, TypeOK, BrowserEffect
<1>2. UNCHANGED <<targets, s2t, active, gen, lockT, lockA, pc, loc, vanished, taken, subscribed>>
  BY <1>1 DEF Emit, manager, locks, actors
<1>3. /\ since' = since \/ since' = [since EXCEPT ![ev.session] = gen]
      /\ since \in [Sessions -> 0 .. MaxGen] /\ gen \in 1 .. MaxGen /\ MaxGen \in Nat /\ \A s \in Sessions : since[s] <= gen
  BY <1>1, BoundsAssumption DEF Emit, IInv, TypeOK, ManagerOK, BrowserOK, SessionsDated
<1>4. since' \in [Sessions -> 0 .. MaxGen] /\ \A s \in Sessions : since'[s] <= gen
  BY <1>3
<1> QED  BY <1>1, <1>2, <1>4, Emitting

\* Subscribing changes nothing else.
LEMMA Subscribing ==
  ASSUME Subscribe
  PROVE  /\ UNCHANGED <<targets, s2t, active, gen, lockT, lockA, pc, loc, vanished, since, taken,
                        stream, tab, live, emitted, lagged>>
         /\ subscribed' = TRUE
BY DEF Subscribe, manager, locks, actors, history, browser

\* The types are kept.
LEMMA TypesKept ==
  ASSUME IInv, Browser \/ Subscribe \/ Receive \/ Handler \/ \E c \in Calls : Request(c) \/ CallStep(c)
  PROVE  TypeOK'
<1>1. ManagerOK /\ ActorsOK /\ BrowserOK
  BY DEF IInv, TypeOK
<1>2. CASE Browser
  <2>1. PICK ev \in Events : BrowserEffect(ev)
    BY <1>2, BrowserActs
  <2>2. /\ UNCHANGED <<targets, s2t, active, gen, lockT, lockA, pc, loc, vanished, taken, subscribed>>
        /\ stream' \in Seq(Events) /\ Len(stream') <= Capacity /\ emitted' \in 0 .. MaxEvents
        /\ lagged' \in BOOLEAN /\ since' \in [Sessions -> 0 .. MaxGen]
    BY <2>1, BrowserLeaves
  <2>3. tab' \in [Ids -> {"unused", "open", "gone"}] /\ live' \in [Sessions -> open' \cup {"unused", "ended"}]
    BY <2>1 DEF BrowserEffect
  <2>4. ManagerOK'
    BY <1>1, <2>2 DEF ManagerOK
  <2>5. ActorsOK'
    BY <1>1, <2>2 DEF ActorsOK
  <2>6. subscribed' \in BOOLEAN /\ vanished' \in BOOLEAN /\ taken' \in [Sessions -> 0 .. MaxGen]
    BY <1>1, <2>2 DEF BrowserOK
  <2>7. BrowserOK'
    BY <2>2, <2>3, <2>6 DEF BrowserOK
  <2> QED  BY <2>4, <2>5, <2>7 DEF TypeOK
<1>3. CASE Subscribe
  <2>1. /\ UNCHANGED <<targets, s2t, active, gen, lockT, lockA, pc, loc, vanished, since, taken,
                        stream, tab, live, emitted, lagged>>
        /\ subscribed' \in BOOLEAN
    BY <1>3, Subscribing
  <2>2. ManagerOK'
    BY <1>1, <2>1 DEF ManagerOK
  <2>3. ActorsOK'
    BY <1>1, <2>1 DEF ActorsOK
  <2>4. BrowserOK'
    BY <1>1, <2>1 DEF BrowserOK, open
  <2> QED  BY <2>2, <2>3, <2>4 DEF TypeOK
<1>4. CASE Receive
  <2>1. PICK ev \in Events : Received(ev)
    BY <1>4, Receiving
  <2>2. /\ UNCHANGED <<targets, s2t, active, gen, lockT, lockA, tab, live, emitted, vanished, since, subscribed, lagged>>
        /\ ActorsOK' /\ stream' \in Seq(Events) /\ Len(stream') \in Nat /\ Len(stream) = Len(stream') + 1
        /\ taken' \in [Sessions -> 0 .. MaxGen]
    BY <2>1 DEF Received
  <2>3. ManagerOK'
    BY <1>1, <2>2 DEF ManagerOK
  <2>4. Len(stream') <= Capacity
    BY <1>1, <2>2, BoundsAssumption DEF BrowserOK
  <2>5. BrowserOK'
    BY <1>1, <2>2, <2>4 DEF BrowserOK, open
  <2> QED  BY <2>2, <2>3, <2>5 DEF TypeOK
<1>5. CASE Handler
  <2>1. ActorsOK' /\ UNCHANGED <<tab, live, emitted, vanished, since, taken, stream, subscribed, lagged>>
    BY <1>5, HandlersMove
  <2>2. BrowserOK'
    BY <1>1, <2>1 DEF BrowserOK, open
  <2> QED  BY <1>5, <2>1, <2>2, HandlersManage DEF TypeOK
<1>6. ASSUME NEW c \in Calls, Request(c) \/ CallStep(c) PROVE TypeOK'
  <2>1. ActorsOK' /\ ManagerOK'
    BY <1>6, CallsMove, CallsManage DEF CallMoved
  <2>2. UNCHANGED <<tab, live, emitted, since, taken, stream, subscribed, lagged>>
    BY <1>6, CallsAlone
  <2>3. vanished' \in BOOLEAN
    <3>1. vanished' = vanished \/ vanished' = (vanished \/ loc[c].id \notin DOMAIN targets)
      BY <1>6 DEF Request, SwitchTarget, Reconnect, Tabs, CallStep, SwitchActive, SwitchFlags, SwitchAnswer,
         ReconnectRecords, ReconnectMap, ReconnectClear, ReconnectFirst, ReconnectPromote,
         Sync, SyncRecords, SyncActive, SyncPromote, Handled, history
    <3>2. vanished \in BOOLEAN
      BY <1>1 DEF BrowserOK
    <3> QED  BY <3>1, <3>2, Zenon
  <2>4. BrowserOK'
    BY <1>1, <2>2, <2>3 DEF BrowserOK, open
  <2> QED  BY <2>1, <2>4 DEF TypeOK
<1> QED  BY <1>2, <1>3, <1>4, <1>5, <1>6

\* What the dispatcher knows stays true.
LEMMA HandlingKept ==
  ASSUME IInv, Browser \/ Subscribe \/ Receive \/ Handler \/ \E c \in Calls : Request(c) \/ CallStep(c)
  PROVE  Handling'
<1>1. Handling /\ Disp \in Actors /\ Disp \notin Calls
  BY NamesAssumption DEF IInv, Actors, Disp
<1>2. ASSUME pc'[Disp] = pc[Disp], loc'[Disp] = loc[Disp], DOMAIN targets \subseteq DOMAIN targets',
             \A t \in Ids : tab[t] = "gone" => tab'[t] = "gone"
      PROVE  Handling'
  BY <1>1, <1>2 DEF Handling, tid, sid
<1>3. CASE Browser
  <2>1. PICK ev \in Events : BrowserEffect(ev)
    BY <1>3, BrowserActs
  <2>2. UNCHANGED <<targets, pc, loc>>
    BY <2>1, BrowserLeaves
  <2>3. \A t \in Ids : tab[t] = "gone" => tab'[t] = "gone"
    BY <2>1 DEF BrowserEffect
  <2> QED  BY <1>2, <2>2, <2>3
<1>4. CASE Subscribe
  BY <1>2, <1>4, Subscribing
<1>5. CASE Receive
  <2>1. PICK ev \in Events : Received(ev)
    BY <1>5, Receiving
  <2>2. /\ EventOK(ev) /\ tab' = tab
        /\ \/ pc'[Disp] = "idle"
           \/ /\ pc'[Disp] = ev.kind /\ sid' = ev.session
              /\ ev.kind # "detached" => tid' = ev.id
              /\ ev.kind = "detached" => tid' \in Ids
    BY <2>1 DEF Received
  <2>3. ev.kind \in {"created", "destroyed", "crashed", "attached", "detached", "navigated"}
    BY DEF Events
  <2> HIDE DEF tid, sid
  <2> QED  BY <2>2, <2>3 DEF EventOK, Handling
<1>6. CASE Handler
  <2>1. /\ <<pc[Disp], pc'[Disp]>> \in Transitions /\ UNCHANGED tab
        /\ pc'[Disp] # "idle" => loc'[Disp] = loc[Disp]
    BY <1>6, HandlersMove
  <2>2. /\ \A t \in DOMAIN targets : t \in DOMAIN targets' \/ (pc[Disp] = "destroyed" /\ t = tid)
        /\ pc[Disp] \in {"created", "attached"} => tid \in DOMAIN targets'
    BY <1>6, HandlersRecord DEF HandlerRecords
  <2>3. CASE pc'[Disp] = "idle"
    BY <2>3 DEF Handling
  <2>4. CASE pc'[Disp] # "idle"
    <3>1. tid' = tid /\ sid' = sid
      BY <2>1, <2>4 DEF tid, sid
    <3> HIDE DEF tid, sid
    <3> QED  BY <1>1, <2>1, <2>2, <2>4, <3>1 DEF Handling, Transitions
  <2> QED  BY <2>3, <2>4
<1>7. ASSUME NEW c \in Calls, Request(c) \/ CallStep(c) PROVE Handling'
  <2>1. pc'[Disp] = pc[Disp] /\ loc'[Disp] = loc[Disp] /\ DOMAIN targets \subseteq DOMAIN targets' /\ tab' = tab
    BY <1>1, <1>7, CallsMove, CallsManage, CallsAlone DEF CallMoved, SessionsKept
  <2> QED  BY <1>2, <2>1
<1> QED  BY <1>3, <1>4, <1>5, <1>6, <1>7

\* What the events say stays true, and nothing happens before the subscription.
LEMMA StreamingKept ==
  ASSUME IInv, Browser \/ Subscribe \/ Receive \/ Handler \/ \E c \in Calls : Request(c) \/ CallStep(c)
  PROVE  Streaming'
<1>1. Streaming /\ stream \in Seq(Events) /\ Len(stream) \in Nat /\ Disp \in Actors /\ Disp \notin Calls
  BY NamesAssumption, LenProperties DEF IInv, TypeOK, BrowserOK, Actors, Disp
<1>2. CASE Browser
  <2>1. PICK ev \in Events : BrowserEffect(ev)
    BY <1>2, BrowserActs
  <2>2. /\ UNCHANGED <<s2t, pc, subscribed>> /\ (~subscribed => stream' = stream)
        /\ \A i \in 1 .. Len(stream') : stream'[i] = ev \/ \E j \in 1 .. Len(stream) : stream'[i] = stream[j]
    BY <2>1, BrowserLeaves
  <2>3. /\ ev.kind \in {"created", "destroyed", "crashed", "attached"} => ev.id \in Ids
        /\ ev.kind \in {"attached", "detached"} => ev.session \in Sessions
        /\ ev.kind = "destroyed" => tab'[ev.id] = "gone"
        /\ \A t \in Ids : tab[t] = "gone" => tab'[t] = "gone"
    BY <2>1 DEF BrowserEffect
  <2>4. ASSUME NEW i \in 1 .. Len(stream') PROVE EventOK(stream[i])'
    <3>1. CASE stream'[i] = ev
      BY <2>3, <3>1 DEF EventOK
    <3>2. ASSUME NEW j \in 1 .. Len(stream), stream'[i] = stream[j] PROVE EventOK(stream[i])'
      <4>1. EventOK(stream[j])
        BY <1>1 DEF Streaming
      <4> QED  BY <2>3, <3>2, <4>1 DEF EventOK
    <3> QED  BY <2>2, <3>1, <3>2
  <2> QED  BY <1>1, <2>2, <2>4 DEF Streaming
<1>3. CASE Subscribe
  <2>1. UNCHANGED <<stream, tab>> /\ subscribed' = TRUE
    BY <1>3, Subscribing
  <2> QED  BY <1>1, <2>1 DEF Streaming, EventOK
<1>4. CASE Receive
  <2>1. PICK ev \in Events : Received(ev)
    BY <1>4, Receiving
  <2>2. /\ tab' = tab /\ subscribed' = subscribed /\ 1 \in 1 .. Len(stream)
        /\ \A i \in 1 .. Len(stream') : i + 1 \in 1 .. Len(stream) /\ stream'[i] = stream[i + 1]
    BY <2>1 DEF Received
  <2>3. subscribed
    <3>1. stream # << >>
      BY <1>4 DEF Receive
    <3> QED  BY <1>1, <3>1 DEF Streaming
  <2>4. \A i \in 1 .. Len(stream') : EventOK(stream[i])'
    BY <1>1, <2>2 DEF Streaming, EventOK
  <2> QED  BY <2>2, <2>3, <2>4 DEF Streaming
<1>5. CASE Handler
  <2>1. /\ <<pc[Disp], pc'[Disp]>> \in Transitions /\ UNCHANGED <<stream, tab, subscribed>>
    BY <1>5, HandlersMove
  <2>2. pc[Disp] # "idle"
    BY <2>1 DEF Transitions
  <2> QED  BY <1>1, <2>1, <2>2 DEF Streaming, EventOK
<1>6. ASSUME NEW c \in Calls, Request(c) \/ CallStep(c) PROVE Streaming'
  <2>1. UNCHANGED <<stream, tab, subscribed>> /\ pc'[Disp] = pc[Disp] /\ (s2t' = s2t \/ DOMAIN s2t' = {})
    BY <1>1, <1>6, CallsMove, CallsManage, CallsAlone DEF CallMoved, SessionsKept
  <2> QED  BY <1>1, <2>1 DEF Streaming, EventOK
<1> QED  BY <1>2, <1>3, <1>4, <1>5, <1>6

\* A generation that was read stays a real one.
LEMMA GenerationsKept ==
  ASSUME IInv, Browser \/ Subscribe \/ Receive \/ Handler \/ \E c \in Calls : Request(c) \/ CallStep(c)
  PROVE  GenerationsRead'
<1>1. GenerationsRead /\ Disp \in Actors /\ Disp \notin Calls /\ Calls \subseteq Actors /\ gen \in 1 .. MaxGen /\ MaxGen \in Nat
  BY NamesAssumption, BoundsAssumption DEF IInv, TypeOK, ManagerOK, Actors, Disp
<1>2. ASSUME pc' = pc, loc' = loc PROVE GenerationsRead'
  BY <1>1, <1>2 DEF GenerationsRead
<1>3. CASE Browser
  BY <1>2, <1>3, BrowserActs, BrowserLeaves
<1>4. CASE Subscribe
  BY <1>2, <1>4, Subscribing
<1>5. CASE Receive
  <2>1. PICK ev \in Events : Received(ev)
    BY <1>5, Receiving
  <2>2. /\ \A c \in Calls : pc'[c] = pc[c] /\ loc'[c] = loc[c]
        /\ pc'[Disp] = "idle" \/ loc'[Disp].gen = gen
    BY <2>1 DEF Received
  <2> QED  BY <1>1, <2>2 DEF GenerationsRead
<1>6. CASE Handler
  <2>1. /\ <<pc[Disp], pc'[Disp]>> \in Transitions
        /\ \A c \in Calls : pc'[c] = pc[c] /\ loc'[c] = loc[c]
    BY <1>6, HandlersMove
  <2>2. pc'[Disp] \notin {"created", "attached"}
    BY <2>1 DEF Transitions
  <2> QED  BY <1>1, <2>1, <2>2 DEF GenerationsRead
<1>7. ASSUME NEW c \in Calls, Request(c) \/ CallStep(c) PROVE GenerationsRead'
  <2>1. CallMoved(c)
    BY <1>7, CallsMove
  <2> QED  BY <1>1, <2>1 DEF GenerationsRead, CallMoved
<1> QED  BY <1>3, <1>4, <1>5, <1>6, <1>7

-----------------------------------------------------------------------------
(* Every step keeps what is known of the sessions *)

\* No record has a session with a generation its attach did not have.
LEMMA SessionsStayDated ==
  ASSUME IInv, Browser \/ Subscribe \/ Receive \/ Handler \/ \E c \in Calls : Request(c) \/ CallStep(c)
  PROVE  SessionsDated'
<1>1. /\ SessionsDated /\ Disp \in Actors /\ Disp \notin Calls /\ gen \in 1 .. MaxGen /\ MaxGen \in Nat
      /\ taken \in [Sessions -> 0 .. MaxGen] /\ targets \in [DOMAIN targets -> Records]
      /\ "none" \notin Sessions /\ None = "none" /\ Handling
  BY NamesAssumption, BoundsAssumption DEF IInv, TypeOK, ManagerOK, BrowserOK, Actors, Disp, None
<1>2. /\ \A t \in DOMAIN targets : targets[t].cgen \in 1 .. MaxGen /\ targets[t].session \in Sessions \cup {None}
      /\ \A s \in Sessions : taken[s] \in Nat
  BY <1>1 DEF Records
<1>3. CASE Browser \/ Subscribe
  <2>1. UNCHANGED <<taken, gen, targets, pc, loc>>
    BY <1>3, BrowserActs, BrowserLeaves, Subscribing
  <2>2. \A s \in Sessions : since'[s] <= gen
    <3>1. CASE Browser
      BY <3>1, BrowserActs, BrowserLeaves
    <3>2. CASE Subscribe
      BY <1>1, <3>2, Subscribing DEF SessionsDated
    <3> QED  BY <1>3, <3>1, <3>2
  <2> QED  BY <1>1, <2>1, <2>2 DEF SessionsDated, sid
<1>4. CASE Receive
  <2>1. PICK ev \in Events : Received(ev)
    BY <1>4, Receiving
  <2>2. /\ UNCHANGED <<gen, targets>> /\ EventOK(ev)
        /\ \A s \in Sessions : taken[s] <= taken'[s] /\ taken'[s] <= gen
        /\ taken' \in [Sessions -> 0 .. MaxGen]
    BY <2>1 DEF Received
  <2>3. pc'[Disp] = "attached" => loc'[Disp].gen = gen /\ taken'[sid'] = gen
    <3>1. \/ pc'[Disp] = "idle"
          \/ /\ pc'[Disp] = ev.kind /\ sid' = ev.session /\ loc'[Disp].gen = gen
             /\ ev.kind = "attached" => taken'[ev.session] = gen
      BY <2>1 DEF Received
    <3> HIDE DEF sid
    <3> QED  BY <3>1
  <2>4. \A t \in DOMAIN targets : targets[t].session # None => targets[t].cgen <= taken'[targets[t].session]
    <3> SUFFICES ASSUME NEW t \in DOMAIN targets, targets[t].session # None
                 PROVE  targets[t].cgen <= taken'[targets[t].session]
      OBVIOUS
    <3>1. targets[t].cgen <= taken[targets[t].session] /\ targets[t].session \in Sessions /\ targets[t].cgen \in Nat
      BY <1>1, <1>2 DEF SessionsDated
    <3>2. taken[targets[t].session] \in Nat /\ taken'[targets[t].session] \in Nat
          /\ taken[targets[t].session] <= taken'[targets[t].session]
      BY <1>2, <2>2, <3>1
    <3> QED  BY <3>1, <3>2
  <2>5. \A s \in Sessions : since'[s] <= gen' /\ taken'[s] <= gen'
    <3>1. since' = since
      BY <2>1 DEF Received
    <3> QED  BY <1>1, <2>2, <3>1 DEF SessionsDated
  <2>6. gen <= gen
    BY <1>1
  <2>7. pc'[Disp] = "attached" => loc'[Disp].gen <= taken'[sid']
    BY <2>3, <2>6, Zenon
  <2> HIDE DEF sid
  <2> QED  BY <2>2, <2>4, <2>5, <2>7 DEF SessionsDated
<1>5. CASE Handler
  <2>1. <<pc[Disp], pc'[Disp]>> \in Transitions /\ UNCHANGED <<gen, since, taken>>
    BY <1>5, HandlersMove
  <2>2. pc'[Disp] # "attached"
    BY <2>1 DEF Transitions
  <2>3. \A t \in DOMAIN targets' :
          \/ targets'[t].session = None
          \/ t \in DOMAIN targets /\ targets'[t].session = targets[t].session /\ targets'[t].cgen = targets[t].cgen
          \/ pc[Disp] = "attached" /\ targets'[t].session = sid /\ targets'[t].cgen = loc[Disp].gen
    BY <1>5, HandlersRecord DEF HandlerRecords
  <2> QED  BY <1>1, <2>1, <2>2, <2>3 DEF SessionsDated
<1>6. ASSUME NEW c \in Calls, Request(c) \/ CallStep(c) PROVE SessionsDated'
  <2>1. /\ SessionsKept /\ gen <= gen' /\ pc'[Disp] = pc[Disp] /\ loc'[Disp] = loc[Disp] /\ taken' = taken /\ since' = since
        /\ gen' \in 1 .. MaxGen
    BY <1>1, <1>6, CallsMove, CallsManage, CallsAlone DEF CallMoved, ManagerOK
  <2>2. \A s \in Sessions : since'[s] <= gen' /\ taken'[s] <= gen'
    <3>1. \A s \in Sessions : since[s] \in Nat /\ since[s] <= gen /\ taken[s] <= gen
      BY <1>1, BoundsAssumption DEF IInv, TypeOK, BrowserOK, SessionsDated
    <3> QED  BY <1>1, <1>2, <2>1, <3>1
  <2> QED  BY <1>1, <2>1, <2>2 DEF SessionsDated, SessionsKept, sid
<1> QED  BY <1>3, <1>4, <1>5, <1>6

\* A session that is live or whose end will come, is so after what the browser does.
LEMMA EndsStayAhead ==
  ASSUME IInv, NEW ev \in Events, BrowserEffect(ev), ~lagged', subscribed,
         NEW s \in Sessions, NEW t \in Ids, NEW i \in 0 .. Len(stream),
         live[s] = t \/ EndsAfter(stream, s, t, i)
  PROVE  live'[s] = t \/ EndsAfter(stream', s, t, i)
<1>1. stream \in Seq(Events) /\ Len(stream) \in Nat
  BY LenProperties DEF IInv, TypeOK, BrowserOK
<1>2. stream' = Append(stream, ev)
  BY BrowserLeaves
<1>3. /\ Len(stream') = Len(stream) + 1 /\ \A j \in 1 .. Len(stream) : stream'[j] = stream[j]
      /\ stream'[Len(stream) + 1] = ev
  BY <1>1, <1>2, AppendProperties
<1>4. CASE EndsAfter(stream, s, t, i)
  <2>1. PICK j \in i + 1 .. Len(stream) : Ends(stream[j], s, t)
    BY <1>4 DEF EndsAfter
  <2>2. j \in i + 1 .. Len(stream') /\ j \in 1 .. Len(stream)
    BY <1>1, <1>3
  <2> QED  BY <1>3, <2>1, <2>2 DEF EndsAfter
<1>5. CASE live[s] = t
  <2>1. live'[s] = live[s] \/ Ends(ev, s, t)
    BY <1>5 DEF BrowserEffect, Ends
  <2>2. Len(stream) + 1 \in i + 1 .. Len(stream')
    BY <1>1, <1>3
  <2> QED  BY <1>3, <1>5, <2>1, <2>2 DEF EndsAfter
<1> QED  BY <1>4, <1>5

\* What follows the event that is taken up follows still.
LEMMA EndsComeNearer ==
  ASSUME NEW ev \in Events, Received(ev), NEW s, NEW t, NEW i \in Nat, EndsAfter(stream, s, t, i)
  PROVE  /\ i # 0 => EndsAfter(stream', s, t, i - 1)
         /\ i = 0 => EndsAfter(stream', s, t, 0) \/ Ends(ev, s, t)
<1>1. /\ ev = stream[1] /\ Len(stream') \in Nat /\ Len(stream) = Len(stream') + 1
      /\ \A j \in 1 .. Len(stream') : stream'[j] = stream[j + 1]
  BY DEF Received
<1>2. PICK j \in i + 1 .. Len(stream) : Ends(stream[j], s, t)
  BY DEF EndsAfter
<1>3. CASE j = 1
  <2>1. i = 0
    BY <1>3
  <2> QED  BY <1>1, <1>2, <1>3, <2>1
<1>4. CASE j # 1
  <2>1. j - 1 \in 1 .. Len(stream') /\ j = (j - 1) + 1 /\ (i # 0 => j - 1 \in (i - 1) + 1 .. Len(stream'))
        /\ j - 1 \in 0 + 1 .. Len(stream')
    BY <1>1, <1>4
  <2>2. stream'[j - 1] = stream[j]
    BY <1>1, <2>1
  <2> QED  BY <1>2, <2>1, <2>2 DEF EndsAfter
<1> QED  BY <1>3, <1>4

\* An end that was on its way when nothing was dropped is still on its way.
LEMMA EndsStillFollow ==
  ASSUME IInv, Browser \/ Subscribe \/ Receive \/ Handler \/ \E c \in Calls : Request(c) \/ CallStep(c)
  PROVE  EndsFollow'
<1>1. /\ EndsFollow /\ Handling /\ Streaming /\ Disp \in Actors /\ Disp \notin Calls
      /\ DOMAIN s2t \subseteq Sessions /\ s2t \in [DOMAIN s2t -> Ids] /\ stream \in Seq(Events) /\ Len(stream) \in Nat
  BY NamesAssumption, LenProperties DEF IInv, TypeOK, ManagerOK, BrowserOK, Actors, Disp
<1>2. CASE Browser
  <2>1. PICK ev \in Events : BrowserEffect(ev)
    BY <1>2, BrowserActs
  <2>2. /\ UNCHANGED <<s2t, pc, loc, subscribed>> /\ (lagged => lagged')
        /\ (~lagged' /\ subscribed) => stream' = Append(stream, ev)
        /\ ~subscribed => stream' = stream
    BY <2>1, BrowserLeaves
  <2>3. CASE ~subscribed
    <3>1. stream' = << >> /\ DOMAIN s2t' = {} /\ pc'[Disp] = "idle"
      BY <1>1, <2>2, <2>3 DEF Streaming
    <3> QED  BY <3>1 DEF EndsFollow
  <2>4. CASE subscribed /\ ~lagged'
    <3>1. ~lagged /\ stream' = Append(stream, ev)
      BY <2>2, <2>4
    <3>2. /\ Len(stream') = Len(stream) + 1 /\ \A j \in 1 .. Len(stream) : stream'[j] = stream[j]
          /\ stream'[Len(stream) + 1] = ev
      BY <1>1, <3>1, AppendProperties
    <3>3. 0 \in 0 .. Len(stream) /\ \A i \in 1 .. Len(stream) : i \in 0 .. Len(stream)
      BY <1>1
    <3>4. tid' = tid /\ sid' = sid
      BY <2>2 DEF tid, sid
    <3> HIDE DEF tid, sid
    <3>5. \A s \in DOMAIN s2t' : live'[s] = s2t'[s] \/ Ending(s, s2t[s])'
      <4> SUFFICES ASSUME NEW s \in DOMAIN s2t PROVE live'[s] = s2t[s] \/ Ending(s, s2t[s])'
        BY <2>2
      <4>1. s \in Sessions /\ s2t[s] \in Ids
        BY <1>1
      <4>2. live[s] = s2t[s] \/ Ending(s, s2t[s])
        BY <1>1, <3>1 DEF EndsFollow
      <4>3. CASE live[s] = s2t[s] \/ EndsAfter(stream, s, s2t[s], 0)
        <5>1. live'[s] = s2t[s] \/ EndsAfter(stream', s, s2t[s], 0)
          BY <2>1, <2>4, <3>3, <4>1, <4>3, EndsStayAhead
        <5> QED  BY <2>2, <5>1 DEF Ending
      <4> QED  BY <2>2, <3>4, <4>2, <4>3 DEF Ending
    <3>6. ASSUME NEW i \in 1 .. Len(stream'), stream'[i].kind = "attached"
          PROVE  live'[stream'[i].session] = stream'[i].id \/ EndsAfter(stream', stream'[i].session, stream'[i].id, i)
      <4>1. CASE i \in 1 .. Len(stream)
        <5>1. stream'[i] = stream[i] /\ i \in 0 .. Len(stream) /\ EventOK(stream[i])
          BY <1>1, <3>2, <3>3, <4>1 DEF Streaming
        <5>2. stream[i].session \in Sessions /\ stream[i].id \in Ids
          BY <3>6, <5>1 DEF EventOK
        <5>3. live[stream[i].session] = stream[i].id \/ EndsAfter(stream, stream[i].session, stream[i].id, i)
          BY <1>1, <3>1, <3>6, <4>1, <5>1 DEF EndsFollow
        <5>4. live'[stream[i].session] = stream[i].id \/ EndsAfter(stream', stream[i].session, stream[i].id, i)
          BY <2>1, <2>4, <5>1, <5>2, <5>3, EndsStayAhead
        <5> QED  BY <5>1, <5>4
      <4>2. CASE i = Len(stream) + 1
        BY <2>1, <3>2, <3>6, <4>2 DEF BrowserEffect
      <4>3. i \in 1 .. Len(stream) \/ i = Len(stream) + 1
        BY <1>1, <3>2
      <4> QED  BY <4>1, <4>2, <4>3
    <3>7. ASSUME pc'[Disp] \in {"attached", "attached_map"}
          PROVE  live'[sid'] = tid' \/ EndsAfter(stream', sid', tid', 0)
      <4>1. pc[Disp] \in {"attached", "attached_map"}
        BY <2>2, <3>7
      <4>2. sid \in Sessions /\ tid \in Ids
        BY <1>1, <4>1 DEF Handling
      <4>3. live[sid] = tid \/ EndsAfter(stream, sid, tid, 0)
        BY <1>1, <3>1, <4>1 DEF EndsFollow
      <4>4. live'[sid] = tid \/ EndsAfter(stream', sid, tid, 0)
        BY <2>1, <2>4, <3>3, <4>2, <4>3, EndsStayAhead
      <4> QED  BY <3>4, <4>4
    <3> QED  BY <3>5, <3>6, <3>7 DEF EndsFollow
  <2> QED  BY <2>3, <2>4 DEF EndsFollow
<1>3. CASE Subscribe
  <2>1. UNCHANGED <<s2t, pc, loc, stream, live, lagged>>
    BY <1>3, Subscribing
  <2> QED  BY <1>1, <2>1 DEF EndsFollow, Ending, sid, tid
<1>4. CASE Receive
  <2>1. PICK ev \in Events : Received(ev)
    BY <1>4, Receiving
  <2>2. /\ UNCHANGED <<s2t, live, lagged>> /\ pc[Disp] = "idle" /\ ev = stream[1] /\ 1 \in 1 .. Len(stream)
        /\ Len(stream') \in Nat
        /\ \A i \in 1 .. Len(stream') : i + 1 \in 1 .. Len(stream) /\ stream'[i] = stream[i + 1]
        /\ \/ pc'[Disp] = "idle" /\ ev.kind = "detached" /\ ev.session \notin DOMAIN s2t
           \/ /\ pc'[Disp] = ev.kind /\ sid' = ev.session
              /\ ev.kind # "detached" => tid' = ev.id
    BY <2>1 DEF Received
  <2> HIDE DEF tid, sid
  <2> SUFFICES ASSUME ~lagged' PROVE EndsFollow'
    BY DEF EndsFollow
  <2>3. ~lagged
    BY <2>2
  <2>4. \A s \in DOMAIN s2t' : live'[s] = s2t'[s] \/ Ending(s, s2t[s])'
    <3> SUFFICES ASSUME NEW s \in DOMAIN s2t, live[s] # s2t[s] PROVE Ending(s, s2t[s])'
      BY <2>2
    <3>1. EndsAfter(stream, s, s2t[s], 0)
      BY <1>1, <2>2, <2>3 DEF EndsFollow, Ending
    <3>2. EndsAfter(stream', s, s2t[s], 0) \/ Ends(ev, s, s2t[s])
      BY <2>1, <3>1, EndsComeNearer
    <3>3. CASE ev.kind = "detached" /\ ev.session = s
      BY <2>2, <3>3 DEF Ending
    <3>4. CASE ev.kind = "destroyed" /\ ev.id = s2t[s]
      BY <2>2, <3>4 DEF Ending
    <3> QED  BY <2>2, <3>2, <3>3, <3>4 DEF Ending, Ends
  <2>5. ASSUME NEW i \in 1 .. Len(stream'), stream'[i].kind = "attached"
        PROVE  live'[stream'[i].session] = stream'[i].id \/ EndsAfter(stream', stream'[i].session, stream'[i].id, i)
    <3>1. i + 1 \in 1 .. Len(stream) /\ stream'[i] = stream[i + 1] /\ i + 1 \in Nat /\ i + 1 # 0 /\ (i + 1) - 1 = i
      BY <2>2
    <3>2. live[stream[i + 1].session] = stream[i + 1].id \/ EndsAfter(stream, stream[i + 1].session, stream[i + 1].id, i + 1)
      BY <1>1, <2>3, <2>5, <3>1 DEF EndsFollow
    <3>3. CASE EndsAfter(stream, stream[i + 1].session, stream[i + 1].id, i + 1)
      <4>1. EndsAfter(stream', stream[i + 1].session, stream[i + 1].id, (i + 1) - 1)
        BY <2>1, <3>1, <3>3, EndsComeNearer
      <4> QED  BY <3>1, <4>1
    <3> QED  BY <2>2, <3>1, <3>2, <3>3
  <2>6. ASSUME pc'[Disp] \in {"attached", "attached_map"}
        PROVE  live'[sid'] = tid' \/ EndsAfter(stream', sid', tid', 0)
    <3>1. ev.kind \in {"created", "destroyed", "crashed", "attached", "detached", "navigated"}
      BY DEF Events
    <3>2. ev.kind = "attached" /\ sid' = ev.session /\ tid' = ev.id
      BY <2>2, <2>6, <3>1
    <3>3. live[ev.session] = ev.id \/ EndsAfter(stream, ev.session, ev.id, 1)
      BY <1>1, <2>2, <2>3, <3>2 DEF EndsFollow
    <3>4. 1 \in Nat /\ 1 # 0 /\ 1 - 1 = 0
      OBVIOUS
    <3>5. CASE EndsAfter(stream, ev.session, ev.id, 1)
      <4>1. EndsAfter(stream', ev.session, ev.id, 1 - 1)
        BY <2>1, <3>4, <3>5, EndsComeNearer
      <4> QED  BY <3>2, <3>4, <4>1
    <3> QED  BY <2>2, <3>2, <3>3, <3>5
  <2> QED  BY <2>4, <2>5, <2>6 DEF EndsFollow
<1>5. CASE Handler
  <2>1. /\ <<pc[Disp], pc'[Disp]>> \in Transitions /\ UNCHANGED <<stream, live, lagged>>
        /\ pc'[Disp] # "idle" => loc'[Disp] = loc[Disp]
    BY <1>5, HandlersMove
  <2>2. pc'[Disp] # "idle" => tid' = tid /\ sid' = sid
    BY <2>1 DEF tid, sid
  <2>3. /\ \A s \in DOMAIN s2t' :
              \/ s \in DOMAIN s2t /\ s2t'[s] = s2t[s]
              \/ pc[Disp] = "attached_map" /\ s = sid /\ s2t'[s] = tid
        /\ pc[Disp] = "detached_map" => sid \notin DOMAIN s2t'
        /\ pc[Disp] = "destroyed_active" => \A s \in DOMAIN s2t' : s2t'[s] # tid
    BY <1>5, HandlersMap DEF HandlerMap
  <2>4. /\ pc[Disp] = "detached" => pc'[Disp] = "detached_map"
        /\ pc[Disp] = "destroyed" => pc'[Disp] = "destroyed_active"
        /\ pc'[Disp] \in {"attached", "attached_map"} => pc[Disp] = "attached"
    BY <2>1 DEF Transitions
  <2> HIDE DEF tid, sid
  <2> SUFFICES ASSUME ~lagged' PROVE EndsFollow'
    BY DEF EndsFollow
  <2>5. ~lagged
    BY <2>1
  <2>6. \A s \in DOMAIN s2t' : live'[s] = s2t'[s] \/ Ending(s, s2t[s])'
    <3> SUFFICES ASSUME NEW s \in DOMAIN s2t', live[s] # s2t'[s] PROVE Ending(s, s2t[s])'
      BY <2>1
    <3>1. CASE s \in DOMAIN s2t /\ s2t'[s] = s2t[s]
      <4>1. Ending(s, s2t[s])
        BY <1>1, <2>5, <3>1 DEF EndsFollow
      <4>2. CASE EndsAfter(stream, s, s2t[s], 0)
        BY <2>1, <3>1, <4>2 DEF Ending
      <4>3. CASE pc[Disp] \in {"detached", "detached_map"} /\ sid = s
        BY <2>2, <2>3, <2>4, <4>3 DEF Ending
      <4>4. CASE pc[Disp] \in {"destroyed", "destroyed_active"} /\ tid = s2t[s]
        BY <2>2, <2>3, <2>4, <3>1, <4>4 DEF Ending
      <4> QED  BY <4>1, <4>2, <4>3, <4>4 DEF Ending
    <3>2. CASE pc[Disp] = "attached_map" /\ s = sid /\ s2t'[s] = tid
      <4>1. EndsAfter(stream, sid, tid, 0)
        BY <1>1, <2>5, <3>2 DEF EndsFollow
      <4> QED  BY <2>1, <3>2, <4>1 DEF Ending
    <3> QED  BY <2>3, <3>1, <3>2
  <2>7. pc'[Disp] \in {"attached", "attached_map"} => live'[sid'] = tid' \/ EndsAfter(stream', sid', tid', 0)
    BY <1>1, <2>1, <2>2, <2>4, <2>5 DEF EndsFollow
  <2> QED  BY <1>1, <2>1, <2>5, <2>6, <2>7 DEF EndsFollow
<1>6. ASSUME NEW c \in Calls, Request(c) \/ CallStep(c) PROVE EndsFollow'
  <2>1. /\ UNCHANGED <<stream, live, lagged>> /\ pc'[Disp] = pc[Disp] /\ loc'[Disp] = loc[Disp]
        /\ s2t' = s2t \/ DOMAIN s2t' = {}
    BY <1>1, <1>6, CallsMove, CallsManage, CallsAlone DEF CallMoved, SessionsKept
  <2>2. tid' = tid /\ sid' = sid
    BY <2>1 DEF tid, sid
  <2> HIDE DEF tid, sid
  <2> QED  BY <1>1, <2>1, <2>2 DEF EndsFollow, Ending
<1> QED  BY <1>2, <1>3, <1>4, <1>5, <1>6

-----------------------------------------------------------------------------
(* Every step keeps what is known of the active target *)

Watched == KnownIds /\ ActiveLocked /\ FlagComes /\ ReportComes

SwitchPlaces == {"switch", "switch_flags", "switch_get"}
LockedPlaces == {"detached_promote", "detached_flag", "navigated_url"}

\* Who may use the active id without the lock knows that nobody is in between.
LEMMA NobodyBetween ==
  ASSUME ActiveLocked
  PROVE  /\ CanRead(lockA) => \A c \in Calls : pc[c] # "switch_flags"
         /\ CanWrite(lockA) => pc[Disp] \notin LockedPlaces
         /\ CanWrite(lockA) => CanRead(lockA)
         /\ pc[Disp] \in LockedPlaces => \A c \in Calls : pc[c] # "switch_flags"
         /\ \A c \in Calls : pc[c] = "switch_flags" =>
               pc[Disp] \notin LockedPlaces /\ \A b \in Calls : pc[b] = "switch_flags" => b = c
<1>1. Disp \notin Calls
  BY NamesAssumption DEF Disp
<1>2. \A a, b : Held(a, "write") = Held(b, "write") => a = b
  BY DEF Held
<1>3. \A a : Held(a, "write").mode = "write" /\ Held(a, "read").mode = "read" /\ Held(a, "read").by = a /\ Held(a, "write").by = a
  BY DEF Held
<1> QED  BY <1>1, <1>2, <1>3 DEF ActiveLocked, CanRead, CanWrite, LockedPlaces

\* What the provers need of the types.
LEMMA ActiveTyped ==
  ASSUME IInv
  PROVE  /\ active \in Ids \cup {None} /\ DOMAIN targets \subseteq Ids /\ None \notin Ids /\ Watched
         /\ Disp \notin Calls /\ Disp \in Actors /\ Calls \subseteq Actors
         /\ targets \in [DOMAIN targets -> Records] /\ ManagerOK /\ Handling
BY NamesAssumption DEF IInv, TypeOK, ManagerOK, Watched, Disp, Actors, None

\* A step that leaves the active id, the flags and who uses them alone.
LEMMA ActiveUntouched ==
  ASSUME IInv, active' = active, lockA' = lockA, vanished' = vanished,
         DOMAIN targets' \subseteq Ids, DOMAIN targets \subseteq DOMAIN targets', FlagsKept,
         \A t \in Ids : tab[t] = "gone" => tab'[t] = "gone",
         \A c \in Calls :
            \/ pc'[c] = pc[c] /\ loc'[c] = loc[c]
            \/ pc[c] \notin SwitchPlaces /\ pc'[c] \notin SwitchPlaces
            \/ pc[c] = "idle" /\ pc'[c] = "switch" /\ loc'[c].id \in DOMAIN targets,
         \/ pc'[Disp] = pc[Disp] /\ loc'[Disp] = loc[Disp]
         \/ /\ pc[Disp] \in {"idle", "created", "created_active", "attached", "attached_map"}
            /\ pc'[Disp] \notin LockedPlaces
  PROVE  Watched'
<1>1. active \in Ids \cup {None} /\ DOMAIN targets \subseteq Ids /\ None \notin Ids
      /\ KnownIds /\ ActiveLocked /\ FlagComes /\ ReportComes
  BY ActiveTyped DEF Watched
<1>2. KnownIds'
  BY <1>1 DEF KnownIds, SwitchPlaces
<1>3. ActiveLocked'
  BY <1>1 DEF ActiveLocked, SwitchPlaces, LockedPlaces
<1>4. FlagComes'
  <2> SUFFICES ASSUME active \in DOMAIN targets', tab'[active] # "gone", ~targets'[active].active
               PROVE  \/ \E c \in Calls : pc'[c] = "switch_flags"
                      \/ pc'[Disp] \in {"detached_clear", "detached_read", "detached_flag"}
                      \/ pc'[Disp] \in {"crashed_active", "attached_flag", "detached_map"} /\ tid' = active
    BY DEF FlagComes
  <2>1. active \in DOMAIN targets /\ tab[active] # "gone"
    BY <1>1 DEF KnownIds
  <2>2. targets'[active].active = targets[active].active
    BY <2>1 DEF FlagsKept
  <2>3. \/ \E c \in Calls : pc[c] = "switch_flags"
        \/ pc[Disp] \in {"detached_clear", "detached_read", "detached_flag"}
        \/ pc[Disp] \in {"crashed_active", "attached_flag", "detached_map"} /\ tid = active
    BY <1>1, <2>1, <2>2 DEF FlagComes
  <2> QED  BY <2>3 DEF tid, SwitchPlaces
<1>5. ReportComes'
  <2> SUFFICES ASSUME active # None, active \notin DOMAIN targets'
               PROVE  \/ vanished'
                      \/ pc'[Disp] = "destroyed_active" /\ tid' = active
                      \/ \E c \in Calls : pc'[c] \in {"switch_flags", "switch_get"} /\ loc'[c].id = active
    BY DEF ReportComes
  <2>1. \/ vanished
        \/ pc[Disp] = "destroyed_active" /\ tid = active
        \/ \E c \in Calls : pc[c] \in {"switch_flags", "switch_get"} /\ loc[c].id = active
    BY <1>1 DEF ReportComes
  <2> QED  BY <2>1 DEF tid, SwitchPlaces
<1> QED  BY <1>2, <1>3, <1>4, <1>5 DEF Watched

\* A step that makes another target active, or none, in the critical section.
LEMMA ActiveReplaced ==
  ASSUME IInv, CanWrite(lockA), lockA' = lockA, tab' = tab, DOMAIN targets' = DOMAIN targets,
         \/ active' = None
         \/ active' \in DOMAIN targets /\ targets'[active'].active
         \/ active' \in DOMAIN targets /\ pc'[Disp] = "attached_flag" /\ tid' = active',
         \A c \in Calls : (pc'[c] = pc[c] /\ loc'[c] = loc[c]) \/ pc'[c] \notin SwitchPlaces,
         pc'[Disp] = pc[Disp] \/ pc'[Disp] \notin LockedPlaces
  PROVE  Watched'
<1>1. DOMAIN targets \subseteq Ids /\ None \notin Ids /\ KnownIds /\ ActiveLocked
  BY ActiveTyped DEF Watched
<1>2. pc'[Disp] \notin LockedPlaces /\ \A c \in Calls : pc'[c] # "switch_flags"
  BY <1>1, NobodyBetween DEF SwitchPlaces
<1>3. KnownIds'
  BY <1>1 DEF KnownIds, SwitchPlaces
<1>4. ActiveLocked'
  BY <1>2 DEF ActiveLocked, LockedPlaces
<1>5. FlagComes'
  BY <1>1 DEF FlagComes
<1>6. ReportComes'
  BY <1>1 DEF ReportComes
<1> QED  BY <1>3, <1>4, <1>5, <1>6 DEF Watched

\* A step of the dispatcher that leaves the active id alone, but not its record.
LEMMA RecordsTouched ==
  ASSUME IInv, active' = active, lockA' = lockA, vanished' = vanished, tab' = tab,
         DOMAIN targets' \subseteq Ids,
         \A c \in Calls : pc'[c] = pc[c] /\ loc'[c] = loc[c],
         pc'[Disp] \notin LockedPlaces,
         pc[Disp] \notin {"detached_clear", "detached_read", "detached_flag"},
         \A t \in DOMAIN targets : t \in DOMAIN targets' \/ tab[t] = "gone",
         (active \in DOMAIN targets /\ active \in DOMAIN targets' /\ ~targets'[active].active) =>
            \/ /\ ~targets[active].active
               /\ ~(pc[Disp] \in {"crashed_active", "attached_flag", "detached_map"} /\ tid = active)
            \/ pc'[Disp] = "detached_clear"
            \/ pc'[Disp] \in {"crashed_active", "attached_flag", "detached_map"} /\ tid' = active,
         (active \in DOMAIN targets /\ active \notin DOMAIN targets') =>
            pc'[Disp] = "destroyed_active" /\ tid' = active,
         ~(pc[Disp] = "destroyed_active" /\ tid = active)
  PROVE  Watched'
<1>1. active \in Ids \cup {None} /\ DOMAIN targets \subseteq Ids /\ None \notin Ids
      /\ KnownIds /\ ActiveLocked /\ FlagComes /\ ReportComes
  BY ActiveTyped DEF Watched
<1> HIDE DEF tid
<1>2. KnownIds'
  BY <1>1 DEF KnownIds
<1>3. ActiveLocked'
  BY <1>1 DEF ActiveLocked, LockedPlaces
<1>4. FlagComes'
  <2> SUFFICES ASSUME active \in DOMAIN targets', tab[active] # "gone", ~targets'[active].active
               PROVE  \/ \E c \in Calls : pc[c] = "switch_flags"
                      \/ pc'[Disp] \in {"detached_clear", "detached_read", "detached_flag"}
                      \/ pc'[Disp] \in {"crashed_active", "attached_flag", "detached_map"} /\ tid' = active
    BY DEF FlagComes
  <2>1. active \in DOMAIN targets
    BY <1>1 DEF KnownIds
  <2> QED  BY <1>1, <2>1 DEF FlagComes
<1>5. ReportComes'
  BY <1>1 DEF ReportComes
<1> QED  BY <1>2, <1>3, <1>4, <1>5 DEF Watched

\* A switch keeps the lock of the active id until the flags are right.
LEMMA SwitchWatched ==
  ASSUME IInv, NEW c \in Calls, SwitchActive(c) \/ SwitchFlags(c) \/ SwitchAnswer(c)
  PROVE  Watched'
<1>1. /\ active \in Ids \cup {None} /\ DOMAIN targets \subseteq Ids /\ None \notin Ids
      /\ Disp \notin Calls /\ Disp \in Actors /\ Calls \subseteq Actors
      /\ targets \in [DOMAIN targets -> Records] /\ ManagerOK
      /\ KnownIds /\ ActiveLocked /\ FlagComes /\ ReportComes
  BY ActiveTyped DEF Watched
<1>2. /\ \A b \in Actors : b # c => pc'[b] = pc[b] /\ loc'[b] = loc[b]
      /\ tab' = tab
  BY CallsMove, CallsAlone DEF CallStep, CallMoved
<1>3. pc'[Disp] = pc[Disp] /\ tid' = tid /\ \A b \in Calls : b # c => pc'[b] = pc[b] /\ loc'[b] = loc[b]
  BY <1>1, <1>2 DEF tid
<1>4. pc \in [Actors -> CallPlaces \cup DispPlaces] /\ loc \in [Actors -> Locals]
  BY DEF IInv, TypeOK, ActorsOK
<1>5. CASE SwitchActive(c)
  <2>1. /\ pc[c] = "switch" /\ CanWrite(lockA) /\ active' = loc[c].id /\ lockA' = Held(c, "write")
        /\ targets' = targets
        /\ pc'[c] = "switch_flags" /\ loc'[c].id = loc[c].id
    BY <1>1, <1>4, <1>5 DEF SwitchActive, Locals
  <2>2. /\ pc[Disp] \notin LockedPlaces /\ \A b \in Calls : pc[b] # "switch_flags"
    BY <1>1, <2>1, NobodyBetween
  <2> HIDE DEF tid
  <2>3. KnownIds'
    BY <1>1, <1>2, <1>3, <2>1 DEF KnownIds
  <2>4. ActiveLocked'
    BY <1>3, <2>1, <2>2 DEF ActiveLocked, LockedPlaces
  <2>5. FlagComes'
    BY <2>1 DEF FlagComes
  <2>6. ReportComes'
    BY <2>1 DEF ReportComes
  <2> QED  BY <2>3, <2>4, <2>5, <2>6 DEF Watched
<1>6. CASE SwitchFlags(c)
  <2>1. /\ pc[c] = "switch_flags" /\ active' = active /\ lockA' = Free /\ loc' = loc
        /\ targets' = Flag(Flag(targets, loc[c].old, FALSE), loc[c].id, TRUE)
        /\ pc'[c] = "switch_get"
    BY <1>1, <1>4, <1>6 DEF SwitchFlags, Goto
  <2>2. DOMAIN targets' = DOMAIN targets /\ (loc[c].id \in DOMAIN targets => targets'[loc[c].id].active = TRUE)
    <3>1. PICK off \in BOOLEAN, on \in BOOLEAN : off = FALSE /\ on = TRUE
      OBVIOUS
    <3>2. targets' = Flag(Flag(targets, loc[c].old, off), loc[c].id, on)
      BY <2>1, <3>1
    <3>3. /\ DOMAIN targets' = DOMAIN targets
          /\ \A t \in DOMAIN targets : t = loc[c].id => targets'[t].active = on
      <4> DEFINE one == Flag(targets, loc[c].old, off)
      <4>1. one \in [DOMAIN one -> Records] /\ DOMAIN one = DOMAIN targets
        BY <1>1, FlagFacts
      <4>2. targets' = Flag(one, loc[c].id, on)
        BY <3>2
      <4> HIDE DEF one
      <4>3. /\ DOMAIN Flag(one, loc[c].id, on) = DOMAIN one
            /\ \A t \in DOMAIN one : Flag(one, loc[c].id, on)[t].active = IF t = loc[c].id THEN on ELSE one[t].active
        BY <4>1, FlagFacts
      <4> QED  BY <4>1, <4>2, <4>3
    <3> QED  BY <3>1, <3>3, Zenon
  <2>3. active = loc[c].id
    BY <1>1, <2>1 DEF ActiveLocked
  <2>4. pc[Disp] \notin LockedPlaces /\ \A b \in Calls : pc[b] = "switch_flags" => b = c
    BY <1>1, <2>1, NobodyBetween
  <2> HIDE DEF tid
  <2>5. KnownIds'
    BY <1>1, <1>2, <1>3, <2>1, <2>2 DEF KnownIds
  <2>6. ActiveLocked'
    BY <1>3, <2>1, <2>4 DEF ActiveLocked, LockedPlaces
  <2>7. FlagComes'
    BY <2>1, <2>2, <2>3 DEF FlagComes
  <2>8. ReportComes'
    BY <2>1, <2>3 DEF ReportComes
  <2> QED  BY <2>5, <2>6, <2>7, <2>8 DEF Watched
<1>7. CASE SwitchAnswer(c)
  <2>1. /\ pc[c] = "switch_get" /\ vanished' = (vanished \/ loc[c].id \notin DOMAIN targets)
        /\ UNCHANGED <<targets, active, lockA>> /\ pc'[c] = "done"
    BY <1>1, <1>4, <1>7 DEF SwitchAnswer, Return, manager, locks
  <2> HIDE DEF tid
  <2>2. KnownIds'
    BY <1>1, <1>2, <1>3, <2>1 DEF KnownIds
  <2>3. ActiveLocked'
    BY <1>1, <1>3, <2>1 DEF ActiveLocked
  <2>4. FlagComes'
    BY <1>1, <1>2, <1>3, <2>1 DEF FlagComes
  <2>5. ReportComes'
    <3> SUFFICES ASSUME active # None, active \notin DOMAIN targets, ~vanished'
                 PROVE  \/ pc'[Disp] = "destroyed_active" /\ tid' = active
                        \/ \E b \in Calls : pc'[b] \in {"switch_flags", "switch_get"} /\ loc'[b].id = active
      BY <2>1 DEF ReportComes
    <3>1. ~vanished /\ loc[c].id \in DOMAIN targets
      BY <2>1, Zenon
    <3>2. \/ pc[Disp] = "destroyed_active" /\ tid = active
          \/ \E b \in Calls : pc[b] \in {"switch_flags", "switch_get"} /\ loc[b].id = active
      BY <1>1, <3>1 DEF ReportComes
    <3> QED  BY <1>3, <2>1, <3>1, <3>2
  <2> QED  BY <2>2, <2>3, <2>4, <2>5 DEF Watched
<1> QED  BY <1>5, <1>6, <1>7

\* So do all requests.
LEMMA CallsWatched ==
  ASSUME IInv, NEW c \in Calls, Request(c) \/ CallStep(c)
  PROVE  Watched'
<1>1. /\ Disp \notin Calls /\ Disp \in Actors /\ Calls \subseteq Actors
      /\ DOMAIN targets \subseteq Ids /\ ManagerOK /\ pc \in [Actors -> CallPlaces \cup DispPlaces]
      /\ loc \in [Actors -> Locals]
  BY ActiveTyped DEF IInv, TypeOK, ActorsOK
<1>2. /\ pc'[Disp] = pc[Disp] /\ loc'[Disp] = loc[Disp]
      /\ \A b \in Calls : b # c => pc'[b] = pc[b] /\ loc'[b] = loc[b]
  BY <1>1, CallsMove DEF CallMoved
<1>3. tab' = tab /\ DOMAIN targets' \subseteq Ids /\ DOMAIN targets \subseteq DOMAIN targets'
  BY CallsAlone, CallsManage DEF SessionsKept, ManagerOK
<1>4. ASSUME active' = active, lockA' = lockA, vanished' = vanished, FlagsKept,
             \/ pc[c] \notin SwitchPlaces /\ pc'[c] \notin SwitchPlaces
             \/ pc[c] = "idle" /\ pc'[c] = "switch" /\ loc'[c].id \in DOMAIN targets
      PROVE  Watched'
  BY <1>2, <1>3, <1>4, ActiveUntouched
<1>5. CASE SwitchTarget(c)
  <2>1. /\ UNCHANGED <<active, lockA, vanished, targets>> /\ pc[c] = "idle"
        /\ \/ pc'[c] = "done"
           \/ pc'[c] = "switch" /\ loc'[c].id \in DOMAIN targets
    BY <1>1, <1>5 DEF SwitchTarget, manager, locks, history, Return, Locals
  <2> QED  BY <1>4, <2>1 DEF FlagsKept, SwitchPlaces
<1>6. CASE SwitchActive(c) \/ SwitchFlags(c) \/ SwitchAnswer(c)
  BY <1>6, SwitchWatched
<1>7. CASE Reconnect(c) \/ Tabs(c) \/ Sync(c) \/ ReconnectMap(c) \/ ReconnectFirst(c) \/ SyncActive(c)
  <2>1. UNCHANGED <<active, lockA, vanished, targets>>
    BY <1>7 DEF Reconnect, Tabs, Sync, ReconnectMap, ReconnectFirst, SyncActive,
                manager, locks, history, Handled
  <2>2. pc[c] \in {"idle", "sync", "reconnect_map", "reconnect_first", "sync_active"}
    BY <1>7 DEF Reconnect, Tabs, Sync, ReconnectMap, ReconnectFirst, SyncActive
  <2>3. pc'[c] \in {"reconnect", "sync", "done", "sync_records", "reconnect_clear", "reconnect_promote", "sync_promote"}
    BY <1>1, <1>7 DEF Reconnect, Tabs, Sync, ReconnectMap, ReconnectFirst, SyncActive, Goto, Return
  <2> QED  BY <1>4, <2>1, <2>2, <2>3 DEF FlagsKept, SwitchPlaces
<1>8. CASE ReconnectRecords(c) \/ SyncRecords(c)
  <2>1. FlagsKept
    BY <1>8, RecordsRenewed
  <2>2. UNCHANGED <<active, lockA, vanished>> /\ pc[c] \in {"reconnect", "sync_records"}
        /\ pc'[c] \in {"reconnect_map", "sync_active"}
    BY <1>1, <1>8 DEF ReconnectRecords, SyncRecords, locks, history, Handled, Goto
  <2> QED  BY <1>4, <2>1, <2>2 DEF SwitchPlaces
<1>9. CASE ReconnectClear(c) \/ ReconnectPromote(c) \/ SyncPromote(c)
  <2>1. CanWrite(lockA) /\ lockA' = lockA /\ pc'[c] \in {"reconnect_first", "done"} /\ s2t' = s2t
    BY <1>1, <1>9 DEF ReconnectClear, ReconnectPromote, SyncPromote, locks, Goto, Return
  <2>2. DOMAIN targets' = DOMAIN targets /\ (active' = None \/ (active' \in DOMAIN targets /\ targets'[active'].active))
    <3>1. CASE ReconnectClear(c)
      BY <3>1 DEF ReconnectClear
    <3>2. CASE ReconnectPromote(c) \/ SyncPromote(c)
      <4>1. PICK t \in DOMAIN targets : active' = t /\ targets' = Flag(targets, t, TRUE)
        BY <3>2 DEF ReconnectPromote, SyncPromote
      <4>2. PICK b \in BOOLEAN : b = TRUE
        OBVIOUS
      <4>3. targets' = Flag(targets, t, b)
        BY <4>1, <4>2
      <4>4. /\ DOMAIN targets' = DOMAIN targets
            /\ \A x \in DOMAIN targets : targets'[x].active = IF x = t THEN b ELSE targets[x].active
        BY <1>1, <2>1, <4>3, FlagKeepsSessions
      <4>5. targets'[t].active
        BY <4>1, <4>2, <4>4
      <4> QED  BY <4>1, <4>4, <4>5
    <3> QED  BY <1>9, <3>1, <3>2
  <2>3. pc'[c] \notin SwitchPlaces
    BY <2>1 DEF SwitchPlaces
  <2> QED  BY <1>2, <1>3, <2>1, <2>2, <2>3, ActiveReplaced
<1> QED  BY <1>5, <1>6, <1>7, <1>8, <1>9 DEF Request, CallStep

\* A handler changes the flags of its own target only, and it sets the others.
LEMMA HandlersFlag ==
  ASSUME IInv, \/ OnTargetCreated \/ OnTargetDestroyed \/ OnTargetCrashed \/ OnAttached \/ OnDetached
               \/ OnAttachedFlag
  PROVE  /\ \A t \in DOMAIN targets : t \in DOMAIN targets' =>
               \/ targets'[t].active = targets[t].active
               \/ t = tid /\ pc[Disp] \in {"crashed", "detached"}
               \/ t = tid /\ targets'[t].active = TRUE
         /\ \A t \in DOMAIN targets : t \in DOMAIN targets' \/ (pc[Disp] = "destroyed" /\ t = tid)
         /\ pc[Disp] = "attached_flag" => \A t \in DOMAIN targets : t = tid => targets'[t].active = TRUE
<1>1. targets \in [DOMAIN targets -> Records] /\ ManagerOK /\ Handling
  BY ActiveTyped
<1>2. \A t \in DOMAIN targets : t \in DOMAIN targets' \/ (pc[Disp] = "destroyed" /\ t = tid)
  BY HandlersRecord DEF Handler, HandlerRecords
<1>3. CASE OnTargetCreated
  <2>1. targets' = Put(targets, tid, NewRecord(loc[Disp].gen)) \/ targets' = targets
    BY <1>3 DEF OnTargetCreated
  <2>2. tid \notin DOMAIN targets \/ targets' = targets
    BY <1>3 DEF OnTargetCreated
  <2>3. \A t \in DOMAIN targets : targets'[t] = targets[t]
    BY <2>1, <2>2 DEF Put
  <2>4. pc[Disp] = "created"
    BY <1>3 DEF OnTargetCreated
  <2> QED  BY <1>2, <2>3, <2>4
<1>4. CASE OnTargetDestroyed
  <2>1. pc[Disp] = "destroyed" /\ targets' = Restrict(targets, DOMAIN targets \ {tid})
    BY <1>4 DEF OnTargetDestroyed, Without
  <2>2. \A x \in DOMAIN targets' : targets'[x] = targets[x]
    BY <1>1, <2>1, RestrictFacts
  <2> QED  BY <1>2, <2>1, <2>2
<1>5. CASE OnTargetCrashed
  <2>1. /\ pc[Disp] = "crashed"
        /\ \E r : targets' = Put(targets, tid, r)
    BY <1>5 DEF OnTargetCrashed
  <2>2. \A x \in DOMAIN targets : x # tid => targets'[x] = targets[x]
    BY <2>1 DEF Put
  <2> QED  BY <1>2, <2>1, <2>2
<1>6. CASE OnAttached
  <2> DEFINE o == IF tid \in DOMAIN targets THEN targets[tid] ELSE NewRecord(gen)
             r == [o EXCEPT !.session = sid, !.cgen = loc[Disp].gen]
  <2>1. pc[Disp] = "attached" /\ targets' = Put(targets, tid, r)
    BY <1>6 DEF OnAttached
  <2>2. tid \in DOMAIN targets => r.active = targets[tid].active
    <3>1. \A q \in Records : [q EXCEPT !.session = sid, !.cgen = loc[Disp].gen].active = q.active
      BY DEF Records
    <3>2. tid \in DOMAIN targets => o = targets[tid] /\ targets[tid] \in Records
      BY <1>1
    <3> QED  BY <3>1, <3>2
  <2> HIDE DEF r
  <2>3. targets'[tid] = r /\ \A x \in DOMAIN targets : x # tid => targets'[x] = targets[x]
    <3>1. /\ Put(targets, tid, r)[tid] = r
          /\ \A x \in DOMAIN targets : x # tid => Put(targets, tid, r)[x] = targets[x]
      BY DEF Put
    <3> QED  BY <2>1, <3>1, Zenon
  <2>4. \A x \in DOMAIN targets : targets'[x].active = targets[x].active
    BY <2>2, <2>3
  <2> QED  BY <1>2, <2>1, <2>4
<1>7. CASE OnDetached
  <2>1. /\ pc[Disp] = "detached"
        /\ targets' = [targets EXCEPT ![tid].session = None, ![tid].active = FALSE] \/ targets' = targets
    BY <1>7 DEF OnDetached
  <2>2. \A x \in DOMAIN targets : x # tid => targets'[x] = targets[x]
    BY <1>1, <2>1
  <2> QED  BY <1>2, <2>1, <2>2
<1>8. CASE OnAttachedFlag
  <2>1. pc[Disp] = "attached_flag" /\ targets' = Flag(targets, tid, TRUE) /\ s2t' = s2t
    BY <1>8 DEF OnAttachedFlag
  <2>2. PICK b \in BOOLEAN : b = TRUE
    OBVIOUS
  <2>3. \A x \in DOMAIN targets : targets'[x].active = IF x = tid THEN b ELSE targets[x].active
    BY <1>1, <2>1, <2>2, FlagKeepsSessions
  <2>4. \A x \in DOMAIN targets : targets'[x].active = IF x = tid THEN TRUE ELSE targets[x].active
    BY <2>2, <2>3
  <2> QED  BY <1>2, <2>1, <2>4
<1> QED  BY <1>3, <1>4, <1>5, <1>6, <1>7, <1>8

\* Replacing the active target because its last session went: the lock is kept
\* or somebody is still to look at the flag.
LEMMA DetachWatched ==
  ASSUME IInv, OnDetachedClear \/ OnDetachedPromote \/ OnDetachedRead \/ OnDetachedFlag
  PROVE  Watched'
<1>1. /\ active \in Ids \cup {None} /\ DOMAIN targets \subseteq Ids /\ None \notin Ids
      /\ targets \in [DOMAIN targets -> Records] /\ ManagerOK
      /\ KnownIds /\ ActiveLocked /\ FlagComes /\ ReportComes
  BY ActiveTyped DEF Watched
<1>2. /\ \A c \in Calls : pc'[c] = pc[c] /\ loc'[c] = loc[c]
      /\ UNCHANGED <<tab, vanished>>
  BY HandlersMove DEF Handler
<1>3. pc \in [Actors -> CallPlaces \cup DispPlaces] /\ Disp \in Actors
  BY DEF IInv, TypeOK, ActorsOK, Actors
<1> HIDE DEF tid
<1>4. CASE OnDetachedClear
  <2>1. /\ CanWrite(lockA) /\ active' = None /\ lockA' = Held(Disp, "write") /\ targets' = targets
        /\ pc'[Disp] = "detached_promote"
    BY <1>3, <1>4 DEF OnDetachedClear, Goto
  <2>2. \A c \in Calls : pc[c] # "switch_flags"
    BY <1>1, <2>1, NobodyBetween
  <2>3. KnownIds'
    BY <1>1, <1>2, <2>1 DEF KnownIds
  <2>4. ActiveLocked'
    BY <1>2, <2>1, <2>2 DEF ActiveLocked
  <2>5. FlagComes' /\ ReportComes'
    BY <1>1, <2>1 DEF FlagComes, ReportComes
  <2> QED  BY <2>3, <2>4, <2>5 DEF Watched
<1>5. CASE OnDetachedPromote
  <2>1. /\ pc[Disp] = "detached_promote" /\ pc'[Disp] = "detached_read" /\ targets' = targets
        /\ active' = None \/ active' \in DOMAIN targets
    BY <1>3, <1>5 DEF OnDetachedPromote, Goto
  <2>2. \A c \in Calls : pc[c] # "switch_flags"
    BY <1>1, <2>1, NobodyBetween DEF LockedPlaces
  <2>3. KnownIds'
    BY <1>1, <1>2, <2>1 DEF KnownIds
  <2>4. ActiveLocked'
    BY <1>2, <2>1, <2>2 DEF ActiveLocked
  <2>5. FlagComes' /\ ReportComes'
    BY <1>1, <2>1 DEF FlagComes, ReportComes
  <2> QED  BY <2>3, <2>4, <2>5 DEF Watched
<1>6. CASE OnDetachedRead
  <2>1. /\ pc[Disp] = "detached_read" /\ CanRead(lockA) /\ UNCHANGED <<targets, active>>
        /\ \/ active = None /\ pc'[Disp] = "idle"
           \/ active # None /\ pc'[Disp] = "detached_flag" /\ lockA' = Held(Disp, "read")
    BY <1>3, <1>6 DEF OnDetachedRead, Goto, Return
  <2>2. \A c \in Calls : pc[c] # "switch_flags"
    BY <1>1, <2>1, NobodyBetween
  <2>3. KnownIds'
    BY <1>1, <1>2, <2>1 DEF KnownIds
  <2>4. ActiveLocked'
    BY <1>2, <2>1, <2>2 DEF ActiveLocked
  <2>5. FlagComes'
    BY <1>1, <2>1 DEF FlagComes
  <2>6. ReportComes'
    BY <1>1, <1>2, <2>1 DEF ReportComes
  <2> QED  BY <2>3, <2>4, <2>5, <2>6 DEF Watched
<1>7. CASE OnDetachedFlag
  <2>1. /\ pc[Disp] = "detached_flag" /\ pc'[Disp] = "idle" /\ active' = active /\ s2t' = s2t
        /\ targets' = Flag(targets, active, TRUE)
    BY <1>3, <1>7 DEF OnDetachedFlag, Return
  <2>2. \A c \in Calls : pc[c] # "switch_flags"
    BY <1>1, <2>1, NobodyBetween DEF LockedPlaces
  <2>3. DOMAIN targets' = DOMAIN targets /\ (active \in DOMAIN targets => targets'[active].active)
    <3>1. PICK b \in BOOLEAN : b = TRUE
      OBVIOUS
    <3>2. /\ DOMAIN targets' = DOMAIN targets
          /\ \A t \in DOMAIN targets : targets'[t].active = IF t = active THEN b ELSE targets[t].active
      BY <1>1, <2>1, <3>1, FlagKeepsSessions
    <3> QED  BY <3>1, <3>2
  <2>4. KnownIds'
    BY <1>1, <1>2, <2>1, <2>3 DEF KnownIds
  <2>5. ActiveLocked'
    BY <1>2, <2>1, <2>2 DEF ActiveLocked
  <2>6. FlagComes'
    BY <2>1, <2>3 DEF FlagComes
  <2>7. ReportComes'
    BY <1>1, <1>2, <2>1, <2>3 DEF ReportComes
  <2> QED  BY <2>4, <2>5, <2>6, <2>7 DEF Watched
<1> QED  BY <1>4, <1>5, <1>6, <1>7

\* A navigation only borrows the lock.
LEMMA NavigationWatched ==
  ASSUME IInv, OnFrameNavigated \/ OnFrameNavigatedUrl
  PROVE  Watched'
<1>1. KnownIds /\ ActiveLocked /\ FlagComes /\ ReportComes
  BY ActiveTyped DEF Watched
<1>2. /\ \A c \in Calls : pc'[c] = pc[c] /\ loc'[c] = loc[c]
      /\ UNCHANGED <<tab, vanished>>
  BY HandlersMove DEF Handler
<1>3. pc \in [Actors -> CallPlaces \cup DispPlaces] /\ Disp \in Actors
  BY DEF IInv, TypeOK, ActorsOK, Actors
<1> HIDE DEF tid
<1>4. /\ UNCHANGED <<targets, active>> /\ pc[Disp] \in {"navigated", "navigated_url"}
      /\ pc[Disp] = "navigated" => CanRead(lockA)
      /\ \/ pc'[Disp] = "idle"
         \/ pc'[Disp] = "navigated_url" /\ active # None /\ lockA' = Held(Disp, "read")
  BY <1>3 DEF OnFrameNavigated, OnFrameNavigatedUrl, Goto, Return
<1>5. \A c \in Calls : pc[c] # "switch_flags"
  BY <1>1, <1>4, NobodyBetween DEF LockedPlaces
<1>6. KnownIds'
  BY <1>1, <1>2, <1>4 DEF KnownIds
<1>7. ActiveLocked'
  BY <1>2, <1>4, <1>5 DEF ActiveLocked
<1>8. FlagComes'
  BY <1>1, <1>2, <1>4 DEF FlagComes
<1>9. ReportComes'
  BY <1>1, <1>2, <1>4 DEF ReportComes
<1> QED  BY <1>6, <1>7, <1>8, <1>9 DEF Watched

\* So do all handlers.
LEMMA HandlersWatched ==
  ASSUME IInv, Handler
  PROVE  Watched'
<1>1. /\ active \in Ids \cup {None} /\ DOMAIN targets \subseteq Ids /\ None \notin Ids /\ Handling /\ ManagerOK
  BY ActiveTyped
<1>2. /\ \A c \in Calls : pc'[c] = pc[c] /\ loc'[c] = loc[c]
      /\ UNCHANGED <<tab, vanished>> /\ <<pc[Disp], pc'[Disp]>> \in Transitions
      /\ pc'[Disp] # "idle" => tid' = tid
  BY HandlersMove DEF tid
<1>3. DOMAIN targets' \subseteq Ids
  BY HandlersRecord DEF HandlerRecords
<1>4. pc \in [Actors -> CallPlaces \cup DispPlaces] /\ Disp \in Actors
  BY DEF IInv, TypeOK, ActorsOK, Actors
<1> HIDE DEF tid, sid
<1>5. ASSUME UNCHANGED <<active, lockA, targets>>,
             pc[Disp] \in {"attached_map", "detached_map", "created_active", "destroyed_active", "crashed_active"},
             (pc[Disp] \in {"detached_map", "crashed_active", "destroyed_active"} /\ tid = active) =>
                pc'[Disp] = "detached_clear"
      PROVE  Watched'
  <2>1. pc'[Disp] \notin LockedPlaces
    BY <1>2, <1>5 DEF Transitions, LockedPlaces
  <2>2. ~(pc[Disp] = "destroyed_active" /\ tid = active)
    BY <1>2, <1>5 DEF Transitions
  <2>3. \A t \in DOMAIN targets : t \in DOMAIN targets' \/ tab[t] = "gone"
    BY <1>5
  <2>4. ~(active \in DOMAIN targets /\ active \notin DOMAIN targets')
    BY <1>5
  <2>5. (active \in DOMAIN targets /\ active \in DOMAIN targets' /\ ~targets'[active].active) =>
            \/ /\ ~targets[active].active
               /\ ~(pc[Disp] \in {"crashed_active", "attached_flag", "detached_map"} /\ tid = active)
            \/ pc'[Disp] = "detached_clear"
    BY <1>5
  <2> QED  BY <1>2, <1>3, <1>5, <2>1, <2>2, <2>3, <2>4, <2>5, RecordsTouched
<1>6. CASE OnTargetCreated \/ OnTargetDestroyed \/ OnTargetCrashed \/ OnAttached \/ OnDetached \/ OnAttachedFlag
  <2>1. /\ UNCHANGED <<active, lockA>>
        /\ pc[Disp] \in {"created", "destroyed", "crashed", "attached", "detached", "attached_flag"}
    BY <1>6 DEF OnTargetCreated, OnTargetDestroyed, OnTargetCrashed, OnAttached, OnDetached, OnAttachedFlag, locks
  <2>2. /\ pc'[Disp] \notin LockedPlaces
        /\ pc[Disp] = "destroyed" => pc'[Disp] = "destroyed_active"
        /\ pc[Disp] = "crashed" => pc'[Disp] = "crashed_active"
        /\ pc[Disp] = "detached" => pc'[Disp] = "detached_map"
    BY <1>2, <2>1 DEF Transitions, LockedPlaces
  <2>3. /\ \A t \in DOMAIN targets : t \in DOMAIN targets' =>
              \/ targets'[t].active = targets[t].active
              \/ t = tid /\ pc[Disp] \in {"crashed", "detached"}
              \/ t = tid /\ targets'[t].active = TRUE
        /\ \A t \in DOMAIN targets : t \in DOMAIN targets' \/ (pc[Disp] = "destroyed" /\ t = tid)
        /\ pc[Disp] = "attached_flag" => \A t \in DOMAIN targets : t = tid => targets'[t].active = TRUE
    BY <1>6, HandlersFlag
  <2>4. \A t \in DOMAIN targets : t \in DOMAIN targets' \/ tab[t] = "gone"
    BY <1>1, <2>3 DEF Handling
  <2>5. (active \in DOMAIN targets /\ active \notin DOMAIN targets') =>
           pc'[Disp] = "destroyed_active" /\ tid' = active
    BY <1>2, <2>2, <2>3
  <2>6. (active \in DOMAIN targets /\ active \in DOMAIN targets' /\ ~targets'[active].active) =>
            \/ /\ ~targets[active].active
               /\ ~(pc[Disp] \in {"crashed_active", "attached_flag", "detached_map"} /\ tid = active)
            \/ pc'[Disp] = "detached_clear"
            \/ pc'[Disp] \in {"crashed_active", "attached_flag", "detached_map"} /\ tid' = active
    BY <1>2, <2>1, <2>2, <2>3
  <2> QED  BY <1>2, <1>3, <2>1, <2>2, <2>4, <2>5, <2>6, RecordsTouched
<1>7. CASE OnAttachedMap \/ OnDetachedMap
  <2>1. /\ UNCHANGED <<active, lockA, targets>> /\ pc[Disp] \in {"attached_map", "detached_map"}
        /\ pc[Disp] = "detached_map" /\ tid = active => pc'[Disp] = "detached_clear"
    BY <1>4, <1>7 DEF OnAttachedMap, OnDetachedMap, Goto, Return, locks
  <2> QED  BY <1>5, <2>1
<1>8. ASSUME CanWrite(lockA), lockA' = lockA, NEW t \in DOMAIN targets, NEW b \in BOOLEAN, b = TRUE,
             active' = t, targets' = Flag(targets, t, b),
             pc'[Disp] = "idle"
      PROVE  Watched'
  <2>1. targets \in [DOMAIN targets -> Records]
    BY <1>1 DEF ManagerOK
  <2>2. /\ DOMAIN Flag(targets, t, b) = DOMAIN targets
        /\ \A x \in DOMAIN targets : Flag(targets, t, b)[x].active = IF x = t THEN b ELSE targets[x].active
    BY <2>1, FlagFacts
  <2>3. DOMAIN targets' = DOMAIN targets /\ active' \in DOMAIN targets /\ targets'[active'].active
    BY <1>8, <2>2
  <2>4. pc'[Disp] \notin LockedPlaces
    BY <1>8 DEF LockedPlaces
  <2> QED  BY <1>2, <1>8, <2>3, <2>4, ActiveReplaced
<1>9. ASSUME CanWrite(lockA), lockA' = lockA, active' = None, targets' = targets, pc'[Disp] = "idle"
      PROVE  Watched'
  <2>1. pc'[Disp] \notin LockedPlaces
    BY <1>9 DEF LockedPlaces
  <2> QED  BY <1>2, <1>9, <2>1, ActiveReplaced
<1>10. PICK b \in BOOLEAN : b = TRUE
  OBVIOUS
<1>11. CASE OnTargetCreatedActive
  <2>1. CanWrite(lockA) /\ lockA' = lockA /\ pc[Disp] = "created_active" /\ pc'[Disp] = "idle"
    BY <1>4, <1>11 DEF OnTargetCreatedActive, Return
  <2>2. CASE active' = tid /\ targets' = Flag(targets, tid, TRUE)
    <3>1. tid \in DOMAIN targets
      BY <1>1, <2>1 DEF Handling
    <3> QED  BY <1>8, <1>10, <2>1, <2>2, <3>1
  <2>3. CASE UNCHANGED <<active, targets>>
    BY <1>5, <2>1, <2>3
  <2> QED  BY <1>11, <2>2, <2>3 DEF OnTargetCreatedActive
<1>12. CASE OnTargetDestroyedActive
  <2>1. CanWrite(lockA) /\ lockA' = lockA /\ pc[Disp] = "destroyed_active" /\ pc'[Disp] = "idle"
    BY <1>4, <1>12 DEF OnTargetDestroyedActive, Return
  <2>2. CASE active # tid /\ UNCHANGED <<active, targets>>
    BY <1>5, <2>1, <2>2
  <2>3. CASE active' = None /\ targets' = targets
    BY <1>9, <2>1, <2>3
  <2>4. ASSUME NEW t \in DOMAIN targets, active' = t, targets' = Flag(targets, t, TRUE) PROVE Watched'
    BY <1>8, <1>10, <2>1, <2>4
  <2> QED  BY <1>12, <2>2, <2>3, <2>4 DEF OnTargetDestroyedActive
<1>13. CASE OnTargetCrashedActive
  <2>1. /\ CanWrite(lockA) /\ lockA' = lockA /\ pc[Disp] = "crashed_active" /\ pc'[Disp] = "idle" /\ targets' = targets
        /\ (active # tid /\ active' = active) \/ active' = None
    BY <1>4, <1>13 DEF OnTargetCrashedActive, Return, locks
  <2> QED  BY <1>5, <1>9, <2>1
<1>14. CASE OnAttachedActive
  <2>1. /\ CanWrite(lockA) /\ lockA' = lockA /\ pc[Disp] = "attached_active" /\ pc'[Disp] = "attached_flag"
        /\ targets' = targets /\ active' = tid
    BY <1>4, <1>14 DEF OnAttachedActive, Goto, locks
  <2>2. tid \in DOMAIN targets /\ tid' = active' /\ pc'[Disp] \notin LockedPlaces
    BY <1>1, <1>2, <2>1 DEF Handling, LockedPlaces
  <2>3. DOMAIN targets' = DOMAIN targets /\ active' \in DOMAIN targets
    BY <2>1, <2>2
  <2> QED  BY <1>2, <2>1, <2>2, <2>3, ActiveReplaced
<1> QED  BY <1>6, <1>7, <1>11, <1>12, <1>13, <1>14, DetachWatched, NavigationWatched DEF Handler

\* So does everything else.
LEMMA OthersWatched ==
  ASSUME IInv, Browser \/ Subscribe \/ Receive
  PROVE  Watched'
<1>1. DOMAIN targets \subseteq Ids
  BY ActiveTyped
<1>2. CASE Browser \/ Subscribe
  <2>1. UNCHANGED <<targets, active, lockA, vanished, pc, loc>>
    BY <1>2, BrowserActs, BrowserLeaves, Subscribing
  <2>2. \A t \in Ids : tab[t] = "gone" => tab'[t] = "gone"
    BY <1>2, BrowserActs, Subscribing DEF BrowserEffect
  <2>3. FlagsKept
    BY <2>1 DEF FlagsKept
  <2> QED  BY <1>1, <2>1, <2>2, <2>3, ActiveUntouched
<1>3. CASE Receive
  <2>1. PICK ev \in Events : Received(ev)
    BY <1>3, Receiving
  <2>2. /\ UNCHANGED <<targets, active, lockA, vanished, tab>>
        /\ \A c \in Calls : pc'[c] = pc[c] /\ loc'[c] = loc[c]
        /\ pc[Disp] = "idle" /\ pc'[Disp] \in {"idle", ev.kind}
    BY <2>1 DEF Received
  <2>3. pc'[Disp] \notin LockedPlaces
    BY <2>2 DEF Events, LockedPlaces
  <2>4. FlagsKept
    BY <2>2 DEF FlagsKept
  <2> QED  BY <1>1, <2>2, <2>3, <2>4, ActiveUntouched
<1> QED  BY <1>2, <1>3

-----------------------------------------------------------------------------
(* The theorems *)

\* A seeded manager is in order.
LEMMA InitIInv ==
  ASSUME Init
  PROVE  IInv
<1>1. /\ MaxGen \in Nat \ {0} /\ MaxEvents \in Nat /\ Capacity \in Nat \ {0} /\ 1 \in 1 .. MaxGen
      /\ 0 \in 0 .. MaxGen /\ 0 \in 0 .. MaxEvents
  BY BoundsAssumption
<1>2. /\ None \notin Ids /\ Disp \in Actors /\ Disp \notin Calls /\ Calls \subseteq Actors /\ open \subseteq Ids
      /\ NoLocals \in Locals /\ NoLocals.id = None
  BY <1>1, NamesAssumption DEF None, Disp, Actors, open, NoLocals, Locals
<1>3. /\ tab \in [Ids -> {"unused", "open"}] /\ s2t = [s \in {} |-> None] /\ gen = 1
      /\ active \in open \/ (active = None /\ open = {})
      /\ lockT = Free /\ lockA = Free /\ subscribed = FALSE /\ lagged = FALSE /\ vanished = FALSE
      /\ stream = << >> /\ emitted = 0 /\ since = [s \in Sessions |-> 0] /\ taken = [s \in Sessions |-> 0]
      /\ live = [s \in Sessions |-> "unused"]
      /\ pc = [a \in Actors |-> "idle"] /\ loc = [a \in Actors |-> NoLocals]
  BY DEF Init
<1>4. /\ DOMAIN targets = open /\ targets \in [open -> Records]
      /\ \A t \in open : targets[t].session = None /\ targets[t].active = (t = active)
  <2> DEFINE r(t) == [NewRecord(1) EXCEPT !.active = (t = active)]
  <2>1. targets = [t \in open |-> r(t)]
    BY DEF Init
  <2>2. NewRecord(1) \in Records /\ NewRecord(1).session = None
    BY <1>1, NewRecords
  <2>3. \A t \in open : r(t) \in Records /\ r(t).session = None /\ r(t).active = (t = active)
    <3> TAKE t \in open
    <3>1. (t = active) \in BOOLEAN
      OBVIOUS
    <3>2. \A b \in BOOLEAN : LET q == [NewRecord(1) EXCEPT !.active = b]
                             IN q \in Records /\ q.session = None /\ q.active = b
      BY <2>2 DEF Records
    <3> QED  BY <3>1, <3>2
  <2> HIDE DEF r
  <2> QED  BY <2>1, <2>3
<1>5. ManagerOK
  <2>1. /\ Free \in [by: Actors \cup {None}, mode: {"free", "write"}]
        /\ Free \in [by: Actors \cup {None}, mode: {"free", "read", "write"}]
    BY DEF Free
  <2> QED  BY <1>1, <1>2, <1>3, <1>4, <2>1 DEF ManagerOK
<1>6. ActorsOK
  BY <1>2, <1>3 DEF ActorsOK, CallPlaces, DispPlaces
<1>7. BrowserOK
  <2>1. stream \in Seq(Events) /\ Len(stream) = 0
    BY <1>3
  <2>2. Len(stream) <= Capacity
    BY <1>1, <2>1
  <2> QED  BY <1>1, <1>3, <2>1, <2>2 DEF BrowserOK
<1>8. pc[Disp] = "idle" /\ \A c \in Calls : pc[c] = "idle"
  BY <1>2, <1>3
<1>9. Handling /\ GenerationsRead
  BY <1>8 DEF Handling, GenerationsRead
<1>10. Streaming /\ EndsFollow
  BY <1>3, <1>8 DEF Streaming, EndsFollow
<1>11. SessionsDated
  BY <1>3, <1>4, <1>8 DEF SessionsDated
<1>12. KnownIds /\ ActiveLocked /\ ReportComes
  BY <1>3, <1>4, <1>8 DEF KnownIds, ActiveLocked, ReportComes
<1>13. FlagComes
  BY <1>2, <1>3, <1>4 DEF FlagComes
<1> QED  BY <1>5, <1>6, <1>7, <1>9, <1>10, <1>11, <1>12, <1>13 DEF IInv, TypeOK

\* Every step keeps the invariant.
LEMMA StepIInv ==
  ASSUME IInv, [Next]_vars
  PROVE  IInv'
<1>1. CASE Browser \/ Subscribe \/ Receive \/ Handler \/ \E c \in Calls : Request(c) \/ CallStep(c)
  <2>1. TypeOK' /\ Handling' /\ Streaming' /\ GenerationsRead'
    BY <1>1, TypesKept, HandlingKept, StreamingKept, GenerationsKept
  <2>2. SessionsDated' /\ EndsFollow'
    BY <1>1, SessionsStayDated, EndsStillFollow
  <2>3. Watched'
    BY <1>1, OthersWatched, HandlersWatched, CallsWatched
  <2> QED  BY <2>1, <2>2, <2>3 DEF IInv, Watched
<1>2. CASE UNCHANGED vars
  <2>1. UNCHANGED <<targets, s2t, active, gen, lockT, lockA, pc, loc, stream, subscribed, tab, live,
                    emitted, lagged, vanished, since, taken>>
    BY <1>2 DEF vars, manager, locks, actors, browser, history
  <2>2. tid' = tid /\ sid' = sid
    BY <2>1 DEF tid, sid
  <2>3. TypeOK'
    BY <2>1 DEF IInv, TypeOK, ManagerOK, ActorsOK, BrowserOK, open
  <2> HIDE DEF tid, sid
  <2>4. Handling' /\ Streaming' /\ GenerationsRead' /\ SessionsDated'
    BY <2>1, <2>2 DEF IInv, Handling, Streaming, EventOK, GenerationsRead, SessionsDated
  <2>5. KnownIds' /\ ActiveLocked' /\ FlagComes' /\ ReportComes'
    BY <2>1, <2>2 DEF IInv, KnownIds, ActiveLocked, FlagComes, ReportComes
  <2>6. EndsFollow'
    BY <2>1, <2>2 DEF IInv, EndsFollow, Ending
  <2> QED  BY <2>3, <2>4, <2>5, <2>6 DEF IInv
<1> QED  BY <1>1, <1>2 DEF Next, Dispatch, Handler

\* The invariant holds in every state of the manager, its callers and the browser.
THEOREM Invariance == Spec => []IInv
<1>1. Init => IInv
  BY InitIInv
<1>2. IInv /\ [Next]_vars => IInv'
  BY StepIInv
<1> QED  BY <1>1, <1>2, PTL DEF Spec

\* Every variable has its type, whatever the order of events and requests.
THEOREM TypeCorrect == Spec => []TypeOK
<1>1. IInv => TypeOK
  BY DEF IInv
<1> QED  BY <1>1, Invariance, PTL

\* check_session_id accepts a session that the browser attached before the last
\* reconnect only if its attach was taken up after the generation was bumped (I12).
THEOREM OldSessionsAreRejected == Spec => []OldSessionRejected
<1>1. IInv => OldSessionRejected
  <2> SUFFICES ASSUME IInv, NEW s \in Sessions, Accepts(s) PROVE since[s] = gen \/ TakenUpLate(s)
    BY DEF OldSessionRejected
  <2>1. PICK t \in DOMAIN targets : targets[t].session = s /\ targets[t].cgen = gen
    BY DEF Accepts
  <2>2. /\ s # None /\ taken[s] \in 0 .. MaxGen /\ since[s] \in 0 .. MaxGen /\ gen \in 1 .. MaxGen /\ MaxGen \in Nat
    BY NamesAssumption, BoundsAssumption DEF IInv, TypeOK, ManagerOK, BrowserOK, None
  <2>3. gen <= taken[s] /\ taken[s] <= gen /\ since[s] <= gen
    BY <2>1, <2>2 DEF IInv, SessionsDated
  <2>4. taken[s] = gen /\ (since[s] = gen \/ since[s] < gen)
    BY <2>2, <2>3
  <2> QED  BY <2>4 DEF TakenUpLate
<1> QED  BY <1>1, Invariance, PTL

\* A session that check_session_id accepts is attached in the browser, or its
\* end is on its way to the dispatcher, unless the full channel dropped events.
THEOREM AcceptedSessionsAreLive == Spec => []AcceptedSessionIsLive
<1>1. IInv => AcceptedSessionIsLive
  <2> SUFFICES ASSUME IInv, NEW s \in Sessions, Accepts(s), ~lagged
               PROVE  \/ live[s] = s2t[s]
                      \/ \E i \in 1 .. Len(stream) : Ends(stream[i], s, s2t[s])
                      \/ pc[Disp] \in {"detached", "detached_map"} /\ sid = s
                      \/ pc[Disp] \in {"destroyed", "destroyed_active"} /\ tid = s2t[s]
    BY DEF AcceptedSessionIsLive
  <2>1. s \in DOMAIN s2t
    BY DEF Accepts
  <2>3. live[s] = s2t[s] \/ Ending(s, s2t[s])
    BY <2>1 DEF IInv, EndsFollow
  <2>4. CASE EndsAfter(stream, s, s2t[s], 0)
    <3>1. PICK j \in 0 + 1 .. Len(stream) : Ends(stream[j], s, s2t[s])
      BY <2>4 DEF EndsAfter
    <3>2. 0 + 1 .. Len(stream) = 1 .. Len(stream)
      OBVIOUS
    <3> QED  BY <3>1, <3>2
  <2> QED  BY <2>3, <2>4 DEF Ending
<1> QED  BY <1>1, Invariance, PTL

\* Between operations the active target carries the active flag, whichever path
\* made it active: switch_target, the handlers of the dispatcher, a reconnect or
\* the first tabs.
THEOREM ActiveTargetIsFlagged == Spec => []ActiveIsFlagged
<1>1. IInv => ActiveIsFlagged
  <2> SUFFICES ASSUME IInv, Quiet, active \in DOMAIN targets \cap open, ~targets[active].active PROVE FALSE
    BY DEF ActiveIsFlagged
  <2>1. tab[active] # "gone"
    BY DEF open
  <2>2. pc[Disp] \in {"idle", "done"} /\ \A c \in Calls : pc[c] \in {"idle", "done"}
    BY DEF Quiet, Busy, Actors
  <2> QED  BY <2>1, <2>2 DEF IInv, FlagComes
<1> QED  BY <1>1, Invariance, PTL

\* The active id outlives its record only if a switch that lost the race with
\* targetDestroyed has told its caller.
THEOREM DanglingIdIsReported == Spec => []DanglingIsReported
<1>1. IInv => DanglingIsReported
  <2> SUFFICES ASSUME IInv, Quiet, active # None, active \notin DOMAIN targets PROVE vanished
    BY DEF DanglingIsReported
  <2>1. pc[Disp] \in {"idle", "done"} /\ \A c \in Calls : pc[c] \in {"idle", "done"}
    BY DEF Quiet, Busy, Actors
  <2> QED  BY <2>1 DEF IInv, ReportComes
<1> QED  BY <1>1, Invariance, PTL

-----------------------------------------------------------------------------
(* The locks.  The deadlock freedom that OnlyInversionBlocks asks for, with   *)
(* what each place waits for written out instead of ENABLED.                  *)

\* Where an actor is between two critical sections with a lock in its hands.
KeepsT == {"created_active", "destroyed_active", "reconnect_promote", "sync_active", "sync_promote"}
KeepsA == {"switch_flags", "detached_promote", "detached_flag", "navigated_url"}

\* The places whose next step asks for the records, for the active id, and for
\* the active id to read it only.
AsksT == {"created", "destroyed", "crashed", "attached", "attached_flag", "detached",
          "detached_promote", "detached_flag", "navigated_url", "switch_flags", "switch_get",
          "reconnect", "reconnect_first", "sync_records"}
AsksA == {"created_active", "destroyed_active", "crashed_active", "attached_active",
          "detached_clear", "switch", "reconnect_clear", "reconnect_promote", "sync_promote"}
ReadsA == {"attached_map", "detached_map", "detached_read", "navigated", "sync_active"}

Waits(a) ==
    \/ pc[a] \in AsksT /\ ~CanWrite(lockT)
    \/ pc[a] \in AsksA /\ ~CanWrite(lockA)
    \/ pc[a] \in ReadsA /\ ~CanRead(lockA)

\* A lock that is taken is in the hands of the one actor that is at a place with
\* it, and every other actor is at a place without.
LocksOwned ==
    /\ lockT.mode # "free" => lockT.by \in Actors /\ pc[lockT.by] \in KeepsT
    /\ lockA.mode # "free" => lockA.by \in Actors /\ pc[lockA.by] \in KeepsA
    /\ \A a \in Actors : pc[a] \in KeepsT => lockT.by = a /\ lockT.mode # "free"
    /\ \A a \in Actors : pc[a] \in KeepsA => lockA.by = a /\ lockA.mode # "free"

\* When nobody inside the manager can go on, two of its actors hold one lock each
\* and want the other.
OnlyInversionWaits ==
    (~Quiet /\ \A a \in Actors : Busy(a) => Waits(a)) => Inversion

\* What an actor that moves from one place to another does to the locks.
KeepsLocks(a, l) ==
    /\ lockT' = lockT /\ lockA' = lockA
    /\ pc[a] \notin KeepsA /\ l \notin KeepsA /\ (pc[a] \in KeepsT <=> l \in KeepsT)
TakesT(a, l) ==
    /\ lockT' = Held(a, "write") /\ lockA' = lockA /\ CanWrite(lockT)
    /\ l \in KeepsT /\ pc[a] \notin KeepsA
DropsT(a, l) ==
    /\ lockT' = Free /\ lockA' = lockA
    /\ pc[a] \in KeepsT /\ l \notin KeepsT \cup KeepsA
TakesA(a, l) ==
    /\ lockT' = lockT /\ l \in KeepsA /\ pc[a] \notin KeepsT \cup KeepsA
    /\ \/ lockA' = Held(a, "write") /\ CanWrite(lockA)
       \/ a = Disp /\ lockA' = Held(a, "read") /\ CanRead(lockA)
DropsA(a, l) ==
    /\ lockT' = lockT /\ lockA' = Free
    /\ pc[a] \in KeepsA /\ l \notin KeepsT \cup KeepsA

LocksMove(a, l) ==
    KeepsLocks(a, l) \/ TakesT(a, l) \/ DropsT(a, l) \/ TakesA(a, l) \/ DropsA(a, l)

\* A lock that is taken or dropped with its place stays with its place.  Only the
\* dispatcher keeps the active id to read it, so it never shares the lock.
LEMMA LocksStayOwned ==
  ASSUME IInv, LocksOwned, NEW a \in Actors, NEW l, pc' = [pc EXCEPT ![a] = l], LocksMove(a, l)
  PROVE  LocksOwned'
<1>1. pc'[a] = l /\ \A b \in Actors : b # a => pc'[b] = pc[b]
  BY DEF IInv, TypeOK, ActorsOK
<1>2. KeepsT \cap KeepsA = {}
  BY DEF KeepsT, KeepsA
<1>3. /\ Free.mode = "free" /\ "read" # "free" /\ "write" # "free"
      /\ \A m : Held(a, m).by = a /\ Held(a, m).mode = m
  BY DEF Free, Held
<1>4. lockA.mode \in {"free", "read", "write"}
  BY DEF IInv, TypeOK, ManagerOK
<1>5. CASE KeepsLocks(a, l)
  BY <1>1, <1>5 DEF KeepsLocks, LocksOwned
<1>6. CASE TakesT(a, l)
  BY <1>1, <1>2, <1>3, <1>6 DEF TakesT, LocksOwned, CanWrite
<1>7. CASE DropsT(a, l)
  BY <1>1, <1>2, <1>3, <1>7 DEF DropsT, LocksOwned
<1>8. CASE TakesA(a, l)
  <2>1. lockA.mode = "free"
    <3> SUFFICES ASSUME a = Disp, lockA.mode = "read" PROVE FALSE
      BY <1>4, <1>8 DEF TakesA, CanRead, CanWrite
    <3>1. lockA.by \in Actors /\ pc[lockA.by] \in KeepsA /\ pc[Disp] \notin KeepsA
      BY <1>8 DEF LocksOwned, TakesA
    <3>2. lockA.by \in Calls /\ pc[lockA.by] = "switch_flags"
      BY <3>1 DEF Actors, KeepsA, IInv, TypeOK, ActorsOK, CallPlaces
    <3>3. \A c \in Calls : pc[c] = "switch_flags" => lockA = Held(c, "write")
      BY DEF IInv, ActiveLocked
    <3>4. lockA.mode = "write"
      BY <3>2, <3>3 DEF Held
    <3> QED  BY <3>4
  <2> QED  BY <1>1, <1>2, <1>3, <1>8, <2>1 DEF TakesA, LocksOwned
<1>9. CASE DropsA(a, l)
  BY <1>1, <1>2, <1>3, <1>9 DEF DropsA, LocksOwned
<1> QED  BY <1>5, <1>6, <1>7, <1>8, <1>9 DEF LocksMove

\* A request takes and drops the locks with its places.
LEMMA CallsMoveLocks ==
  ASSUME IInv, NEW c \in Calls, Request(c) \/ CallStep(c)
  PROVE  \E l : pc' = [pc EXCEPT ![c] = l] /\ LocksMove(c, l)
<1> USE DEF LocksMove, KeepsT, KeepsA, Goto, Return
<1>1. CASE SwitchTarget(c) \/ Tabs(c)
  BY <1>1 DEF SwitchTarget, Tabs, KeepsLocks, locks
<1>2. CASE Reconnect(c) \/ ReconnectRecords(c) \/ ReconnectMap(c) \/ ReconnectClear(c) \/ Sync(c) \/ SwitchAnswer(c)
  BY <1>2 DEF Reconnect, ReconnectRecords, ReconnectMap, ReconnectClear, Sync, SwitchAnswer, KeepsLocks, locks
<1>3. CASE SwitchActive(c)
  BY <1>3 DEF SwitchActive, TakesA
<1>4. CASE SwitchFlags(c)
  <2>1. pc' = [pc EXCEPT ![c] = "switch_get"] /\ DropsA(c, "switch_get")
    BY <1>4 DEF SwitchFlags, DropsA
  <2> QED  BY <2>1
<1>5. CASE ReconnectFirst(c)
  BY <1>5 DEF ReconnectFirst, TakesT, KeepsLocks
<1>6. CASE ReconnectPromote(c) \/ SyncPromote(c)
  <2>1. pc' = [pc EXCEPT ![c] = "done"] /\ DropsT(c, "done")
    BY <1>6 DEF ReconnectPromote, SyncPromote, DropsT
  <2> QED  BY <2>1
<1>7. CASE SyncRecords(c)
  BY <1>7 DEF SyncRecords, TakesT
<1>8. CASE SyncActive(c)
  <2>1. \/ pc' = [pc EXCEPT ![c] = "done"] /\ DropsT(c, "done")
        \/ pc' = [pc EXCEPT ![c] = "sync_promote"] /\ KeepsLocks(c, "sync_promote")
    BY <1>8 DEF SyncActive, DropsT, KeepsLocks
  <2> QED  BY <2>1
<1> QED  BY <1>1, <1>2, <1>3, <1>4, <1>5, <1>6, <1>7, <1>8 DEF Request, CallStep

\* So does the dispatcher.
LEMMA HandlersMoveLocks ==
  ASSUME IInv, Handler
  PROVE  \E l : pc' = [pc EXCEPT ![Disp] = l] /\ LocksMove(Disp, l)
<1> USE DEF LocksMove, KeepsT, KeepsA, Goto, Return
<1>1. CASE OnTargetCreated \/ OnTargetDestroyed
  BY <1>1 DEF OnTargetCreated, OnTargetDestroyed, TakesT
<1>2. CASE OnTargetCreatedActive \/ OnTargetDestroyedActive
  <2>1. pc' = [pc EXCEPT ![Disp] = "idle"] /\ DropsT(Disp, "idle")
    BY <1>2 DEF OnTargetCreatedActive, OnTargetDestroyedActive, DropsT
  <2> QED  BY <2>1
<1>3. CASE OnTargetCrashed \/ OnTargetCrashedActive \/ OnAttached \/ OnAttachedActive \/ OnAttachedFlag
  BY <1>3 DEF OnTargetCrashed, OnTargetCrashedActive, OnAttached, OnAttachedActive, OnAttachedFlag,
              KeepsLocks, locks
<1>4. CASE OnAttachedMap \/ OnDetached \/ OnDetachedMap
  BY <1>4 DEF OnAttachedMap, OnDetached, OnDetachedMap, KeepsLocks, locks
<1>5. CASE OnDetachedClear
  BY <1>5 DEF OnDetachedClear, TakesA
<1>6. CASE OnDetachedPromote \/ OnDetachedFlag \/ OnFrameNavigatedUrl
  <2>1. \/ pc' = [pc EXCEPT ![Disp] = "detached_read"] /\ DropsA(Disp, "detached_read")
        \/ pc' = [pc EXCEPT ![Disp] = "idle"] /\ DropsA(Disp, "idle")
    BY <1>6 DEF OnDetachedPromote, OnDetachedFlag, OnFrameNavigatedUrl, DropsA
  <2> QED  BY <2>1
<1>7. CASE OnDetachedRead \/ OnFrameNavigated
  BY <1>7 DEF OnDetachedRead, OnFrameNavigated, TakesA, KeepsLocks
<1> QED  BY <1>1, <1>2, <1>3, <1>4, <1>5, <1>6, <1>7 DEF Handler

\* Every lock that is held has its one holder, at a place that will drop it.
THEOREM LocksAreOwned == Spec => []LocksOwned
<1>1. Init => LocksOwned
  <2> SUFFICES ASSUME Init PROVE LocksOwned
    OBVIOUS
  <2>1. lockT.mode = "free" /\ lockA.mode = "free" /\ \A a \in Actors : pc[a] = "idle"
    BY DEF Init, Free
  <2> QED  BY <2>1 DEF LocksOwned, KeepsT, KeepsA
<1>2. IInv /\ LocksOwned /\ [Next]_vars => LocksOwned'
  <2> SUFFICES ASSUME IInv, LocksOwned, [Next]_vars PROVE LocksOwned'
    OBVIOUS
  <2>1. Disp \in Actors /\ Calls \subseteq Actors
    BY DEF Actors
  <2>2. CASE Browser \/ Subscribe \/ UNCHANGED vars
    <3>1. UNCHANGED <<lockT, lockA, pc>>
      <4>1. CASE Browser
        BY <4>1, BrowserActs, BrowserLeaves
      <4>2. CASE Subscribe
        BY <4>2, Subscribing
      <4>3. CASE UNCHANGED vars
        BY <4>3 DEF vars, locks, actors
      <4> QED  BY <2>2, <4>1, <4>2, <4>3
    <3> QED  BY <3>1 DEF LocksOwned
  <2>3. CASE Receive
    <3>1. PICK ev \in Events : Received(ev)
      BY <2>3, Receiving
    <3>2. /\ lockT' = lockT /\ lockA' = lockA
          /\ \A c \in Calls : pc'[c] = pc[c]
          /\ pc[Disp] = "idle" /\ pc'[Disp] \in {"idle", ev.kind}
      BY <3>1, <2>3 DEF Received, Receive, locks
    <3>3. pc'[Disp] \notin KeepsT \cup KeepsA /\ pc[Disp] \notin KeepsT \cup KeepsA
      BY <3>2 DEF Events, KeepsT, KeepsA
    <3> QED  BY <3>2, <3>3 DEF LocksOwned, Actors
  <2>4. CASE Handler
    BY <2>1, <2>4, HandlersMoveLocks, LocksStayOwned
  <2>5. ASSUME NEW c \in Calls, Request(c) \/ CallStep(c) PROVE LocksOwned'
    BY <2>1, <2>5, CallsMoveLocks, LocksStayOwned
  <2> QED  BY <2>2, <2>3, <2>4, <2>5 DEF Next, Dispatch, Handler
<1> QED  BY <1>1, <1>2, Invariance, PTL DEF Spec

\* The dispatcher and any number of requests inside the target manager never all
\* wait for its locks, but for the inversion of switch_target, on_detached and
\* on_frame_navigated against the rest: whoever holds a lock waits at most for
\* the other one, and its holder for the first.
THEOREM NothingElseWaits == Spec => []OnlyInversionWaits
<1>1. IInv /\ LocksOwned => OnlyInversionWaits
  <2> SUFFICES ASSUME IInv, LocksOwned, NEW a \in Actors, Busy(a),
                      \A b \in Actors : Busy(b) => Waits(b)
               PROVE  Inversion
    BY DEF OnlyInversionWaits, Quiet
  <2>1. \A b \in Actors : pc[b] \in KeepsT => lockA.mode # "free"
    <3> TAKE b \in Actors
    <3> HAVE pc[b] \in KeepsT
    <3>1. Waits(b) /\ pc[b] \notin AsksT
      BY DEF Busy, KeepsT, AsksT
    <3> QED  BY <3>1 DEF Waits, CanRead, CanWrite
  <2>2. \A b \in Actors : pc[b] \in KeepsA => lockT.mode # "free"
    <3> TAKE b \in Actors
    <3> HAVE pc[b] \in KeepsA
    <3>1. Waits(b) /\ pc[b] \notin AsksA \cup ReadsA
      BY DEF Busy, KeepsA, AsksA, ReadsA
    <3> QED  BY <3>1 DEF Waits, CanWrite
  <2>3. lockT.mode # "free" \/ lockA.mode # "free"
    BY DEF Waits, CanRead, CanWrite
  <2>4. lockT.mode # "free" /\ lockA.mode # "free"
    BY <2>1, <2>2, <2>3 DEF LocksOwned
  <2>5. /\ lockT.mode = "write"
        /\ lockT.by \in Actors /\ pc[lockT.by] \in KeepsT
        /\ lockA.by \in Actors /\ pc[lockA.by] \in KeepsA
    BY <2>4 DEF LocksOwned, IInv, TypeOK, ManagerOK
  <2> QED  BY <2>4, <2>5 DEF Inversion, KeepsT, KeepsA
<1> QED  BY <1>1, Invariance, LocksAreOwned, PTL

=============================================================================
