----------------------------- MODULE WaitProofs -----------------------------
(***************************************************************************)
(* Proofs about Live and Wait for any page, any number of frames, events   *)
(* and reconnects, and any capacity of the broadcast channel: type         *)
(* correctness, that a reference is stale once the dispatcher has applied  *)
(* what changed its element and stays so, that the browser's silence about *)
(* a document is excused, and that a waiter's signal is not lost.          *)
(***************************************************************************)
EXTENDS Wait, SequenceTheorems, TLAPS

-----------------------------------------------------------------------------
(* The inductive invariant *)

FrameKinds == {"frameAttached", "frameNavigated", "frameDetached"}

\* The events that bump the version of the whole page.
BumpsDom(ev) ==
    ev.kind \in {"documentUpdated", "mutated"} \/ (ev.kind = "frameNavigated" /\ ev.f = Main)

\* An event that concerns the reference bumps a version the reference has.
Concerns(ev) ==
    ev.owed => ref.taken /\ (BumpsDom(ev) \/ (ev.kind \in FrameKinds /\ ev.f = ref.f))

\* Versions only grow, but for the frames' in a reconnect, which has made every
\* older reference stale before.
VersionsGrow ==
    /\ \A f \in Frames : fv[f] <= ftv
    /\ ref.taken => ref.dom <= ds.dom /\ ref.fv <= ftv
    /\ (ref.taken /\ ~ref.odd /\ reconnect.at = "frames") => ref.dom < ds.dom
    /\ ref.told => ref.taken

EventsOwed ==
    /\ \A i \in 1..Len(stream) : Concerns(stream[i])
    /\ Concerns(current)
    /\ (current.owed /\ BumpsDom(current)) => ref.dom < ds.dom

\* Without the DOM domain no document is ever fetched.
DomDisabled == (setup = "done" /\ "DOM" \notin enabled) => excused

\* Only a wait that is past its subscription has a receiver.
Receiver ==
    /\ w.pc \in {"idle", "check", "subscribe", "probe"} => rx = NoReceiver /\ ~w.signal
    /\ w.signal => w.cond = "dialog"

IInv ==
    /\ TypeOK /\ VersionsGrow /\ EventsOwed /\ ToldIsStale
    /\ DomDisabled /\ SilenceIsExcused
    /\ Receiver /\ SignalNotLost

-----------------------------------------------------------------------------
(* The channel *)

\* A receiver that is full keeps the newest events, in their order.
LEMMA NewestKeeps ==
  ASSUME NEW S, NEW q \in Seq(S)
  PROVE  /\ Over(q) \in 0 .. Len(q)
         /\ Newest(q) \in Seq(S)
         /\ Len(Newest(q)) = Len(q) - Over(q)
         /\ Len(Newest(q)) <= Capacity
         /\ (q # << >>) => Len(Newest(q)) > 0
         /\ \A i \in 1 .. Len(Newest(q)) : Newest(q)[i] = q[i + Over(q)]
<1>1. /\ Len(q) \in Nat /\ Capacity \in Nat \ {0}
      /\ q # << >> => Len(q) > 0
      /\ \A i \in 1 .. Len(q) : q[i] \in S
  BY LiveAssumption, EmptySeq, LenProperties, ElementOfSeq
<1>2. Over(q) \in 0 .. Len(q) /\ Len(q) - Over(q) <= Capacity /\ (Len(q) > 0 => Len(q) - Over(q) > 0)
  BY <1>1 DEF Over
<1>3. \A i \in Over(q) + 1 .. Len(q) : q[i] \in S
  BY <1>1, <1>2
<1>4. /\ SubSeq(q, Over(q) + 1, Len(q)) \in Seq(S)
      /\ Len(SubSeq(q, Over(q) + 1, Len(q))) = IF Over(q) + 1 <= Len(q) THEN Len(q) - (Over(q) + 1) + 1 ELSE 0
      /\ \A i \in 1 .. Len(q) - (Over(q) + 1) + 1 :
             SubSeq(q, Over(q) + 1, Len(q))[i] = q[Over(q) + 1 + i - 1]
  <2> Over(q) + 1 \in Int /\ Len(q) \in Int
    BY <1>1, <1>2
  <2> QED  BY <1>3, SubSeqProperties
<1> QED  BY <1>1, <1>2, <1>4 DEF Newest

\* What is dropped is the beginning.
LEMMA DroppedPrefix ==
  ASSUME NEW S, NEW q \in Seq(S)
  PROVE  /\ Len(SubSeq(q, 1, Over(q))) = Over(q)
         /\ \A i \in 1 .. Over(q) : SubSeq(q, 1, Over(q))[i] = q[i]
<1>1. Over(q) \in 0 .. Len(q) /\ Len(q) \in Nat
  BY NewestKeeps, LenProperties
<1>2. \A i \in 1 .. Over(q) : q[i] \in S
  BY <1>1, ElementOfSeq
<1>3. /\ Len(SubSeq(q, 1, Over(q))) = IF 1 <= Over(q) THEN Over(q) - 1 + 1 ELSE 0
      /\ \A i \in 1 .. Over(q) - 1 + 1 : SubSeq(q, 1, Over(q))[i] = q[1 + i - 1]
  <2> 1 \in Int /\ Over(q) \in Int
    BY <1>1
  <2> QED  BY <1>2, SubSeqProperties
<1> QED  BY <1>1, <1>3

\* No event of the page is lost silently: those dropped excuse what follows.
LEMMA DocumentsKept ==
  ASSUME NEW q \in Seq(Events), Documents(q) # {}
  PROVE  Documents(SubSeq(q, 1, Over(q))) # {} \/ Documents(Newest(q)) # {}
<1>1. PICK i \in 1 .. Len(q) : q[i].kind = "documentUpdated"
  BY DEF Documents
<1>2. Over(q) \in 0 .. Len(q) /\ Len(q) \in Nat
  BY NewestKeeps, LenProperties
<1>3. CASE i <= Over(q)
  <2>1. /\ i \in 1 .. Over(q) /\ Len(SubSeq(q, 1, Over(q))) = Over(q)
        /\ SubSeq(q, 1, Over(q))[i] = q[i]
    BY <1>2, <1>3, DroppedPrefix
  <2> QED  BY <1>1, <2>1 DEF Documents
<1>4. CASE i > Over(q)
  <2>1. /\ i - Over(q) \in 1 .. Len(Newest(q))
        /\ Newest(q)[i - Over(q)] = q[i - Over(q) + Over(q)] /\ i - Over(q) + Over(q) = i
    BY <1>2, <1>4, NewestKeeps
  <2> QED  BY <1>1, <2>1 DEF Documents
<1> QED  BY <1>2, <1>3, <1>4

\* What the browser sends bumps a version of every reference it concerns, and a
\* new document is announced unless an older announcement is dropped.
LEMMA Sending ==
  ASSUME IInv, NEW evs \in Seq(Events), NEW C, Send(evs, C),
         \A i \in 1 .. Len(evs), f \in C :
            BumpsDom(evs[i]) \/ (evs[i].kind \in FrameKinds /\ evs[i].f = f)
  PROVE  /\ stream' \in Seq(Events) /\ Len(stream') <= Capacity
         /\ excused' \in BOOLEAN /\ (excused => excused')
         /\ \A i \in 1 .. Len(stream)' : Concerns(stream[i])'
         /\ (Documents(stream) # {} \/ Documents(evs) # {}) => (excused' \/ Documents(stream)' # {})
<1> DEFINE owed == ref.taken /\ ref.f \in C
           marked == [i \in 1 .. Len(evs) |-> [evs[i] EXCEPT !.owed = owed]]
           sent == stream \o marked
<1>1. /\ stream \in Seq(Events) /\ Len(stream) \in Nat /\ Len(evs) \in Nat /\ excused \in BOOLEAN
      /\ \A i \in 1 .. Len(evs) : evs[i] \in Events
  BY LenProperties, ElementOfSeq DEF IInv, TypeOK, LiveTypeOK
<1>2. owed \in BOOLEAN
  BY Zenon
<1>3. \A i \in 1 .. Len(evs) :
         /\ marked[i] \in Events /\ marked[i].owed = owed
         /\ marked[i].kind = evs[i].kind /\ marked[i].f = evs[i].f
  BY <1>1, <1>2 DEF Events
<1>4. marked \in Seq(Events) /\ Len(marked) = Len(evs)
  BY <1>1, <1>3
<1> HIDE DEF marked
<1>5. /\ sent \in Seq(Events) /\ Len(sent) = Len(stream) + Len(evs)
      /\ \A i \in 1 .. Len(sent) : sent[i] = IF i <= Len(stream) THEN stream[i] ELSE marked[i - Len(stream)]
  <2>1. /\ sent \in Seq(Events) /\ Len(sent) = Len(stream) + Len(marked)
        /\ \A i \in 1 .. Len(stream) + Len(marked) :
              sent[i] = IF i <= Len(stream) THEN stream[i] ELSE marked[i - Len(stream)]
    BY <1>1, <1>4, ConcatProperties, Zenon
  <2> QED  BY <1>4, <2>1
<1>6. stream' = Newest(sent) /\ excused' = (excused \/ Documents(SubSeq(sent, 1, Over(sent))) # {})
      /\ ref' = ref
  BY DEF Send, marked
<1>7. \A i \in 1 .. Len(sent) : Concerns(sent[i])
  <2> SUFFICES ASSUME NEW i \in 1 .. Len(sent) PROVE Concerns(sent[i])
    OBVIOUS
  <2>1. CASE i <= Len(stream)
    <3>1. sent[i] = stream[i] /\ i \in 1 .. Len(stream)
      BY <1>1, <1>5, <2>1
    <3> QED  BY <3>1 DEF IInv, EventsOwed
  <2>2. CASE i > Len(stream)
    <3>1. sent[i] = marked[i - Len(stream)] /\ i - Len(stream) \in 1 .. Len(evs)
      BY <1>1, <1>5, <2>2
    <3> DEFINE j == i - Len(stream)
    <3>2. ASSUME owed
          PROVE  /\ ref.taken /\ (BumpsDom(evs[j]) \/ (evs[j].kind \in FrameKinds /\ evs[j].f = ref.f))
      BY <3>1, <3>2
    <3>3. marked[j].owed = owed /\ marked[j].kind = evs[j].kind /\ marked[j].f = evs[j].f
      BY <1>3, <3>1
    <3> HIDE DEF owed, j
    <3>4. Concerns(marked[j])
      BY <3>2, <3>3, Zenon DEF Concerns, BumpsDom
    <3> QED  BY <3>1, <3>4 DEF j
  <2> QED  BY <1>1, <1>5, <2>1, <2>2
<1> HIDE DEF sent
<1>8. /\ Newest(sent) \in Seq(Events) /\ Len(Newest(sent)) <= Capacity
      /\ \A i \in 1 .. Len(Newest(sent)) : Concerns(Newest(sent)[i])
  <2>1. /\ Over(sent) \in 0 .. Len(sent) /\ Newest(sent) \in Seq(Events) /\ Len(Newest(sent)) <= Capacity
        /\ Len(Newest(sent)) = Len(sent) - Over(sent) /\ Len(sent) \in Nat
        /\ \A i \in 1 .. Len(Newest(sent)) : Newest(sent)[i] = sent[i + Over(sent)]
    BY <1>5, NewestKeeps, LenProperties
  <2>2. \A i \in 1 .. Len(Newest(sent)) : i + Over(sent) \in 1 .. Len(sent)
    BY <2>1
  <2> QED  BY <1>7, <2>1, <2>2
<1>9. \A i \in 1 .. Len(stream)' : Concerns(stream[i])'
  BY <1>6, <1>8 DEF Concerns
<1>10. ASSUME Documents(stream) # {} \/ Documents(evs) # {}
       PROVE  Documents(sent) # {}
  <2>1. CASE Documents(stream) # {}
    <3>1. PICK i \in 1 .. Len(stream) : stream[i].kind = "documentUpdated"
      BY <2>1 DEF Documents
    <3>2. i \in 1 .. Len(sent) /\ sent[i] = stream[i]
      BY <1>1, <1>5
    <3> QED  BY <3>1, <3>2 DEF Documents
  <2>2. CASE Documents(evs) # {}
    <3>1. PICK i \in 1 .. Len(evs) : evs[i].kind = "documentUpdated"
      BY <2>2 DEF Documents
    <3>2. i + Len(stream) \in 1 .. Len(sent) /\ sent[i + Len(stream)] = marked[i]
      BY <1>1, <1>5
    <3>3. marked[i].kind = "documentUpdated"
      BY <1>3, <3>1
    <3> QED  BY <3>2, <3>3 DEF Documents
  <2> QED  BY <1>10, <2>1, <2>2
<1>11. (Documents(stream) # {} \/ Documents(evs) # {}) => (excused' \/ Documents(stream)' # {})
  <2>1. Documents(stream)' = Documents(Newest(sent))
    BY <1>6 DEF Documents
  <2> QED  BY <1>5, <1>6, <1>10, <2>1, DocumentsKept
<1>12. excused' \in BOOLEAN /\ (excused => excused')
  BY <1>6, Zenon
<1> QED  BY <1>6, <1>8, <1>9, <1>11, <1>12

\* A receiver hears of it too; a signal in it stays there, or it has lagged.
LEMMA Hearing ==
  ASSUME TypeOK, NEW evs \in Seq(Events), NEW C, Send(evs, C)
  PROVE  /\ rx' \in [on: BOOLEAN, q: Seq(Events), lagged: BOOLEAN] /\ Len(rx'.q) <= Capacity
         /\ ~rx.on => rx' = rx
         /\ (rx.lagged \/ \E i \in 1 .. Len(rx.q) : rx.q[i].kind = "dialog") =>
               (rx'.lagged \/ \E i \in 1 .. Len(rx'.q) : rx'.q[i].kind = "dialog")
         /\ rx'.q # rx.q => Len(rx'.q) > 0
<1> DEFINE heard == rx.q \o evs
<1>1. /\ rx \in [on: BOOLEAN, q: Seq(Events), lagged: BOOLEAN] /\ Len(rx.q) <= Capacity
      /\ rx.q \in Seq(Events) /\ rx.lagged \in BOOLEAN
  BY DEF TypeOK, LiveTypeOK
<1>2. Len(rx.q) \in Nat /\ Len(evs) \in Nat
  BY <1>1, LenProperties
<1>3. /\ heard \in Seq(Events) /\ Len(heard) = Len(rx.q) + Len(evs)
      /\ \A i \in 1 .. Len(rx.q) : heard[i] = rx.q[i]
  BY <1>1, <1>2, ConcatProperties
<1>4. rx' = IF rx.on THEN [rx EXCEPT !.q = Newest(heard), !.lagged = @ \/ Over(heard) > 0] ELSE rx
  BY DEF Send
<1> HIDE DEF heard
<1>5. /\ Over(heard) \in 0 .. Len(heard) /\ Newest(heard) \in Seq(Events) /\ Len(Newest(heard)) <= Capacity
      /\ Len(Newest(heard)) = Len(heard) - Over(heard)
      /\ heard # << >> => Len(Newest(heard)) > 0
      /\ \A i \in 1 .. Len(Newest(heard)) : Newest(heard)[i] = heard[i + Over(heard)]
  BY <1>3, NewestKeeps
<1>6. CASE ~rx.on
  BY <1>1, <1>4, <1>6
<1>7. CASE rx.on
  <2>1. (rx.lagged \/ Over(heard) > 0) \in BOOLEAN
    BY Zenon
  <2>2. rx' \in [on: BOOLEAN, q: Seq(Events), lagged: BOOLEAN] /\ rx'.q = Newest(heard)
        /\ rx'.lagged = (rx.lagged \/ Over(heard) > 0)
    BY <1>1, <1>4, <1>5, <1>7, <2>1
  <2>3. ASSUME \E i \in 1 .. Len(rx.q) : rx.q[i].kind = "dialog", ~(Over(heard) > 0)
        PROVE  \E i \in 1 .. Len(rx'.q) : rx'.q[i].kind = "dialog"
    <3>1. PICK i \in 1 .. Len(rx.q) : rx.q[i].kind = "dialog"
      BY <2>3
    <3>2. i \in 1 .. Len(Newest(heard)) /\ Newest(heard)[i] = rx.q[i]
      <4>1. Over(heard) = 0 /\ i \in 1 .. Len(Newest(heard)) /\ i + 0 = i
        BY <1>2, <1>3, <1>5, <2>3
      <4> QED  BY <1>3, <1>5, <4>1
    <3> QED  BY <2>2, <3>1, <3>2
  <2>4. ASSUME rx'.q # rx.q PROVE Len(rx'.q) > 0
    <3>1. CASE heard # << >>
      <4>1. Len(Newest(heard)) > 0
        BY <1>5, <3>1
      <4> QED  BY <2>2, <4>1
    <3>2. CASE heard = << >>
      <4>1. Len(rx.q) = 0 /\ Len(Newest(heard)) = 0
        <5>1. Len(heard) = 0
          BY <3>2, EmptySeq
        <5> QED  BY <1>2, <1>3, <1>5, <5>1
      <4>2. rx.q = << >> /\ Newest(heard) = << >>
        BY <1>1, <1>5, <4>1, EmptySeq
      <4> QED  BY <2>2, <2>4, <4>2
    <3> QED  BY <3>1, <3>2
  <2>5. (rx.lagged \/ \E i \in 1 .. Len(rx.q) : rx.q[i].kind = "dialog") =>
               (rx'.lagged \/ \E i \in 1 .. Len(rx'.q) : rx'.q[i].kind = "dialog")
    BY <2>2, <2>3, Zenon
  <2> QED  BY <1>5, <1>7, <2>2, <2>4, <2>5
<1> QED  BY <1>6, <1>7

-----------------------------------------------------------------------------
(* The browser *)

\* A sequence of at most one event holds no other.
LEMMA AtMostOne ==
  ASSUME NEW S, NEW e \in S, NEW q, q = <<e>> \/ q = << >>
  PROVE  q \in Seq(S) /\ \A i \in 1 .. Len(q) : q[i] = e
<1>1. CASE q = <<e>>
  <2>1. <<e>> \in Seq(S) /\ Len(<<e>>) = 1 /\ <<e>>[1] = e
    OBVIOUS
  <2>2. \A i \in 1 .. 1 : i = 1
    OBVIOUS
  <2> QED  BY <1>1, <2>1, <2>2
<1>2. CASE q = << >>
  <2>1. << >> \in Seq(S) /\ Len(<< >>) = 0
    BY EmptySeq
  <2> QED  BY <1>2, <2>1
<1> QED  BY <1>1, <1>2

\* What the browser does that can concern a reference bumps one of its versions
\* when it is dispatched; a new document is announced if DOM is enabled.
LEMMA PageSends ==
  ASSUME IInv, Browser
  PROVE  /\ doc' \in Nat /\ phase' \in 1 .. 4 /\ attached' \subseteq Children
         /\ \E evs \in Seq(Events), C \in SUBSET Frames :
              /\ Send(evs, C)
              /\ \A i \in 1 .. Len(evs), f \in C :
                    BumpsDom(evs[i]) \/ (evs[i].kind \in FrameKinds /\ evs[i].f = f)
              /\ tracking' = tracking \/ (tracking' = FALSE /\ ("DOM" \in enabled => Documents(evs) # {}))
<1> DEFINE Fits(evs, C) ==
             \A i \in 1 .. Len(evs), f \in C :
                BumpsDom(evs[i]) \/ (evs[i].kind \in FrameKinds /\ evs[i].f = f)
<1>1. doc \in Nat /\ phase \in 1 .. 4 /\ attached \subseteq Children
  BY DEF IInv, TypeOK, LiveTypeOK
<1>2. Main \in Frames /\ Children \subseteq Frames
  BY DEF Frames
<1>3. \A f \in Frames, k \in Kinds : Event(k, f, "") \in Events
  BY DEF Event, Events, Kinds
<1>4. ASSUME NEW f \in Frames, NEW k \in Kinds, NEW d \in Domains
      PROVE  /\ If(d, <<Event(k, f, "")>>) \in Seq(Events)
             /\ \A i \in 1 .. Len(If(d, <<Event(k, f, "")>>)) :
                   If(d, <<Event(k, f, "")>>)[i].kind = k /\ If(d, <<Event(k, f, "")>>)[i].f = f
  <2>1. Event(k, f, "").kind = k /\ Event(k, f, "").f = f /\ Event(k, f, "") \in Events
    BY <1>3 DEF Event
  <2> HIDE DEF Event
  <2>2. /\ If(d, <<Event(k, f, "")>>) \in Seq(Events)
        /\ \A i \in 1 .. Len(If(d, <<Event(k, f, "")>>)) : If(d, <<Event(k, f, "")>>)[i] = Event(k, f, "")
    <3>1. If(d, <<Event(k, f, "")>>) = <<Event(k, f, "")>> \/ If(d, <<Event(k, f, "")>>) = << >>
      BY Zenon DEF If
    <3> QED  BY <2>1, <3>1, AtMostOne, Zenon
  <2> QED  BY <2>1, <2>2, Zenon
<1>5. CASE PageMutates
  <2> DEFINE evs == IF tracking THEN <<Event("mutated", Main, "")>> ELSE <<>>
  <2>1. Event("mutated", Main, "") \in Events /\ Event("mutated", Main, "").kind = "mutated"
    BY <1>2, <1>3 DEF Kinds, Event
  <2>2. evs \in Seq(Events) /\ \A i \in 1 .. Len(evs) : evs[i] = Event("mutated", Main, "")
    <3>1. evs = <<Event("mutated", Main, "")>> \/ evs = << >>
      OBVIOUS
    <3> HIDE DEF evs
    <3> QED  BY <2>1, <3>1, AtMostOne, Zenon
  <2>3. Fits(evs, Frames)
    BY <2>1, <2>2, Zenon DEF BumpsDom
  <2> QED  BY <1>1, <1>5, <2>2, <2>3 DEF PageMutates
<1>6. CASE PageNavigates
  <2> DEFINE nav == If("Page", <<Event("frameNavigated", Main, "")>>)
             upd == If("DOM", <<Event("documentUpdated", Main, "")>>)
             evs == nav \o upd
  <2>1. /\ nav \in Seq(Events) /\ \A i \in 1 .. Len(nav) : nav[i].kind = "frameNavigated" /\ nav[i].f = Main
        /\ upd \in Seq(Events) /\ \A i \in 1 .. Len(upd) : upd[i].kind = "documentUpdated"
    <3>1. /\ "frameNavigated" \in Kinds /\ "documentUpdated" \in Kinds
          /\ "Page" \in Domains /\ "DOM" \in Domains
      BY DEF Kinds, Domains
    <3>2. Main \in Frames
      BY <1>2
    <3>3. \A k \in Kinds, d \in Domains :
             /\ If(d, <<Event(k, Main, "")>>) \in Seq(Events)
             /\ \A i \in 1 .. Len(If(d, <<Event(k, Main, "")>>)) :
                   If(d, <<Event(k, Main, "")>>)[i].kind = k /\ If(d, <<Event(k, Main, "")>>)[i].f = Main
      BY <1>4, <3>2, Zenon
    <3> QED  BY <3>1, <3>3
  <2>2. "DOM" \in enabled => Len(upd) > 0
    BY DEF If
  <2>3. Send(evs, Frames) /\ doc' = doc + 1 /\ phase' = 1 /\ attached' = {} /\ tracking' = FALSE
    BY <1>6 DEF PageNavigates
  <2> HIDE DEF nav, upd
  <2>4. /\ evs \in Seq(Events) /\ Len(evs) = Len(nav) + Len(upd) /\ Len(nav) \in Nat /\ Len(upd) \in Nat
        /\ \A i \in 1 .. Len(nav) + Len(upd) : evs[i] = IF i <= Len(nav) THEN nav[i] ELSE upd[i - Len(nav)]
    BY <2>1, ConcatProperties, LenProperties
  <2> HIDE DEF evs
  <2>5. Fits(evs, Frames)
    <3> SUFFICES ASSUME NEW i \in 1 .. Len(evs) PROVE BumpsDom(evs[i])
      OBVIOUS
    <3>1. CASE i <= Len(nav)
      <4>1. evs[i] = nav[i] /\ i \in 1 .. Len(nav)
        BY <2>4, <3>1
      <4> QED  BY <2>1, <4>1 DEF BumpsDom
    <3>2. CASE i > Len(nav)
      <4>1. evs[i] = upd[i - Len(nav)] /\ i - Len(nav) \in 1 .. Len(upd)
        BY <2>4, <3>2
      <4> QED  BY <2>1, <4>1 DEF BumpsDom
    <3> QED  BY <2>4, <3>1, <3>2
  <2>6. "DOM" \in enabled => Documents(evs) # {}
    <3> SUFFICES ASSUME "DOM" \in enabled PROVE Documents(evs) # {}
      OBVIOUS
    <3>1. /\ Len(nav) + 1 \in 1 .. Len(evs) /\ 1 \in 1 .. Len(upd)
          /\ evs[Len(nav) + 1] = upd[1]
      BY <2>2, <2>4
    <3> QED  BY <2>1, <3>1 DEF Documents
  <2> QED  BY <1>1, <2>3, <2>4, <2>5, <2>6
<1>7. CASE PageLoads
  <2>1. phase < 4 /\ phase + 1 \in 1 .. 4 /\ Lifecycles[phase + 1] \in Range(Lifecycles)
    BY <1>1, <1>7 DEF PageLoads, Range, Lifecycles
  <2>2. Event("lifecycle", Main, Lifecycles[phase + 1]) \in Events
    BY <1>2, <2>1 DEF Event, Events, Kinds
  <2>3. If("Page", <<Event("lifecycle", Main, Lifecycles[phase + 1])>>) \in Seq(Events)
    BY <2>2 DEF If
  <2> QED  BY <1>1, <1>7, <2>1, <2>3 DEF PageLoads
<1>8. CASE DialogOpens
  <2>1. If("Page", <<Event("dialog", Main, "")>>) \in Seq(Events)
    BY <1>2, <1>4 DEF Kinds, Domains
  <2>2. /\ Send(If("Page", <<Event("dialog", Main, "")>>), {}) /\ tracking' = tracking
        /\ {} \in SUBSET Frames /\ Fits(If("Page", <<Event("dialog", Main, "")>>), {})
        /\ doc' = doc /\ phase' = phase /\ attached' = attached
    BY <1>8 DEF DialogOpens
  <2> QED  BY <1>1, <2>1, <2>2, Zenon
<1>9. ASSUME NEW f \in Children, FrameAttaches(f) \/ FrameNavigates(f) \/ FrameDetaches(f)
      PROVE  /\ doc' \in Nat /\ phase' \in 1 .. 4 /\ attached' \subseteq Children /\ tracking' = tracking
             /\ \E k \in FrameKinds : Send(If("Page", <<Event(k, f, "")>>), {f})
  BY <1>1, <1>9 DEF FrameAttaches, FrameNavigates, FrameDetaches, FrameKinds
<1>10. ASSUME NEW f \in Children, NEW k \in FrameKinds
       PROVE  If("Page", <<Event(k, f, "")>>) \in Seq(Events) /\ Fits(If("Page", <<Event(k, f, "")>>), {f})
  <2>1. k \in Kinds /\ "Page" \in Domains /\ f \in Frames
    BY <1>2 DEF FrameKinds, Kinds, Domains
  <2>2. /\ If("Page", <<Event(k, f, "")>>) \in Seq(Events)
        /\ \A i \in 1 .. Len(If("Page", <<Event(k, f, "")>>)) :
              If("Page", <<Event(k, f, "")>>)[i].kind = k /\ If("Page", <<Event(k, f, "")>>)[i].f = f
    BY <1>4, <2>1, Zenon
  <2> QED  BY <2>2, Zenon
<1>11. CASE \E f \in Children : FrameAttaches(f) \/ FrameNavigates(f) \/ FrameDetaches(f)
  <2>1. PICK f \in Children : FrameAttaches(f) \/ FrameNavigates(f) \/ FrameDetaches(f)
    BY <1>11
  <2>2. /\ doc' \in Nat /\ phase' \in 1 .. 4 /\ attached' \subseteq Children /\ tracking' = tracking
        /\ \E k \in FrameKinds : Send(If("Page", <<Event(k, f, "")>>), {f})
    BY <1>9, <2>1
  <2>3. {f} \in SUBSET Frames
    BY <1>2
  <2> QED  BY <1>10, <2>2, <2>3
<1> QED  BY <1>5, <1>6, <1>7, <1>8, <1>11 DEF Browser

\* What the browser does concerns only the channel and the history of it.
LEMMA EnvironmentKeeps ==
  ASSUME IInv, Environment
  PROVE  IInv'
<1>1. PICK evs \in Seq(Events), C \in SUBSET Frames :
         /\ Send(evs, C)
         /\ \A i \in 1 .. Len(evs), f \in C :
               BumpsDom(evs[i]) \/ (evs[i].kind \in FrameKinds /\ evs[i].f = f)
         /\ tracking' = tracking \/ (tracking' = FALSE /\ ("DOM" \in enabled => Documents(evs) # {}))
  BY PageSends DEF Environment
<1>2. doc' \in Nat /\ phase' \in 1 .. 4 /\ attached' \subseteq Children
  BY PageSends DEF Environment
<1>3. /\ stream' \in Seq(Events) /\ Len(stream') <= Capacity
      /\ excused' \in BOOLEAN /\ (excused => excused')
      /\ \A i \in 1 .. Len(stream)' : Concerns(stream[i])'
      /\ (Documents(stream) # {} \/ Documents(evs) # {}) => (excused' \/ Documents(stream)' # {})
  BY <1>1, Sending
<1>4. /\ rx' \in [on: BOOLEAN, q: Seq(Events), lagged: BOOLEAN] /\ Len(rx'.q) <= Capacity
      /\ ~rx.on => rx' = rx
      /\ (rx.lagged \/ \E i \in 1 .. Len(rx.q) : rx.q[i].kind = "dialog") =>
            (rx'.lagged \/ \E i \in 1 .. Len(rx'.q) : rx'.q[i].kind = "dialog")
      /\ rx'.q # rx.q => Len(rx'.q) > 0
  BY <1>1, Hearing DEF IInv
<1>5. /\ clock < MaxClock /\ clock' = clock + 1 /\ enabled' = enabled /\ setup' = setup /\ fetches' = fetches
      /\ current' = current /\ ds' = ds /\ fv' = fv /\ ftv' = ftv /\ reconnect' = reconnect /\ ref' = ref
  BY <1>1 DEF Send, calls
<1> DEFINE heard == w.cond = "dialog" /\ rx'.q # rx.q /\ rx'.q[Len(rx'.q)].kind = "dialog"
<1>6. w' = [w EXCEPT !.signal = w.signal \/ heard]
  BY DEF Environment
<1>7. LiveTypeOK'
  <2>1. clock' \in 0 .. MaxClock
    <3>1. clock \in 0 .. MaxClock
      BY DEF IInv, TypeOK, LiveTypeOK
    <3> QED  BY <1>5, <3>1, LiveAssumption
  <2>2. tracking' \in BOOLEAN
    BY <1>1 DEF IInv, TypeOK, LiveTypeOK
  <2> QED  BY <1>2, <1>3, <1>4, <1>5, <2>1, <2>2 DEF IInv, TypeOK, LiveTypeOK
<1>8. /\ w' \in [pc: {"idle", "check", "subscribe", "recheck", "loop", "poll", "probe"},
                 cond: Conditions, late: BOOLEAN, signal: BOOLEAN, deaf: BOOLEAN]
      /\ w'.pc = w.pc /\ w'.cond = w.cond /\ w'.deaf = w.deaf /\ w'.signal = (w.signal \/ heard)
  <2>1. (w.signal \/ heard) \in BOOLEAN
    BY Zenon
  <2> QED  BY <1>6, <2>1 DEF IInv, TypeOK
<1>9. VersionsGrow' /\ ToldIsStale' /\ DomDisabled'
  BY <1>3, <1>5 DEF IInv, VersionsGrow, ToldIsStale, IsElementStale, IsStaleForFrame, DomDisabled
<1>10. EventsOwed'
  BY <1>3, <1>5 DEF IInv, EventsOwed, Concerns, BumpsDom
<1>11. SilenceIsExcused'
  <2>1. CASE tracking' = tracking
    BY <1>3, <1>5, <2>1 DEF IInv, SilenceIsExcused
  <2>2. CASE "DOM" \in enabled /\ Documents(evs) # {}
    BY <1>3, <2>2 DEF SilenceIsExcused
  <2>3. CASE "DOM" \notin enabled
    BY <1>3, <1>5, <2>3 DEF IInv, SilenceIsExcused, DomDisabled
  <2> QED  BY <1>1, <2>1, <2>2, <2>3
<1>12. Receiver'
  <2>1. heard => w.cond = "dialog"
    OBVIOUS
  <2>2. rx = NoReceiver => rx' = NoReceiver /\ ~heard
    BY <1>4 DEF NoReceiver
  <2> HIDE DEF heard
  <2> QED  BY <1>8, <2>1, <2>2 DEF IInv, Receiver
<1>13. SignalNotLost'
  <2>1. heard => \E i \in 1 .. Len(rx'.q) : rx'.q[i].kind = "dialog"
    <3> SUFFICES ASSUME heard PROVE \E i \in 1 .. Len(rx'.q) : rx'.q[i].kind = "dialog"
      OBVIOUS
    <3>1. rx'.q \in Seq(Events) /\ Len(rx'.q) > 0
      BY <1>4
    <3>2. Len(rx'.q) \in 1 .. Len(rx'.q)
      BY <3>1, LenProperties
    <3> QED  BY <3>2
  <2> HIDE DEF heard
  <2> QED  BY <1>4, <1>8, <2>1, Zenon DEF IInv, SignalNotLost
<1> QED  BY <1>7, <1>8, <1>9, <1>10, <1>11, <1>12, <1>13 DEF IInv, TypeOK

-----------------------------------------------------------------------------
(* The dispatcher and the calls *)

\* The parts that speak of the waiter depend on it and its receiver only.
LEMMA WaiterAlone ==
  ASSUME IInv, rx' = rx, w' = w
  PROVE  Receiver' /\ SignalNotLost'
BY DEF IInv, Receiver, SignalNotLost

\* The version of the page is a number, and so is the next one.
LEMMA DomBumped ==
  ASSUME NEW d \in DomStates
  PROVE  /\ d.dom \in Nat /\ d.dom + 1 \in Nat
         /\ [d EXCEPT !.dom = d.dom + 1] \in DomStates /\ [d EXCEPT !.dom = d.dom + 1].dom = d.dom + 1
<1> DEFINE L == Range(Lifecycles) \cup {""}
<1>1. d \in [dom: Nat, life: L, ready: {"unknown", "loading", "interactive", "complete"}]
  BY DEF DomStates
<1> HIDE DEF L
<1>2. /\ d.dom \in Nat /\ d.dom + 1 \in Nat
      /\ [d EXCEPT !.dom = d.dom + 1] \in [dom: Nat, life: L, ready: {"unknown", "loading", "interactive", "complete"}]
      /\ [d EXCEPT !.dom = d.dom + 1].dom = d.dom + 1
  BY ONLY <1>1
<1> QED  BY <1>2 DEF DomStates, L

\* The versions are numbers.
LEMMA Numbers ==
  ASSUME TypeOK
  PROVE  /\ ds.dom \in Nat /\ ftv \in Nat /\ fv \in [Frames -> Nat]
         /\ ref.dom \in Nat /\ ref.fv \in Nat /\ ref.f \in Frames
<1>1. ds.dom \in Nat
  BY DomBumped DEF TypeOK, LiveTypeOK
<1> QED  BY <1>1 DEF TypeOK, LiveTypeOK

\* A lifecycle event leaves the version of the page alone.
LEMMA LifeMoved ==
  ASSUME NEW d \in DomStates, NEW n \in Range(Lifecycles) \cup {""}
  PROVE  /\ [d EXCEPT !.life = n, !.ready = ReadyState(n)] \in DomStates
         /\ [d EXCEPT !.life = n, !.ready = ReadyState(n)].dom = d.dom
<1> DEFINE L == Range(Lifecycles) \cup {""}
           R == {"unknown", "loading", "interactive", "complete"}
           r == ReadyState(n)
<1>1. d \in [dom: Nat, life: L, ready: R] /\ n \in L /\ r \in R
  BY DEF DomStates, ReadyState
<1> HIDE DEF L, R, r
<1>2. /\ [d EXCEPT !.life = n, !.ready = r] \in [dom: Nat, life: L, ready: R]
      /\ [d EXCEPT !.life = n, !.ready = r].dom = d.dom
  BY ONLY <1>1
<1> QED  BY <1>2 DEF DomStates, L, R, r

\* The version of the page grows when a dispatched event changes the page.
LEMMA DispatchBumps ==
  ASSUME IInv, Dispatch
  PROVE  /\ Head(stream) \in Events /\ Tail(stream) \in Seq(Events)
         /\ Len(Tail(stream)) = Len(stream) - 1 /\ Len(stream) \in Nat \ {0} /\ Head(stream) = stream[1]
         /\ \A i \in 1 .. Len(Tail(stream)) : Tail(stream)[i] = stream[i + 1]
         /\ ds' \in DomStates
         /\ ds.dom \in Nat /\ ds'.dom \in Nat /\ ds.dom <= ds'.dom
         /\ BumpsDom(Head(stream)) => ds'.dom = ds.dom + 1
<1> DEFINE ev == Head(stream)
<1>1. /\ stream \in Seq(Events) /\ stream # <<>> /\ Len(stream) <= Capacity
      /\ current = NoEvent /\ current' = ev /\ stream' = Tail(stream) /\ ds' = OnEvent(ev)
  BY DEF IInv, TypeOK, LiveTypeOK, Dispatch
<1>2. /\ ev \in Events /\ Tail(stream) \in Seq(Events) /\ Len(Tail(stream)) = Len(stream) - 1
      /\ Len(stream) \in Nat \ {0} /\ ev = stream[1]
      /\ \A i \in 1 .. Len(Tail(stream)) : Tail(stream)[i] = stream[i + 1]
  BY <1>1, HeadTailProperties, EmptySeq
<1>3. /\ ds' \in DomStates
      /\ ds.dom \in Nat /\ ds'.dom \in Nat
      /\ ds'.dom = IF BumpsDom(ev) THEN ds.dom + 1 ELSE ds.dom
  <2>1. ds \in DomStates /\ ev \in Events
    BY <1>2 DEF IInv, TypeOK, LiveTypeOK
  <2>2. ev.name \in Range(Lifecycles) \cup {""}
    BY <2>1 DEF Events
  <2> HIDE DEF ev
  <2>3. CASE BumpsDom(ev)
    <3>1. ds' = [ds EXCEPT !.dom = ds.dom + 1]
      BY <1>1, <2>3, Zenon DEF OnEvent, BumpsDom
    <3> QED  BY <2>1, <2>3, <3>1, DomBumped, Zenon
  <2>4. CASE ~BumpsDom(ev)
    <3>1. ds' = ds \/ ds' = [ds EXCEPT !.life = ev.name, !.ready = ReadyState(ev.name)]
      BY <1>1, <2>4, Zenon DEF OnEvent, BumpsDom
    <3>2. ds' \in DomStates /\ ds'.dom = ds.dom /\ ds.dom \in Nat
      BY <2>1, <2>2, <3>1, DomBumped, LifeMoved, Zenon
    <3> QED  BY <2>4, <3>2, Zenon
  <2> QED  BY <2>3, <2>4
<1>4. ds.dom \in Nat /\ ds'.dom \in Nat /\ ds.dom <= ds'.dom
  <2>1. ds'.dom = ds.dom + 1 \/ ds'.dom = ds.dom
    BY <1>3, Zenon
  <2>2. ds.dom \in Nat /\ ds'.dom \in Nat
    BY <1>3, Zenon
  <2> QED  BY ONLY <2>1, <2>2
<1>5. BumpsDom(ev) => ds'.dom = ds.dom + 1
  BY <1>3, Zenon
<1> QED  BY <1>2, <1>3, <1>4, <1>5, Zenon

\* The dispatcher takes an event.
LEMMA DispatchKeeps ==
  ASSUME IInv, Dispatch, UNCHANGED w
  PROVE  IInv'
<1> DEFINE ev == Head(stream)
<1>1. /\ stream \in Seq(Events) /\ stream # <<>> /\ Len(stream) <= Capacity
      /\ current = NoEvent /\ current' = ev /\ stream' = Tail(stream) /\ ds' = OnEvent(ev)
  BY DEF IInv, TypeOK, LiveTypeOK, Dispatch
<1>2. /\ UNCHANGED <<clock, doc, phase, attached, enabled, tracking, excused, rx, setup, fetches>>
      /\ UNCHANGED <<fv, ftv, reconnect, ref, w>>
  BY DEF Dispatch, page, tracks, calls
<1>3. /\ ev \in Events /\ Tail(stream) \in Seq(Events) /\ Len(Tail(stream)) = Len(stream) - 1
      /\ Len(stream) \in Nat \ {0} /\ ev = stream[1]
      /\ \A i \in 1 .. Len(Tail(stream)) : Tail(stream)[i] = stream[i + 1]
  BY DispatchBumps, Zenon
<1>4. \A i \in 1 .. Len(Tail(stream)) : i + 1 \in 1 .. Len(stream)
  BY <1>3
<1>5. /\ ds' \in DomStates
      /\ BumpsDom(ev) => ds'.dom = ds.dom + 1
  BY DispatchBumps, Zenon
<1>12. ds.dom \in Nat /\ ds'.dom \in Nat /\ ds.dom <= ds'.dom
  BY DispatchBumps, Zenon
<1> HIDE DEF ev
<1>6. TypeOK'
  <2>1. Len(stream') <= Capacity
    BY <1>1, <1>3, LiveAssumption
  <2> QED  BY <1>1, <1>2, <1>3, <1>5, <2>1 DEF IInv, TypeOK, LiveTypeOK
<1>7. VersionsGrow'
  <2>1. VersionsGrow /\ ref.dom \in Nat
    BY DEF IInv, TypeOK, LiveTypeOK
  <2> QED  BY ONLY <2>1, <1>2, <1>12 DEF VersionsGrow
<1>8. EventsOwed'
  <2>1. Concerns(ev) /\ \A i \in 1 .. Len(Tail(stream)) : Concerns(Tail(stream)[i])
    <3>1. 1 \in 1 .. Len(stream)
      BY <1>3
    <3> QED  BY <1>3, <1>4, <3>1 DEF IInv, EventsOwed
  <2>2. (ev.owed /\ BumpsDom(ev)) => ref.dom < ds'.dom
    <3> SUFFICES ASSUME ev.owed, BumpsDom(ev) PROVE ref.dom < ds'.dom
      OBVIOUS
    <3>1. ref.taken
      BY <2>1 DEF Concerns
    <3>2. ref.dom <= ds.dom /\ ref.dom \in Nat /\ ds.dom \in Nat
      BY <3>1, Numbers DEF IInv, VersionsGrow
    <3>3. ds'.dom = ds.dom + 1
      BY <1>5, Zenon
    <3> QED  BY <3>2, <3>3
  <2> QED  BY <1>1, <1>2, <2>1, <2>2 DEF EventsOwed, Concerns, BumpsDom
<1>9. ToldIsStale'
  <2> SUFFICES ASSUME ref.told, ~ref.odd PROVE IsElementStale(ref)'
    BY <1>2 DEF ToldIsStale
  <2>1. IsElementStale(ref) /\ ref.dom <= ds.dom /\ ref.dom \in Nat /\ ds.dom \in Nat
    BY Numbers DEF IInv, ToldIsStale, VersionsGrow
  <2> QED  BY <1>2, <1>12, <2>1 DEF IsElementStale, IsStaleForFrame
<1>10. DomDisabled'
  BY <1>2 DEF IInv, DomDisabled
<1>11. SilenceIsExcused'
  <2>1. ASSUME Documents(stream) # {} PROVE ev.kind = "documentUpdated" \/ Documents(stream)' # {}
    <3>1. PICK i \in 1 .. Len(stream) : stream[i].kind = "documentUpdated"
      BY <2>1 DEF Documents
    <3>2. CASE i = 1
      BY <1>3, <3>1, <3>2
    <3>3. CASE i # 1
      <4>1. i - 1 \in 1 .. Len(Tail(stream)) /\ Tail(stream)[i - 1] = stream[i]
        BY <1>3, <3>3
      <4> QED  BY <1>1, <3>1, <4>1 DEF Documents
    <3> QED  BY <3>2, <3>3
  <2>2. current.kind # "documentUpdated"
    BY <1>1 DEF NoEvent, Event
  <2> QED  BY <1>1, <1>2, <2>1, <2>2 DEF IInv, SilenceIsExcused
<1> QED  BY <1>2, <1>6, <1>7, <1>8, <1>9, <1>10, <1>11, WaiterAlone DEF IInv

\* The frame's version grows past every older reference.
LEMMA FramesBump ==
  ASSUME IInv, OnFrameEvent(current)
  PROVE  /\ ftv' \in Nat /\ ftv <= ftv' /\ fv' \in [Frames -> Nat] /\ \A f \in Frames : fv'[f] <= ftv'
         /\ \A f \in Frames : fv'[f] = fv[f] \/ fv'[f] = ftv + 1
         /\ current.kind \in FrameKinds => fv'[current.f] = ftv + 1
<1>1. /\ ftv \in Nat /\ fv \in [Frames -> Nat] /\ \A f \in Frames : fv[f] <= ftv
      /\ current.f \in Frames
  <2>1. ftv \in Nat /\ fv \in [Frames -> Nat] /\ current \in Events \cup {NoEvent}
    BY DEF IInv, TypeOK, LiveTypeOK
  <2>2. \A f \in Frames : fv[f] <= ftv
    BY DEF IInv, VersionsGrow
  <2>3. current \in Events => current.f \in Frames
    BY DEF Events
  <2>4. NoEvent.f \in Frames
    BY DEF NoEvent, Event, Frames
  <2> QED  BY <2>1, <2>2, <2>3, <2>4
<1>2. CASE current.kind \in FrameKinds
  <2>1. ftv' = ftv + 1 /\ fv' = [fv EXCEPT ![current.f] = ftv + 1]
    BY <1>2 DEF OnFrameEvent, BumpForFrame, FrameKinds
  <2>2. \A f \in Frames : fv'[f] = IF f = current.f THEN ftv + 1 ELSE fv[f]
    BY ONLY <1>1, <2>1
  <2> QED  BY ONLY <1>1, <2>1, <2>2
<1>3. CASE current.kind \notin FrameKinds
  <2>1. ftv' = ftv /\ fv' = fv
    BY <1>3 DEF OnFrameEvent, FrameKinds
  <2> QED  BY <1>1, <1>3, <2>1
<1> QED  BY <1>2, <1>3

\* The FrameManager has seen the event: every reference it concerns is stale.
LEMMA DispatchFramesKeeps ==
  ASSUME IInv, DispatchFrames, UNCHANGED w
  PROVE  IInv'
<1>1. /\ UNCHANGED <<clock, doc, phase, attached, enabled, tracking, excused, stream, rx, setup>>
      /\ UNCHANGED <<ds, reconnect, w>> /\ current' = NoEvent /\ OnFrameEvent(current)
      /\ ref' = [ref EXCEPT !.told = ref.told \/ current.owed]
  BY DEF DispatchFrames, page, tracks, channel
<1>2. /\ ftv' \in Nat /\ ftv <= ftv' /\ fv' \in [Frames -> Nat] /\ \A f \in Frames : fv'[f] <= ftv'
      /\ \A f \in Frames : fv'[f] = fv[f] \/ fv'[f] = ftv + 1
      /\ current.kind \in FrameKinds => fv'[current.f] = ftv + 1
  BY <1>1, FramesBump
<1>3. /\ ref' \in [taken: BOOLEAN, dom: Nat, f: Frames, fv: Nat, told: BOOLEAN, odd: BOOLEAN]
      /\ ref'.taken = ref.taken /\ ref'.dom = ref.dom /\ ref'.f = ref.f /\ ref'.fv = ref.fv
      /\ ref'.odd = ref.odd /\ ref'.told = (ref.told \/ current.owed)
  <2>1. (ref.told \/ current.owed) \in BOOLEAN
    BY Zenon
  <2>2. ref \in [taken: BOOLEAN, dom: Nat, f: Frames, fv: Nat, told: BOOLEAN, odd: BOOLEAN]
    BY DEF IInv, TypeOK, LiveTypeOK
  <2> HIDE DEF IInv
  <2> QED  BY <1>1, <2>1, <2>2
<1>4. /\ fetches' \in Nat /\ fetches' >= fetches
      /\ current.kind = "documentUpdated" => fetches' > 0
  <2>1. fetches \in Nat
    BY DEF IInv, TypeOK, LiveTypeOK
  <2> QED  BY <2>1 DEF DispatchFrames, SpawnFetch
<1>5. TypeOK'
  BY <1>1, <1>2, <1>3, <1>4 DEF IInv, TypeOK, LiveTypeOK
<1>6. Concerns(current) /\ VersionsGrow /\ ftv \in Nat /\ ref.fv \in Nat /\ ref.dom \in Nat
      /\ ds.dom \in Nat /\ fv \in [Frames -> Nat] /\ ref.f \in Frames
  BY Numbers DEF IInv, EventsOwed
<1>7. VersionsGrow'
  <2>1. ref'.told => ref.taken
    BY <1>3, <1>6, Zenon DEF Concerns, VersionsGrow
  <2>2. ref.taken => ref.dom <= ds.dom /\ ref.fv <= ftv'
    BY <1>2, <1>6 DEF VersionsGrow
  <2> QED  BY <1>1, <1>2, <1>3, <1>6, <2>1, <2>2 DEF VersionsGrow
<1>8. EventsOwed'
  <2>1. \A e : Concerns(e)' = Concerns(e)
    BY <1>3 DEF Concerns, BumpsDom
  <2>2. NoEvent.owed = FALSE
    BY DEF NoEvent, Event
  <2> QED  BY <1>1, <1>3, <2>1, <2>2 DEF IInv, EventsOwed, Concerns
<1>9. ToldIsStale'
  <2> SUFFICES ASSUME ref'.told, ~ref.odd PROVE IsElementStale(ref)'
    BY <1>3 DEF ToldIsStale
  <2>1. ref.taken
    BY <1>3, <1>6, Zenon DEF Concerns, VersionsGrow
  <2>2. ref.fv <= ftv /\ ref.dom <= ds.dom
    BY <1>6, <2>1 DEF VersionsGrow
  <2>3. CASE ref.told
    <3>1. IsElementStale(ref)
      BY <2>3 DEF IInv, ToldIsStale
    <3>2. fv'[ref.f] = fv[ref.f] \/ fv'[ref.f] = ftv + 1
      BY <1>2, <1>6
    <3> QED  BY <1>1, <1>3, <1>6, <2>2, <3>1, <3>2 DEF IsElementStale, IsStaleForFrame
  <2>4. CASE current.owed
    <3>1. CASE BumpsDom(current)
      <4>1. ref.dom < ds.dom
        BY <2>4, <3>1 DEF IInv, EventsOwed
      <4> QED  BY <1>1, <1>3, <1>6, <4>1 DEF IsElementStale
    <3>2. CASE current.kind \in FrameKinds /\ current.f = ref.f
      <4>1. fv'[ref.f] = ftv + 1
        BY <1>2, <3>2
      <4> QED  BY <1>3, <1>6, <2>2, <4>1 DEF IsElementStale, IsStaleForFrame
    <3> QED  BY <1>6, <2>4, <3>1, <3>2, Zenon DEF Concerns
  <2> QED  BY <1>3, <2>3, <2>4, Zenon
<1>10. DomDisabled'
  BY <1>1 DEF IInv, DomDisabled
<1>11. SilenceIsExcused'
  <2>1. fetches > 0 => fetches' > 0
    <3>1. fetches \in Nat
      BY DEF IInv, TypeOK, LiveTypeOK
    <3> QED  BY <1>4, <3>1
  <2> QED  BY <1>1, <1>4, <2>1 DEF IInv, SilenceIsExcused, Documents
<1> QED  BY <1>1, <1>5, <1>7, <1>8, <1>9, <1>10, <1>11, WaiterAlone DEF IInv

\* The calls to the browser change what it tracks and why it does not.
LEMMA CallsKeep ==
  ASSUME IInv, EnableDomains \/ GetDocument \/ FetchDocument, UNCHANGED w
  PROVE  IInv'
<1>1. /\ UNCHANGED <<clock, doc, phase, attached, stream, rx, current, ds, fv, ftv, reconnect, ref, w>>
  BY DEF EnableDomains, GetDocument, FetchDocument, page, channel, tracks
<1>2. VersionsGrow' /\ EventsOwed' /\ ToldIsStale'
  BY <1>1 DEF IInv, VersionsGrow, EventsOwed, ToldIsStale, Concerns, BumpsDom, IsElementStale, IsStaleForFrame
<1>3. CASE EnableDomains
  <2>1. /\ setup' = "document" /\ enabled' \subseteq Domains
        /\ UNCHANGED <<tracking, excused, fetches>>
    BY <1>3 DEF EnableDomains, tracks
  <2>2. TypeOK'
    <3>1. setup' \in {"domains", "document", "done"}
      BY <2>1
    <3> QED  BY <1>1, <2>1, <3>1, Zenon DEF IInv, TypeOK, LiveTypeOK
  <2>3. DomDisabled' /\ SilenceIsExcused'
    BY <2>1 DEF DomDisabled, SilenceIsExcused
  <2> QED  BY <1>1, <1>2, <2>2, <2>3, WaiterAlone DEF IInv
<1>4. CASE GetDocument \/ FetchDocument
  <2>1. /\ Fetched /\ enabled' = enabled /\ setup' \in {setup, "done"}
        /\ fetches' \in Nat
    <3>1. fetches \in Nat
      BY DEF IInv, TypeOK, LiveTypeOK
    <3> QED  BY <1>4, <3>1 DEF GetDocument, FetchDocument, page
  <2>2. /\ tracking' \in BOOLEAN /\ excused' \in BOOLEAN
        /\ excused' \/ (tracking' /\ "DOM" \in enabled)
    BY <2>1 DEF Fetched, IInv, TypeOK, LiveTypeOK
  <2>3. TypeOK'
    <3>1. setup' \in {"domains", "document", "done"}
      BY <2>1 DEF IInv, TypeOK, LiveTypeOK
    <3> QED  BY <1>1, <2>1, <2>2, <3>1, Zenon DEF IInv, TypeOK, LiveTypeOK
  <2>4. DomDisabled' /\ SilenceIsExcused'
    BY <2>1, <2>2 DEF DomDisabled, SilenceIsExcused
  <2> QED  BY <1>1, <1>2, <2>3, <2>4, WaiterAlone DEF IInv
<1> QED  BY <1>3, <1>4

-----------------------------------------------------------------------------
(* Reconnects and references *)

\* The version of the page is bumped before the frames' versions are cleared.
LEMMA ReconnectKeeps ==
  ASSUME IInv, OnReconnected \/ HandleReconnect, UNCHANGED w
  PROVE  IInv'
<1>1. /\ UNCHANGED <<clock, doc, phase, attached, enabled, tracking, excused, stream, rx, setup, fetches>>
      /\ UNCHANGED <<current, ref, w>>
  BY DEF OnReconnected, HandleReconnect, page, channel, tracks, calls
<1>2. /\ ftv \in Nat /\ fv \in [Frames -> Nat] /\ ref.f \in Frames /\ ref.fv \in Nat /\ ref.dom \in Nat
      /\ ds \in DomStates
      /\ reconnect \in [left: 0 .. MaxReconnects, at: {"idle", "frames"}] /\ ds.dom \in Nat
  BY Numbers DEF IInv, TypeOK, LiveTypeOK
<1>3. /\ VersionsGrow /\ EventsOwed /\ ToldIsStale
  BY DEF IInv
<1>4. DomDisabled' /\ SilenceIsExcused'
  BY <1>1 DEF IInv, DomDisabled, SilenceIsExcused, Documents
<1>5. CASE OnReconnected
  <2>1. /\ reconnect.left > 0 /\ reconnect' = [left |-> reconnect.left - 1, at |-> "frames"]
        /\ ds' = [ds EXCEPT !.dom = ds.dom + 1] /\ ftv' \in {ftv, ftv + 1} /\ fv' = fv
    BY <1>5 DEF OnReconnected
  <2>2. reconnect' \in [left: 0 .. MaxReconnects, at: {"idle", "frames"}]
    BY ONLY <1>2, <2>1, LiveAssumption
  <2>3. ftv' \in Nat /\ ftv <= ftv'
    BY <1>2, <2>1
  <2>4. /\ ds' \in DomStates
        /\ ds'.dom = ds.dom + 1
    BY <1>2, <2>1, DomBumped
  <2>5. TypeOK'
    BY <1>1, <2>1, <2>2, <2>3, <2>4, Zenon DEF IInv, TypeOK, LiveTypeOK
  <2>6. VersionsGrow'
    <3>1. \A f \in Frames : fv'[f] <= ftv'
      BY <1>2, <1>3, <2>1, <2>3 DEF VersionsGrow
    <3>2. ref.taken => ref.dom < ds'.dom /\ ref.dom <= ds'.dom /\ ref.fv <= ftv'
      BY <1>2, <1>3, <2>3, <2>4 DEF VersionsGrow
    <3>3. ref.told => ref.taken
      BY <1>3 DEF VersionsGrow
    <3> QED  BY <1>1, <3>1, <3>2, <3>3 DEF VersionsGrow
  <2>7. ref.taken => ref.dom < ds'.dom
    BY <1>2, <1>3, <2>4 DEF VersionsGrow
  <2>8. EventsOwed'
    <3>1. current.owed => ref.taken
      BY <1>3 DEF EventsOwed, Concerns
    <3> QED  BY <1>1, <1>3, <2>7, <3>1 DEF EventsOwed, Concerns, BumpsDom
  <2>9. ToldIsStale'
    <3>1. ref.told => ref.taken
      BY <1>3 DEF VersionsGrow
    <3>2. ref.taken => ref.dom # ds'.dom
      BY <1>2, <2>4, <2>7
    <3> QED  BY <1>1, <3>1, <3>2 DEF ToldIsStale, IsElementStale
  <2> QED  BY <1>1, <1>4, <2>5, <2>6, <2>8, <2>9, WaiterAlone DEF IInv
<1>6. CASE HandleReconnect
  <2>1. /\ reconnect.at = "frames" /\ reconnect' = [reconnect EXCEPT !.at = "idle"]
        /\ fv' = [f \in Frames |-> 0] /\ ds' = ds /\ ftv' = ftv
    BY <1>6 DEF HandleReconnect
  <2>2. reconnect' \in [left: 0 .. MaxReconnects, at: {"idle", "frames"}] /\ reconnect'.at = "idle"
    BY ONLY <1>2, <2>1
  <2>3. fv' \in [Frames -> Nat] /\ \A f \in Frames : fv'[f] <= ftv'
    BY ONLY <1>2, <2>1
  <2>4. TypeOK'
    BY <1>1, <2>1, <2>2, <2>3, Zenon DEF IInv, TypeOK, LiveTypeOK
  <2>5. VersionsGrow' /\ EventsOwed'
    BY <1>1, <1>3, <2>1, <2>2, <2>3 DEF VersionsGrow, EventsOwed, Concerns, BumpsDom
  <2>6. ToldIsStale'
    <3>1. (ref.told /\ ~ref.odd) => ref.dom < ds.dom
      BY <1>3, <2>1 DEF VersionsGrow
    <3> QED  BY <1>1, <1>2, <2>1, <3>1 DEF ToldIsStale, IsElementStale
  <2> QED  BY <1>1, <1>4, <2>4, <2>5, <2>6, WaiterAlone DEF IInv
<1> QED  BY <1>5, <1>6

\* A reference starts with the versions of now.
LEMMA TakeRefKeeps ==
  ASSUME IInv, NEW f \in Frames, TakeRef(f), UNCHANGED w
  PROVE  IInv'
<1>1. /\ UNCHANGED <<clock, doc, phase, attached, enabled, tracking, excused, stream, rx, setup, fetches>>
      /\ UNCHANGED <<current, ds, fv, ftv, reconnect, w>> /\ ~ref.taken
      /\ ref' = [taken |-> TRUE, dom |-> ds.dom, f |-> f, fv |-> fv[f], told |-> FALSE,
                 odd |-> reconnect.at # "idle"]
  BY DEF TakeRef, page, channel, tracks, calls
<1>2. /\ ds.dom \in Nat /\ fv[f] \in Nat /\ fv[f] <= ftv /\ (reconnect.at # "idle") \in BOOLEAN
      /\ ds \in DomStates
  BY Numbers DEF IInv, TypeOK, LiveTypeOK, VersionsGrow
<1>3. /\ ref' \in [taken: BOOLEAN, dom: Nat, f: Frames, fv: Nat, told: BOOLEAN, odd: BOOLEAN]
      /\ ref'.dom = ds.dom /\ ref'.fv = fv[f] /\ ref'.told = FALSE /\ ref'.odd = (reconnect.at # "idle")
  BY ONLY <1>1, <1>2, f \in Frames
<1>4. TypeOK'
  BY <1>1, <1>3, Zenon DEF IInv, TypeOK, LiveTypeOK
<1>5. VersionsGrow'
  <2>1. \A g \in Frames : fv[g] <= ftv
    BY DEF IInv, VersionsGrow
  <2>2. reconnect.at = "frames" => ref'.odd
    BY <1>3
  <2>3. ref'.dom <= ds.dom
    BY <1>2, <1>3
  <2> QED  BY <1>1, <1>2, <1>3, <2>1, <2>2, <2>3 DEF VersionsGrow
<1>6. EventsOwed'
  <2>1. /\ \A i \in 1 .. Len(stream) : ~stream[i].owed
        /\ ~current.owed
    BY <1>1 DEF IInv, EventsOwed, Concerns
  <2> QED  BY <1>1, <2>1 DEF EventsOwed, Concerns
<1>7. ToldIsStale' /\ DomDisabled' /\ SilenceIsExcused'
  BY <1>1, <1>3 DEF IInv, ToldIsStale, DomDisabled, SilenceIsExcused, Documents
<1> QED  BY <1>1, <1>4, <1>5, <1>6, <1>7, WaiterAlone DEF IInv

-----------------------------------------------------------------------------
(* The wait *)

\* The wait changes its own state and its receiver, and nothing the other parts
\* speak of.
LEMMA LiveAlone ==
  ASSUME IInv, UNCHANGED rest,
         rx' \in [on: BOOLEAN, q: Seq(Events), lagged: BOOLEAN], Len(rx'.q) <= Capacity
  PROVE  /\ LiveTypeOK'
         /\ VersionsGrow' /\ EventsOwed' /\ ToldIsStale' /\ DomDisabled' /\ SilenceIsExcused'
<1>1. /\ UNCHANGED <<clock, doc, phase, attached, enabled, tracking, excused, stream, setup, fetches>>
      /\ UNCHANGED <<current, ds, fv, ftv, reconnect, ref>>
  BY DEF rest, page, tracks, calls
<1>2. LiveTypeOK'
  BY <1>1, Zenon DEF IInv, TypeOK, LiveTypeOK
<1>3. VersionsGrow' /\ EventsOwed' /\ ToldIsStale' /\ DomDisabled' /\ SilenceIsExcused'
  BY <1>1 DEF IInv, VersionsGrow, EventsOwed, ToldIsStale, Concerns, BumpsDom, IsElementStale,
              IsStaleForFrame, DomDisabled, SilenceIsExcused, Documents
<1> QED  BY <1>2, <1>3

Places == {"idle", "check", "subscribe", "recheck", "loop", "poll", "probe"}
Waiters == [pc: Places, cond: Conditions, late: BOOLEAN, signal: BOOLEAN, deaf: BOOLEAN]

\* A wait that ends has no receiver and no signal.
LEMMA EndKeeps ==
  ASSUME IInv, UNCHANGED rest, Satisfy \/ Return
  PROVE  IInv'
<1>1. rx' = NoReceiver /\ (w' = Idle \/ (w.cond = "url" /\ w' = [w EXCEPT !.pc = "probe"]))
  BY DEF Satisfy, Return
<1>2. /\ rx' \in [on: BOOLEAN, q: Seq(Events), lagged: BOOLEAN] /\ Len(rx'.q) <= Capacity
  <2>1. rx'.q = << >> /\ << >> \in Seq(Events) /\ Len(<< >>) = 0
    BY <1>1, EmptySeq DEF NoReceiver
  <2>2. Len(rx'.q) <= Capacity
    BY <2>1, LiveAssumption
  <2> QED  BY <1>1, <2>1, <2>2 DEF NoReceiver
<1>3. w \in Waiters /\ (w.signal => w.cond = "dialog")
  BY DEF IInv, TypeOK, Receiver, Waiters, Places
<1>4. w' \in Waiters /\ ~w'.signal
  <2>1. CASE w' = Idle
    BY <2>1 DEF Idle, Waiter, Waiters, Places, Conditions
  <2>2. CASE w.cond = "url" /\ w' = [w EXCEPT !.pc = "probe"]
    BY <1>3, <2>2 DEF Waiters, Places
  <2> QED  BY <1>1, <2>1, <2>2
<1>5. Receiver' /\ SignalNotLost'
  BY <1>1, <1>4 DEF Receiver, SignalNotLost
<1> QED  BY <1>2, <1>4, <1>5, LiveAlone DEF IInv, TypeOK, Waiters, Places

\* A step of the wait that keeps the receiver, the signal and what is known of
\* them goes between places where there is a receiver, or where there is none.
LEMMA MoveKeeps ==
  ASSUME IInv, UNCHANGED rest, rx' = rx, w' \in Waiters,
         w'.cond = w.cond, w'.signal = w.signal, w'.deaf = w.deaf,
         w'.pc \in {"idle", "check", "subscribe", "probe"} => w.pc \in {"idle", "check", "subscribe", "probe"}
  PROVE  IInv'
<1>1. rx \in [on: BOOLEAN, q: Seq(Events), lagged: BOOLEAN] /\ Len(rx.q) <= Capacity
  BY DEF IInv, TypeOK, LiveTypeOK
<1>2. Receiver' /\ SignalNotLost'
  BY DEF IInv, Receiver, SignalNotLost
<1> QED  BY <1>1, <1>2, LiveAlone DEF IInv, TypeOK, Waiters, Places

\* Every step of the wait.
LEMMA WaitKeeps ==
  ASSUME IInv, WaitStep \/ Deadline \/ \E c \in Conds : StartWait(c)
  PROVE  IInv'
<1>1. w \in Waiters
  BY DEF IInv, TypeOK, Waiters, Places
<1>2. UNCHANGED live => UNCHANGED rest /\ rx' = rx
  BY DEF live, rest, channel
<1>3. ASSUME NEW at, NEW next, Check(at, next),
             next \in {"subscribe", "loop"}, next = "subscribe" => at = "check"
      PROVE  IInv'
  <2>1. CASE Satisfy
    BY <1>3, <2>1, EndKeeps DEF Check
  <2>2. CASE w.pc = at /\ w' = [w EXCEPT !.pc = next] /\ rx' = rx
    <3>1. /\ w' \in Waiters /\ w'.cond = w.cond /\ w'.signal = w.signal /\ w'.deaf = w.deaf
          /\ w'.pc = next
      BY <1>1, <1>3, <2>2 DEF Waiters, Places
    <3> QED  BY <1>3, <2>2, <3>1, MoveKeeps DEF Check
  <2> QED  BY <1>3, <2>1, <2>2 DEF Check
<1>4. CASE Subscribe
  <2>1. /\ UNCHANGED rest /\ rx' = [NoReceiver EXCEPT !.on = TRUE] /\ w' = [w EXCEPT !.pc = "recheck"]
        /\ ~w.signal
    BY <1>4 DEF Subscribe, IInv, Receiver
  <2>2. rx' \in [on: BOOLEAN, q: Seq(Events), lagged: BOOLEAN] /\ Len(rx'.q) <= Capacity
    <3>1. rx'.q = << >> /\ << >> \in Seq(Events) /\ Len(<< >>) = 0
      BY <2>1, EmptySeq DEF NoReceiver
    <3>2. Len(rx'.q) <= Capacity
      BY <3>1, LiveAssumption
    <3> QED  BY <2>1, <3>1, <3>2 DEF NoReceiver
  <2>3. w' \in Waiters /\ ~w'.signal /\ w'.pc = "recheck"
    BY <1>1, <2>1 DEF Waiters, Places
  <2>4. Receiver' /\ SignalNotLost'
    BY <2>3 DEF Receiver, SignalNotLost
  <2> QED  BY <2>1, <2>2, <2>3, <2>4, LiveAlone DEF IInv, TypeOK, Waiters, Places
<1>5. CASE TimedOut \/ FinalProbe
  BY <1>5, EndKeeps DEF TimedOut, FinalProbe
<1>6. CASE Receive
  <2>1. CASE Satisfy
    BY <1>6, <2>1, EndKeeps DEF Receive
  <2>2. CASE /\ ~EventMatches(w.cond, Head(rx.q))
             /\ w' = [w EXCEPT !.pc = "poll"] /\ rx' = [rx EXCEPT !.q = Tail(rx.q)]
    <3>1. rx \in [on: BOOLEAN, q: Seq(Events), lagged: BOOLEAN] /\ rx.q # << >> /\ Len(rx.q) <= Capacity
      BY <1>6 DEF Receive, IInv, TypeOK, LiveTypeOK
    <3>2. /\ rx.q \in Seq(Events) /\ Len(rx.q) \in Nat \ {0} /\ Tail(rx.q) \in Seq(Events)
          /\ Len(Tail(rx.q)) = Len(rx.q) - 1 /\ Head(rx.q) = rx.q[1]
          /\ \A i \in 1 .. Len(Tail(rx.q)) : Tail(rx.q)[i] = rx.q[i + 1]
      BY <3>1, EmptySeq, HeadTailProperties
    <3>3. /\ rx' \in [on: BOOLEAN, q: Seq(Events), lagged: BOOLEAN] /\ rx'.q = Tail(rx.q)
          /\ rx'.lagged = rx.lagged
      BY <2>2, <3>1, <3>2
    <3>4. Len(rx'.q) <= Capacity
      BY <3>1, <3>2, <3>3, LiveAssumption
    <3>5. /\ w' \in Waiters /\ w'.cond = w.cond /\ w'.signal = w.signal /\ w'.deaf = w.deaf
          /\ w'.pc = "poll"
      BY <1>1, <2>2 DEF Waiters, Places
    <3>6. Receiver'
      BY <3>5 DEF IInv, Receiver
    <3>7. SignalNotLost'
      <4> SUFFICES ASSUME w.signal, ~w.deaf, ~rx.lagged
                   PROVE  \E i \in 1 .. Len(rx'.q) : rx'.q[i].kind = "dialog"
        BY <3>3, <3>5 DEF SignalNotLost
      <4>1. PICK i \in 1 .. Len(rx.q) : rx.q[i].kind = "dialog"
        BY DEF IInv, SignalNotLost
      <4>2. w.cond = "dialog"
        BY DEF IInv, Receiver
      <4>3. i # 1
        BY <2>2, <3>2, <4>1, <4>2 DEF EventMatches
      <4>4. i - 1 \in 1 .. Len(Tail(rx.q)) /\ Tail(rx.q)[i - 1] = rx.q[i]
        BY <3>2, <4>3
      <4> QED  BY <3>3, <4>1, <4>4
    <3>8. UNCHANGED rest
      BY <1>6 DEF Receive
    <3> QED  BY <3>3, <3>4, <3>5, <3>6, <3>7, <3>8, LiveAlone DEF IInv, TypeOK, Waiters, Places
  <2> QED  BY <1>6, <2>1, <2>2 DEF Receive
<1>7. CASE Lagged
  <2>1. /\ UNCHANGED rest /\ rx' = [rx EXCEPT !.lagged = FALSE]
        /\ w' = [w EXCEPT !.pc = "poll", !.deaf = (w.cond = "dialog")]
    BY <1>7 DEF Lagged
  <2>2. rx \in [on: BOOLEAN, q: Seq(Events), lagged: BOOLEAN] /\ Len(rx.q) <= Capacity
    BY DEF IInv, TypeOK, LiveTypeOK
  <2>3. rx' \in [on: BOOLEAN, q: Seq(Events), lagged: BOOLEAN] /\ rx'.q = rx.q
    BY <2>1, <2>2
  <2>4. (w.cond = "dialog") \in BOOLEAN
    OBVIOUS
  <2>5. /\ w' \in Waiters /\ w'.cond = w.cond /\ w'.signal = w.signal /\ w'.deaf = (w.cond = "dialog")
        /\ w'.pc = "poll"
    BY <1>1, <2>1, <2>4 DEF Waiters, Places
  <2>6. Receiver' /\ SignalNotLost'
    BY <2>5 DEF IInv, Receiver, SignalNotLost
  <2> QED  BY <2>1, <2>2, <2>3, <2>5, <2>6, LiveAlone DEF IInv, TypeOK, Waiters, Places
<1>8. CASE Tick \/ Deadline
  <2>1. /\ UNCHANGED rest /\ rx' = rx /\ w.pc \in {"loop", "poll"}
        /\ w' = [w EXCEPT !.pc = "poll"] \/ w' = [w EXCEPT !.late = TRUE]
    BY <1>2, <1>8 DEF Tick, Deadline
  <2>2. /\ w' \in Waiters /\ w'.cond = w.cond /\ w'.signal = w.signal /\ w'.deaf = w.deaf
        /\ w'.pc \in {"loop", "poll"}
    BY <1>1, <2>1 DEF Waiters, Places
  <2> QED  BY <2>1, <2>2, MoveKeeps
<1>9. CASE \E c \in Conds : StartWait(c)
  <2>1. PICK c \in Conds : StartWait(c)
    BY <1>9
  <2>2. UNCHANGED rest /\ rx' = rx /\ w.pc = "idle" /\ w' = Waiter(c) /\ c \in Conditions
    BY <1>2, <2>1, CondsAssumption DEF StartWait
  <2>3. w' \in Waiters /\ ~w'.signal /\ w'.pc = "check"
    BY <2>2 DEF Waiter, Waiters, Places
  <2>4. rx = NoReceiver
    BY <2>2 DEF IInv, Receiver
  <2>5. Receiver' /\ SignalNotLost'
    BY <2>2, <2>3, <2>4 DEF Receiver, SignalNotLost
  <2>6. rx' \in [on: BOOLEAN, q: Seq(Events), lagged: BOOLEAN] /\ Len(rx'.q) <= Capacity
    BY <2>2 DEF IInv, TypeOK, LiveTypeOK
  <2> QED  BY <2>2, <2>3, <2>5, <2>6, LiveAlone DEF IInv, TypeOK, Waiters, Places
<1>10. ASSUME Check("check", "subscribe") \/ Check("recheck", "loop") \/ Check("poll", "loop")
       PROVE  IInv'
  BY <1>3, <1>10
<1> QED  BY <1>4, <1>5, <1>6, <1>7, <1>8, <1>9, <1>10 DEF WaitStep

-----------------------------------------------------------------------------
(* The invariant *)

\* At the start there is neither an event nor a reference.
LEMMA InitIInv ==
  ASSUME Init
  PROVE  IInv
<1>1. /\ clock = 0 /\ doc = 0 /\ phase \in {1, 4} /\ attached \subseteq Children /\ enabled = {}
      /\ tracking = FALSE /\ excused = FALSE /\ stream = << >> /\ rx = NoReceiver
      /\ setup = "domains" /\ fetches = 0 /\ current = NoEvent
      /\ fv = [f \in Frames |-> 0] /\ ftv = 0 /\ ref = NoRef /\ w = Idle
      /\ reconnect = [left |-> MaxReconnects, at |-> "idle"]
  BY DEF Init, LiveInit
<1>2. ds = [dom |-> 0, life |-> "init", ready |-> "unknown"]
  BY DEF Init, LiveInit
<1>3. << >> \in Seq(Events) /\ Len(<< >>) = 0 /\ 0 <= Capacity
  BY EmptySeq, LiveAssumption
<1>4. LiveTypeOK
  <2>1. clock \in 0 .. MaxClock /\ doc \in Nat /\ phase \in 1 .. 4 /\ attached \subseteq Children
    BY <1>1, LiveAssumption
  <2>2. enabled \subseteq Domains /\ tracking \in BOOLEAN /\ excused \in BOOLEAN
        /\ setup \in {"domains", "document", "done"} /\ fetches \in Nat
        /\ current \in Events \cup {NoEvent}
    BY <1>1
  <2>3. stream \in Seq(Events) /\ Len(stream) <= Capacity
    BY <1>1, <1>3
  <2>4. rx \in [on: BOOLEAN, q: Seq(Events), lagged: BOOLEAN] /\ Len(rx.q) <= Capacity
    BY <1>1, <1>3 DEF NoReceiver
  <2>5. ds \in DomStates
    <3>1. "init" \in Range(Lifecycles)
      <4>1. 1 \in DOMAIN Lifecycles /\ Lifecycles[1] = "init"
        BY DEF Lifecycles
      <4> QED  BY <4>1, Zenon DEF Range
    <3> QED  BY <1>2, <3>1 DEF DomStates
  <2>6. fv \in [Frames -> Nat] /\ ftv \in Nat
    BY <1>1
  <2>7. reconnect \in [left: 0 .. MaxReconnects, at: {"idle", "frames"}]
    BY <1>1, LiveAssumption
  <2>8. ref \in [taken: BOOLEAN, dom: Nat, f: Frames, fv: Nat, told: BOOLEAN, odd: BOOLEAN]
    BY <1>1 DEF NoRef, Frames
  <2> QED  BY <2>1, <2>2, <2>3, <2>4, <2>5, <2>6, <2>7, <2>8, Zenon DEF LiveTypeOK
<1>5. TypeOK
  BY <1>1, <1>4 DEF TypeOK, Idle, Waiter, Conditions
<1>6. /\ ref.taken = FALSE /\ ref.told = FALSE /\ current.owed = FALSE
  BY <1>1 DEF NoRef, NoEvent, Event
<1>7. VersionsGrow
  BY <1>1, <1>6 DEF VersionsGrow
<1>8. EventsOwed /\ ToldIsStale
  BY <1>1, <1>3, <1>6 DEF EventsOwed, Concerns, ToldIsStale
<1>9. DomDisabled /\ SilenceIsExcused
  BY <1>1 DEF DomDisabled, SilenceIsExcused
<1>10. Receiver /\ SignalNotLost
  BY <1>1 DEF Receiver, SignalNotLost, Idle, Waiter
<1> QED  BY <1>5, <1>7, <1>8, <1>9, <1>10 DEF IInv

\* Every step keeps the invariant.
LEMMA StepIInv ==
  ASSUME IInv, [Next]_vars
  PROVE  IInv'
<1>1. CASE UNCHANGED vars
  <2>1. UNCHANGED rest /\ UNCHANGED <<rx, w>>
    BY <1>1 DEF vars, live, rest, channel
  <2>2. w \in Waiters
    BY DEF IInv, TypeOK, Waiters, Places
  <2> QED  BY <2>1, <2>2, MoveKeeps
<1>2. CASE LiveStep /\ UNCHANGED w
  BY <1>2, DispatchKeeps, DispatchFramesKeeps, CallsKeep DEF LiveStep
<1>3. CASE \E f \in Frames : w.pc = "idle" /\ setup = "done" /\ TakeRef(f) /\ UNCHANGED w
  BY <1>3, TakeRefKeeps
<1> QED  BY <1>1, <1>2, <1>3, EnvironmentKeeps, ReconnectKeeps, WaitKeeps DEF Next

\* The inductive invariant holds for any frames, capacity and bounds.
THEOREM Invariance == Spec => []IInv
<1>1. Init => IInv
  BY InitIInv
<1>2. IInv /\ [Next]_vars => IInv'
  BY StepIInv
<1> QED  BY <1>1, <1>2, PTL DEF Spec

\* Type correctness of the live state and the waiter; a receiver never holds more
\* than the capacity of the channel.
THEOREM TypeCorrect == Spec => []TypeOK
BY Invariance, PTL DEF IInv

\* A reference whose element has changed is stale once the dispatcher is through
\* with the event (dom_state.rs, frames.rs).
THEOREM AppliedEventsAreSeen == Spec => []ToldIsStale
BY Invariance, PTL DEF IInv

\* The browser is silent about a document only for a reason: the news of it is
\* under way, was dropped by a full channel, or the call that fetches it failed.
THEOREM SilenceHasAReason == Spec => []SilenceIsExcused
BY Invariance, PTL DEF IInv

\* The signal of a dialog that opened after the subscription stays in the receiver
\* until it ends the wait, or the receiver overflowed (wait.rs).
THEOREM SignalsAreKept == Spec => []SignalNotLost
BY Invariance, PTL DEF IInv

-----------------------------------------------------------------------------
(* Stale references *)

\* A stale reference is stale after any step.
LEMMA StaleKept ==
  ASSUME IInv, [Next]_vars, ref.taken, ~ref.odd, IsElementStale(ref)
  PROVE  IsElementStale(ref)'
<1>1. /\ ds.dom \in Nat /\ ftv \in Nat /\ fv \in [Frames -> Nat]
      /\ ref.dom \in Nat /\ ref.fv \in Nat /\ ref.f \in Frames
  BY Numbers DEF IInv
<1>2. ref.dom <= ds.dom /\ ref.fv <= ftv /\ (reconnect.at = "frames" => ref.dom < ds.dom)
  BY DEF IInv, VersionsGrow
<1>3. CASE Dispatch
  <2>1. ds'.dom \in Nat /\ ds.dom <= ds'.dom
    BY <1>3, DispatchBumps
  <2>2. UNCHANGED <<fv, ref>>
    BY <1>3 DEF Dispatch
  <2> QED  BY <1>1, <1>2, <2>1, <2>2 DEF IsElementStale, IsStaleForFrame
<1>4. CASE DispatchFrames
  <2>1. \A f \in Frames : fv'[f] = fv[f] \/ fv'[f] = ftv + 1
    BY <1>4, FramesBump DEF DispatchFrames
  <2>2. fv'[ref.f] = fv[ref.f] \/ fv'[ref.f] = ftv + 1
    BY <1>1, <2>1
  <2>3. ref'.dom = ref.dom /\ ref'.f = ref.f /\ ref'.fv = ref.fv /\ ds' = ds
    <3>1. ref' = [ref EXCEPT !.told = ref.told \/ current.owed] /\ ds' = ds
      BY <1>4 DEF DispatchFrames
    <3>2. ref \in [taken: BOOLEAN, dom: Nat, f: Frames, fv: Nat, told: BOOLEAN, odd: BOOLEAN]
      BY DEF IInv, TypeOK, LiveTypeOK
    <3> QED  BY <3>1, <3>2
  <2> QED  BY <1>1, <1>2, <2>2, <2>3 DEF IsElementStale, IsStaleForFrame
<1>5. CASE OnReconnected
  <2>1. ds' = [ds EXCEPT !.dom = ds.dom + 1] /\ ref' = ref
    BY <1>5 DEF OnReconnected
  <2>2. ds'.dom = ds.dom + 1
    BY <2>1, DomBumped DEF IInv, TypeOK, LiveTypeOK
  <2> QED  BY <1>1, <1>2, <2>1, <2>2 DEF IsElementStale
<1>6. CASE HandleReconnect
  <2>1. ds' = ds /\ ref' = ref /\ reconnect.at = "frames"
    BY <1>6 DEF HandleReconnect
  <2> QED  BY <1>1, <1>2, <2>1 DEF IsElementStale
<1>7. CASE UNCHANGED <<ds, fv, ref>>
  BY <1>7 DEF IsElementStale, IsStaleForFrame
<1>8. ASSUME Environment PROVE UNCHANGED <<ds, fv, ref>>
  <2>1. PICK evs \in Seq(Events), C \in SUBSET Frames : Send(evs, C)
    BY <1>8, PageSends DEF Environment
  <2> QED  BY <2>1 DEF Send
<1>9. ASSUME EnableDomains \/ GetDocument \/ FetchDocument PROVE UNCHANGED <<ds, fv, ref>>
  BY <1>9 DEF EnableDomains, GetDocument, FetchDocument
<1>10. ASSUME WaitStep \/ Deadline \/ \E c \in Conds : StartWait(c) PROVE UNCHANGED <<ds, fv, ref>>
  <2>1. UNCHANGED rest \/ UNCHANGED live
    BY <1>10 DEF WaitStep, Check, Subscribe, TimedOut, Receive, Lagged, Tick, FinalProbe, Deadline, StartWait
  <2> QED  BY <2>1 DEF rest, live
<1>11. ASSUME UNCHANGED vars PROVE UNCHANGED <<ds, fv, ref>>
  BY <1>11 DEF vars, live
<1>12. ~\E f \in Frames : TakeRef(f)
  BY DEF TakeRef
<1> QED  BY <1>3, <1>4, <1>5, <1>6, <1>7, <1>8, <1>9, <1>10, <1>11, <1>12 DEF Next, LiveStep

\* A stale reference never becomes fresh again, whatever the order of events,
\* reconnects and waits: a reconnect sets the frames' versions back, but only
\* after it has bumped the page's.
THEOREM StaleReferencesStayStale == Spec => StaleStays
<1>1. IInv /\ [Next]_vars =>
         [(ref.taken /\ ~ref.odd /\ IsElementStale(ref)) => IsElementStale(ref)']_live
  BY StaleKept
<1> QED  BY <1>1, Invariance, PTL DEF Spec, StaleStays

=============================================================================
