--------------------------- MODULE ExecutorProofs ---------------------------
(***************************************************************************)
(* Proofs about Executor for any number of plans, any workload and any     *)
(* journal: type correctness, that a target key's plans run one at a time, *)
(* and that the journal is honest about what has reached the page, though  *)
(* deadlines fire, tokens are set and the connection dies between any two  *)
(* steps and frames outlive the action that sent them.                     *)
(***************************************************************************)
EXTENDS Executor, TLAPS

-----------------------------------------------------------------------------
(* The inductive invariant *)

Current(p) == [plan |-> p, step |-> step[p], call |-> call[p]]
Clicked(p) == [plan |-> p, step |-> step[p], call |-> 2]
Sent == applied \cup Range(wire)

\* A plan that works on a step has one; only a dispatched step has made calls, and
\* a plan that skips works on nothing.
Placed ==
    \A p \in Plans :
        /\ state[p] \in ActionStates => step[p] <= Len(req[p].steps)
        /\ state[p] \in {"Dispatching", "Verifying"} => call[p] <= Len(CdpCalls(Kind(p)))
        /\ state[p] \notin {"Dispatching", "Verifying"} => call[p] = 0
        /\ skip[p] => state[p] \in {"Next", "Done"}

\* The plan that works is first in the queue of its key, and one that waits is in it.
Queued ==
    \A p \in Plans :
        /\ state[p] \in ActionStates \cup {"Next"} =>
              queue[req[p].key] # <<>> /\ Head(queue[req[p].key]) = p
        /\ state[p] = "Waiting" => \E i \in 1..Len(queue[req[p].key]) : queue[req[p].key][i] = p

\* Every frame is of a call that has been made, is sent once, and is carried out
\* only when it has left the wire.
Frames ==
    /\ \A c \in Sent :
          /\ c.step \in 1..Len(req[c.plan].steps) /\ c.step <= step[c.plan]
          /\ c.call \in 1..Len(CdpCalls(req[c.plan].steps[c.step]))
          /\ c.step = step[c.plan] => c.call <= call[c.plan]
    /\ \A i, j \in 1..Len(wire) : wire[i] = wire[j] => i = j
    /\ \A i \in 1..Len(wire) : wire[i] \notin applied

\* The answer a plan has is the truth about its call, an error that is kept is the
\* truth about the click, and the calls a plan made before are done unless their
\* errors are dropped or kept.
AnswersOf(p) ==
    (state[p] = "Dispatching" /\ call[p] > 0) =>
        /\ reply[p] = "ok" => Current(p) \in applied
        /\ reply[p] = "error" => Current(p) \notin Sent
        /\ reply[p] = "invalid" => Current(p) \in garbled
        /\ reply[p] \in KeptErrors => Kind(p) = "click_node" /\ call[p] = 3
        /\ reply[p] = "error kept" => Clicked(p) \notin Sent
        /\ reply[p] = "invalid kept" => Clicked(p) \in garbled
        /\ reply[p] \notin KeptErrors => \A j \in 1..call[p] - 1 :
              ~CdpCalls(Kind(p))[j].ignored => [plan |-> p, step |-> step[p], call |-> j] \in applied

Answers == \A p \in Plans : AnswersOf(p)

\* A step that is being verified has done what it had to.
Carried ==
    \A p \in Plans : state[p] = "Verifying" =>
        \A j \in 1..Len(CdpCalls(Kind(p))) :
            (CdpCalls(Kind(p))[j].mutates /\ ~CdpCalls(Kind(p))[j].ignored) =>
                [plan |-> p, step |-> step[p], call |-> j] \in applied

\* A record is of a step that is over, and one that cascades has made its plan skip.
Reported ==
    \A r \in Range(journal) :
        /\ r.step \in 1..Len(req[r.plan].steps) /\ r.step < step[r.plan]
        /\ ShouldCascadeSkip(r.outcome) => skip[r.plan]

IInv == TypeOK /\ Placed /\ Queued /\ Frames /\ Answers /\ Carried /\ Reported /\ HonestReport

-----------------------------------------------------------------------------
(* The calls of a step and the journal *)

\* No call that changes the page comes before one whose error is returned, a kind
\* that is not state changing has none, and a click by node has one, its second.
LEMMA CdpFacts ==
  ASSUME NEW k \in Kinds
  PROVE  /\ Len(CdpCalls(k)) \in Nat /\ DOMAIN CdpCalls(k) = 1 .. Len(CdpCalls(k))
         /\ \A i, j \in 1 .. Len(CdpCalls(k)) :
               (i < j /\ ~CdpCalls(k)[j].ignored) => ~CdpCalls(k)[i].mutates
         /\ ~StateChanging(k) => \A j \in 1 .. Len(CdpCalls(k)) : ~CdpCalls(k)[j].mutates
         /\ k = "click_node" => \A j \in 1 .. Len(CdpCalls(k)) : CdpCalls(k)[j].mutates => j = 2
<1> DEFINE a == [mutates |-> TRUE, ignored |-> FALSE]
           l == [mutates |-> FALSE, ignored |-> FALSE]
           aq == [mutates |-> TRUE, ignored |-> TRUE]
           lq == [mutates |-> FALSE, ignored |-> TRUE]
<1>1. /\ k \in {"click", "navigate"} => CdpCalls(k) = <<a>>
      /\ k = "click_node" => CdpCalls(k) = <<l, a, lq>>
      /\ k = "type" => CdpCalls(k) = <<a, aq>>
      /\ k = "press" => CdpCalls(k) = <<aq, aq>>
      /\ k = "press_enter" => CdpCalls(k) = <<aq, aq, aq>>
      /\ k = "tabs" => CdpCalls(k) = <<l>>
      /\ k = "snapshot" => CdpCalls(k) = <<lq, l>>
      /\ k = "wait" => CdpCalls(k) = << >>
  BY DEF CdpCalls
<1>2. a.mutates /\ ~a.ignored /\ ~l.mutates /\ ~l.ignored /\ aq.mutates /\ aq.ignored /\ ~lq.mutates /\ lq.ignored
  OBVIOUS
<1> HIDE DEF a, l, aq, lq
<1>3. CASE k \in {"click", "navigate"}
  BY <1>1, <1>2, <1>3 DEF StateChanging
<1>4. CASE k = "click_node"
  BY <1>1, <1>2, <1>4 DEF StateChanging
<1>5. CASE k = "type"
  BY <1>1, <1>2, <1>5 DEF StateChanging
<1>6. CASE k = "press"
  BY <1>1, <1>2, <1>6 DEF StateChanging
<1>7. CASE k = "press_enter"
  BY <1>1, <1>2, <1>7 DEF StateChanging
<1>8. CASE k = "tabs"
  BY <1>1, <1>2, <1>8 DEF StateChanging
<1>9. CASE k = "snapshot"
  BY <1>1, <1>2, <1>9 DEF StateChanging
<1>10. CASE k = "wait"
  BY <1>1, <1>2, <1>10 DEF StateChanging
<1> QED  BY <1>3, <1>4, <1>5, <1>6, <1>7, <1>8, <1>9, <1>10 DEF Kinds

\* A queue that loses its oldest element.
LEMMA TailFacts ==
  ASSUME NEW S, NEW q \in Seq(S), q # << >>
  PROVE  /\ Tail(q) \in Seq(S) /\ Len(q) \in Nat \ {0} /\ Len(Tail(q)) = Len(q) - 1
         /\ Head(q) = q[1] /\ q[1] \in S
         /\ \A i \in 1 .. Len(Tail(q)) : Tail(q)[i] = q[i + 1] /\ i + 1 \in 1 .. Len(q)
OBVIOUS

\* The journal grows by one record and may lose an older one.
LEMMA JournalGrows ==
  ASSUME TypeOK, NEW r \in Records, journal' = Journaled(r)
  PROVE  /\ journal' \in Seq(Records) /\ Len(journal') <= MaxEntries
         /\ Range(journal') \subseteq Range(journal) \cup {r}
<1>1. journal \in Seq(Records) /\ Len(journal) \in Nat /\ Len(journal) <= MaxEntries /\ MaxEntries \in Nat \ {0}
  BY BoundsAssumption DEF TypeOK
<1> DEFINE q == IF Len(journal) >= MaxEntries THEN Tail(journal) ELSE journal
<1>2. /\ q \in Seq(Records) /\ Len(q) \in Nat /\ Len(q) < MaxEntries
      /\ \A i \in 1 .. Len(q) : \E j \in 1 .. Len(journal) : q[i] = journal[j]
  <2>1. CASE Len(journal) >= MaxEntries
    <3>1. journal # << >>
      BY <1>1, <2>1
    <3>2. /\ Tail(journal) \in Seq(Records) /\ Len(Tail(journal)) = Len(journal) - 1
          /\ \A i \in 1 .. Len(Tail(journal)) : Tail(journal)[i] = journal[i + 1] /\ i + 1 \in 1 .. Len(journal)
      BY <1>1, <3>1, TailFacts
    <3> QED  BY <1>1, <2>1, <3>2
  <2>2. CASE ~(Len(journal) >= MaxEntries)
    BY <1>1, <2>2
  <2> QED  BY <2>1, <2>2
<1>3. journal' = Append(q, r)
  BY DEF Journaled
<1> HIDE DEF q
<1>4. /\ journal' \in Seq(Records) /\ Len(journal') = Len(q) + 1
      /\ \A i \in 1 .. Len(q) : journal'[i] = q[i]
      /\ journal'[Len(q) + 1] = r
  BY <1>2, <1>3
<1>5. Len(journal') <= MaxEntries
  BY <1>1, <1>2, <1>4
<1>6. ASSUME NEW x \in Range(journal') PROVE x \in Range(journal) \cup {r}
  <2>1. DOMAIN journal' = 1 .. Len(journal') /\ DOMAIN journal = 1 .. Len(journal)
    BY <1>1, <1>4
  <2>2. PICK i \in 1 .. Len(journal') : x = journal'[i]
    BY <2>1 DEF Range
  <2>3. i = Len(q) + 1 \/ i \in 1 .. Len(q)
    BY <1>2, <1>4
  <2> QED  BY <1>2, <1>4, <2>1, <2>2, <2>3 DEF Range
<1> QED  BY <1>4, <1>5, <1>6

\* What the types say of one plan.
LEMMA PlanTyped ==
  ASSUME TypeOK, NEW p \in Plans
  PROVE  /\ req[p].key \in Keys /\ req[p].steps \in Seq(Kinds) /\ Len(req[p].steps) \in Nat
         /\ \A i \in 1 .. Len(req[p].steps) : req[p].steps[i] \in Kinds
         /\ step[p] \in Nat \ {0} /\ call[p] \in Nat /\ queue[req[p].key] \in Seq(Plans)
         /\ reply[p] \in Replies
         /\ state[p] \in ActionStates \cup {"Idle", "Waiting", "Next", "Done"}
<1>1. req[p] \in [key: Keys, steps: Seq(Kinds)]
  BY WorkloadAssumption DEF TypeOK
<1> QED  BY <1>1 DEF TypeOK

\* A frame that was sent is a call.
LEMMA SentTyped ==
  ASSUME TypeOK
  PROVE  Sent \subseteq Call
<1>1. wire \in Seq(Call) /\ applied \subseteq Call
  BY DEF TypeOK
<1>2. \A i \in DOMAIN wire : wire[i] \in Call
  BY <1>1
<1> QED  BY <1>1, <1>2 DEF Sent, Range

-----------------------------------------------------------------------------
(* A plan moves on *)

Rest == Placed /\ Frames /\ Answers /\ Carried /\ Reported /\ HonestReport

Working == ActionStates \cup {"Next"}

\* Nobody enters the queue or leaves it.
LEMMA QueuedKept ==
  ASSUME IInv, UNCHANGED <<req, queue>>,
         \A q \in Plans : state'[q] \in Working =>
            state[q] \in Working \/ (state[q] = "Waiting" /\ Head(queue[req[q].key]) = q),
         \A q \in Plans : state'[q] = "Waiting" => state[q] = "Waiting"
  PROVE  Queued'
<1>1. Queued /\ \A q \in Plans : queue[req[q].key] \in Seq(Plans)
  BY PlanTyped DEF IInv
<1>2. ASSUME NEW q \in Plans, state[q] = "Waiting" PROVE queue[req[q].key] # << >>
  <2>1. PICK i \in 1 .. Len(queue[req[q].key]) : queue[req[q].key][i] = q
    BY <1>1, <1>2 DEF Queued
  <2>2. Len(queue[req[q].key]) # 0
    BY <1>1, <2>1
  <2> QED  BY <1>1, <2>2
<1> QED  BY <1>1, <1>2 DEF Queued, Working

\* A plan without a call goes to its next state.
LEMMA PlanMoves ==
  ASSUME IInv, NEW p \in Plans, NEW s, state' = [state EXCEPT ![p] = s],
         UNCHANGED <<req, step, skip, call, reply, journal, wire, applied, garbled>>,
         call[p] = 0, s # "Verifying",
         s \in ActionStates => step[p] <= Len(req[p].steps),
         skip[p] => s \in {"Next", "Done"}
  PROVE  Rest'
<1>1. /\ Placed /\ Frames /\ Answers /\ Carried /\ Reported /\ HonestReport
      /\ call[p] \in Nat /\ \A q \in Plans : state'[q] = IF q = p THEN s ELSE state[q]
  BY PlanTyped DEF IInv, TypeOK
<1>2. \A q \in Plans : Kind(q)' = Kind(q) /\ Current(q)' = Current(q) /\ Clicked(q)' = Clicked(q)
  BY DEF Kind, Current, Clicked
<1>3. Placed'
  <2>1. 0 <= Len(CdpCalls(Kind(p))) \/ s \notin {"Dispatching", "Verifying"}
    <3>1. CASE s \in ActionStates
      <4>1. Kind(p) \in Kinds
        BY <3>1, PlanTyped DEF IInv, Kind
      <4> QED  BY <4>1, CdpFacts
    <3> QED  BY <3>1 DEF ActionStates
  <2> QED  BY <1>1, <1>2, <2>1 DEF Placed
<1>4. Frames'
  BY <1>1 DEF Frames, Sent
<1>5. Answers'
  <2>1. ~(call'[p] > 0)
    BY <1>1
  <2> QED  BY <1>1, <1>2, <2>1 DEF Answers, AnswersOf, Sent
<1>6. Carried'
  BY <1>1, <1>2 DEF Carried
<1>7. Reported'
  BY <1>1 DEF Reported
<1>8. HonestReport'
  BY <1>1 DEF HonestReport, Effects
<1> QED  BY <1>3, <1>4, <1>5, <1>6, <1>7, <1>8 DEF Rest

\* A step that has made no call, or whose kind changes nothing, has no effects.
LEMMA NoEffects ==
  ASSUME IInv, NEW p \in Plans, step[p] <= Len(req[p].steps),
         call[p] = 0 \/ ~StateChanging(Kind(p))
  PROVE  Effects(p, step[p]) = {}
<1>1. /\ Frames /\ step[p] \in 1 .. Len(req[p].steps) /\ call[p] \in Nat /\ Kind(p) \in Kinds
  BY PlanTyped DEF IInv, Kind
<1>2. ASSUME NEW c \in Effects(p, step[p]) PROVE FALSE
  <2>1. c \in Sent /\ c.plan = p /\ c.step = step[p] /\ CdpCalls(Kind(p))[c.call].mutates
    BY <1>2 DEF Effects, Sent, Kind
  <2>2. c.call \in 1 .. Len(CdpCalls(Kind(p))) /\ c.call <= call[p]
    BY <1>1, <2>1 DEF Frames, Kind
  <2>3. Len(CdpCalls(Kind(p))) \in Nat
    BY <1>1, CdpFacts
  <2>4. CASE call[p] = 0
    BY <2>2, <2>3, <2>4
  <2>5. CASE ~StateChanging(Kind(p))
    BY <1>1, <2>1, <2>2, <2>5, CdpFacts
  <2> QED  BY <2>4, <2>5
<1> QED  BY <1>2

\* A step ends with an honest record.
LEMMA StepEnds ==
  ASSUME IInv, NEW p \in Plans, NEW s \in Terminal, NEW o \in Outcomes, EndStepWith(p, s, o),
         UNCHANGED <<req, queue, cancel, world>>,
         state[p] \in Working, step[p] <= Len(req[p].steps),
         s \in {"Failed", "Cancelled"} => Effects(p, step[p]) \subseteq garbled,
         s = "Completed" => state[p] = "Verifying"
  PROVE  IInv'
<1> DEFINE r == [plan |-> p, step |-> step[p], state |-> s, outcome |-> o]
<1>1. /\ TypeOK /\ Placed /\ Frames /\ Answers /\ Carried /\ Reported /\ HonestReport
      /\ step[p] \in Nat \ {0} /\ step[p] \in 1 .. Len(req[p].steps) /\ Kind(p) \in Kinds
  BY PlanTyped DEF IInv, Kind
<1>2. r \in Records /\ r.plan = p /\ r.step = step[p] /\ r.state = s /\ r.outcome = o
  BY <1>1 DEF Records
<1>3. journal' = Journaled(r)
  BY DEF EndStepWith
<1> HIDE DEF r
<1>4. /\ journal' \in Seq(Records) /\ Len(journal') <= MaxEntries
      /\ Range(journal') \subseteq Range(journal) \cup {r}
  BY <1>1, <1>2, <1>3, JournalGrows
<1>5. /\ \A q \in Plans : state'[q] = IF q = p THEN "Next" ELSE state[q]
      /\ \A q \in Plans : step'[q] = IF q = p THEN step[p] + 1 ELSE step[q]
      /\ \A q \in Plans : call'[q] = IF q = p THEN 0 ELSE call[q]
      /\ \A q \in Plans : q # p => reply'[q] = reply[q] /\ skip'[q] = skip[q]
      /\ UNCHANGED <<req, queue, cancel, alive, dom, wire, applied, garbled>>
  BY <1>1 DEF EndStepWith, TypeOK, world
<1>6. skip' \in [Plans -> BOOLEAN] /\ (skip[p] => skip'[p]) /\ (ShouldCascadeSkip(o) => skip'[p])
  <2>1. skip \in [Plans -> BOOLEAN] /\ skip' = [skip EXCEPT ![p] = skip[p] \/ ShouldCascadeSkip(o)]
    BY <1>1 DEF EndStepWith, TypeOK
  <2>2. (skip[p] \/ ShouldCascadeSkip(o)) \in BOOLEAN
    BY Zenon
  <2>3. skip' \in [Plans -> BOOLEAN] /\ skip'[p] = (skip[p] \/ ShouldCascadeSkip(o))
    BY <2>1, <2>2, Zenon
  <2> QED  BY <2>3, Zenon
<1>7. TypeOK'
  <2>1. /\ state' \in [Plans -> ActionStates \cup {"Idle", "Waiting", "Next", "Done"}]
        /\ step' \in [Plans -> Nat \ {0}] /\ call' \in [Plans -> Nat]
        /\ reply' \in [Plans -> Replies]
    BY <1>1 DEF EndStepWith, TypeOK, Replies
  <2>2. ref' \in [Plans -> 0 .. MaxDom]
    <3>1. 0 \in 0 .. MaxDom
      BY BoundsAssumption
    <3> QED  BY <1>1, <3>1 DEF EndStepWith, TypeOK
  <2> QED  BY <1>1, <1>4, <1>5, <1>6, <2>1, <2>2 DEF TypeOK
<1>8. Placed'
  <2>1. \A q \in Plans : q # p => Kind(q)' = Kind(q)
    BY <1>5 DEF Kind
  <2> QED  BY <1>1, <1>5, <2>1 DEF Placed, ActionStates
<1>9. Queued'
  BY <1>5, QueuedKept DEF Working
<1>10. ASSUME NEW c \in Sent PROVE c.plan \in Plans /\ c.step \in Nat
  BY <1>1, <1>10, SentTyped DEF Call
<1>11. Frames'
  <2>1. Sent' = Sent
    BY <1>5 DEF Sent
  <2>2. ASSUME NEW c \in Sent
        PROVE  /\ c.step \in 1 .. Len(req[c.plan].steps) /\ c.step <= step'[c.plan]
               /\ c.call \in 1 .. Len(CdpCalls(req[c.plan].steps[c.step]))
               /\ c.step = step'[c.plan] => c.call <= call'[c.plan]
    <3>1. /\ c.step \in 1 .. Len(req[c.plan].steps) /\ c.step <= step[c.plan]
          /\ c.call \in 1 .. Len(CdpCalls(req[c.plan].steps[c.step]))
          /\ c.step = step[c.plan] => c.call <= call[c.plan]
      BY <1>1, <2>2 DEF Frames
    <3> QED  BY <1>1, <1>5, <1>10, <2>2, <3>1
  <2> QED  BY <1>1, <1>5, <2>1, <2>2 DEF Frames
<1>12. Answers'
  <2>1. \A q \in Plans : q # p => Kind(q)' = Kind(q) /\ Current(q)' = Current(q) /\ Clicked(q)' = Clicked(q)
    BY <1>5 DEF Kind, Current, Clicked
  <2>2. ASSUME NEW q \in Plans PROVE AnswersOf(q)'
    <3>1. CASE q = p
      BY <1>5, <3>1 DEF AnswersOf
    <3>2. CASE q # p
      <4>1. AnswersOf(q)
        BY <1>1 DEF Answers
      <4>2. state'[q] = state[q] /\ step'[q] = step[q] /\ call'[q] = call[q] /\ reply'[q] = reply[q]
            /\ Kind(q)' = Kind(q) /\ Current(q)' = Current(q) /\ Clicked(q)' = Clicked(q)
            /\ Sent' = Sent /\ UNCHANGED <<applied, garbled>>
        BY <1>5, <2>1, <3>2 DEF Sent
      <4> QED  BY <4>1, <4>2 DEF AnswersOf
    <3> QED  BY <3>1, <3>2
  <2> QED  BY <2>2 DEF Answers
<1>13. Carried'
  <2>1. \A q \in Plans : q # p => Kind(q)' = Kind(q)
    BY <1>5 DEF Kind
  <2> QED  BY <1>1, <1>5, <2>1 DEF Carried
<1>14. ASSUME NEW x \in Range(journal) PROVE x \in Records
  BY <1>1 DEF TypeOK, Range
<1>15. Reported'
  <2> SUFFICES ASSUME NEW x \in Range(journal')
               PROVE  /\ x.step \in 1 .. Len(req[x.plan].steps) /\ x.step < step'[x.plan]
                      /\ ShouldCascadeSkip(x.outcome) => skip'[x.plan]
    BY <1>5 DEF Reported
  <2>1. CASE x = r
    <3>1. x.step < step'[x.plan] /\ x.step \in 1 .. Len(req[x.plan].steps)
      BY <1>1, <1>2, <1>5, <2>1
    <3>2. ShouldCascadeSkip(x.outcome) => skip'[x.plan]
      BY <1>2, <1>6, <2>1, Zenon
    <3> QED  BY <3>1, <3>2
  <2>2. CASE x \in Range(journal)
    <3>1. /\ x.step \in 1 .. Len(req[x.plan].steps) /\ x.step < step[x.plan]
          /\ (ShouldCascadeSkip(x.outcome) => skip[x.plan])
      BY <1>1, <2>2 DEF Reported
    <3>2. x.plan \in Plans /\ x.step \in Nat
      BY <1>14, <2>2 DEF Records
    <3>3. x.step < step'[x.plan]
      BY <1>1, <1>5, <3>1, <3>2
    <3>4. skip[x.plan] => skip'[x.plan]
      BY <1>5, <1>6, <3>2
    <3> QED  BY <3>1, <3>3, <3>4, Zenon
  <2> QED  BY <1>4, <2>1, <2>2
<1>16. HonestReport'
  <2>1. ASSUME NEW q, NEW i PROVE Effects(q, i)' = Effects(q, i)
    BY <1>5 DEF Effects
  <2>2. ASSUME NEW i \in (step[p] + 1) .. Len(req[p].steps) PROVE Effects(p, i) = {}
    <3>1. ASSUME NEW c \in Effects(p, i) PROVE FALSE
      <4>1. c \in Sent /\ c.plan = p /\ c.step = i
        BY <3>1 DEF Effects, Sent
      <4>2. c.step <= step[p]
        BY <1>1, <4>1 DEF Frames
      <4> QED  BY <1>1, <4>1, <4>2
    <3> QED  BY <3>1
  <2>3. s = "Completed" => \A j \in DOMAIN CdpCalls(Kind(p)) :
              (CdpCalls(Kind(p))[j].mutates /\ ~CdpCalls(Kind(p))[j].ignored) =>
                  [plan |-> p, step |-> step[p], call |-> j] \in applied
    BY <1>1, CdpFacts DEF Carried
  <2> SUFFICES ASSUME NEW x \in Range(journal')
               PROVE  /\ x.state \in {"Failed", "Cancelled"} => Effects(x.plan, x.step) \subseteq garbled
                      /\ ShouldCascadeSkip(x.outcome) =>
                            \A i \in (x.step + 1) .. Len(req[x.plan].steps) : Effects(x.plan, i) = {}
                      /\ x.state = "Completed" =>
                            \A j \in DOMAIN CdpCalls(req[x.plan].steps[x.step]) :
                               (/\ CdpCalls(req[x.plan].steps[x.step])[j].mutates
                                /\ ~CdpCalls(req[x.plan].steps[x.step])[j].ignored) =>
                                  [plan |-> x.plan, step |-> x.step, call |-> j] \in applied
    BY <1>5, <2>1 DEF HonestReport
  <2>4. CASE x = r
    BY <1>2, <2>2, <2>3, <2>4 DEF Kind
  <2>5. CASE x \in Range(journal)
    BY <1>1, <2>5 DEF HonestReport
  <2> QED  BY <1>4, <2>4, <2>5
<1> QED  BY <1>7, <1>8, <1>9, <1>11, <1>12, <1>13, <1>15, <1>16 DEF IInv

\* A plan that holds the mutex, or gets it, goes on without an answer or a record.
LEMMA PlanGoes ==
  ASSUME IInv, NEW p \in Plans, NEW s \in Working, Goto(p, s), UNCHANGED <<req, queue, cancel, world>>,
         s # "Verifying", call[p] = 0,
         state[p] \in Working \/ (state[p] = "Waiting" /\ Head(queue[req[p].key]) = p),
         s \in ActionStates => (step[p] <= Len(req[p].steps) /\ ~skip[p])
  PROVE  IInv'
<1>1. TypeOK /\ state' = [state EXCEPT ![p] = s] /\ UNCHANGED <<step, skip, ref, call, reply, journal>>
      /\ UNCHANGED <<alive, dom, wire, applied, garbled>>
  BY DEF IInv, Goto, world
<1>2. TypeOK'
  BY <1>1 DEF TypeOK, Working
<1>3. /\ \A q \in Plans : state'[q] \in Working =>
            state[q] \in Working \/ (state[q] = "Waiting" /\ Head(queue[req[q].key]) = q)
      /\ \A q \in Plans : state'[q] = "Waiting" => state[q] = "Waiting"
  BY <1>1 DEF TypeOK, Working, ActionStates
<1>4. Queued'
  BY <1>3, QueuedKept
<1>5. Rest'
  <2>1. skip[p] => s \in {"Next", "Done"}
    BY DEF Working
  <2> QED  BY <1>1, <2>1, PlanMoves
<1> QED  BY <1>2, <1>4, <1>5 DEF IInv, Rest

\* The request enters the queue of its key, or is refused.
LEMMA SubmitIInv ==
  ASSUME IInv, NEW p \in Plans, Submit(p)
  PROVE  IInv'
<1>1. /\ TypeOK /\ Placed /\ Queued /\ state[p] = "Idle" /\ UNCHANGED <<req, cancel>>
      /\ UNCHANGED <<alive, dom, wire, applied, garbled>> /\ UNCHANGED <<step, skip, ref, call, reply, journal>>
  BY DEF IInv, Submit, Goto, world
<1>2. /\ ~skip[p] /\ call[p] = 0 /\ req[p].key \in Keys /\ queue[req[p].key] \in Seq(Plans)
      /\ \A q \in Plans : req[q].key \in Keys /\ queue[req[q].key] \in Seq(Plans)
  BY <1>1, PlanTyped DEF Placed
<1>3. CASE alive /\ queue' = [queue EXCEPT ![req[p].key] = Append(@, p)] /\ Goto(p, "Waiting")
  <2>1. state' = [state EXCEPT ![p] = "Waiting"]
    BY <1>3 DEF Goto
  <2>2. TypeOK'
    <3>1. queue' \in [Keys -> Seq(Plans)]
      BY <1>1, <1>2, <1>3 DEF TypeOK
    <3> QED  BY <1>1, <2>1, <3>1 DEF TypeOK
  <2>3. Rest'
    BY <1>1, <1>2, <2>1, PlanMoves DEF ActionStates
  <2>4. Queued'
    <3> SUFFICES ASSUME NEW q \in Plans
                 PROVE  /\ state'[q] \in ActionStates \cup {"Next"} =>
                              queue'[req[q].key] # << >> /\ Head(queue'[req[q].key]) = q
                        /\ state'[q] = "Waiting" => \E i \in 1 .. Len(queue'[req[q].key]) : queue'[req[q].key][i] = q
      BY <1>1 DEF Queued
    <3> DEFINE o == queue[req[q].key]
               n == queue'[req[q].key]
    <3>1. n = o \/ (n = Append(o, p) /\ req[q].key = req[p].key)
      BY <1>1, <1>2, <1>3 DEF TypeOK
    <3>2. o \in Seq(Plans) /\ Len(o) \in Nat
      BY <1>2
    <3>3. /\ Len(o) <= Len(n) /\ \A i \in 1 .. Len(o) : n[i] = o[i]
      BY <3>1, <3>2
    <3>4. n \in Seq(Plans)
      <4>1. Append(o, p) \in Seq(Plans)
        BY <3>2
      <4> QED  BY <3>1, <3>2, <4>1, Zenon
    <3>5. state'[q] = IF q = p THEN "Waiting" ELSE state[q]
      BY <1>1, <2>1 DEF TypeOK
    <3>6. CASE q = p
      <4>1. n = Append(o, p)
        BY <1>1, <1>2, <1>3, <3>6 DEF TypeOK
      <4>2. n[Len(o) + 1] = p /\ Len(o) + 1 \in 1 .. Len(n)
        BY <3>2, <4>1
      <4> QED  BY <3>5, <3>6, <4>2 DEF ActionStates
    <3>7. CASE q # p
      <4>1. /\ state[q] \in ActionStates \cup {"Next"} => o # << >> /\ Head(o) = q
            /\ state[q] = "Waiting" => \E i \in 1 .. Len(o) : o[i] = q
        BY <1>1 DEF Queued
      <4> HIDE DEF o, n
      <4>2. o # << >> => n # << >> /\ Head(n) = Head(o)
        BY <3>2, <3>3, <3>4
      <4>3. \A i \in 1 .. Len(o) : i \in 1 .. Len(n) /\ n[i] = o[i]
        BY <3>2, <3>3, <3>4
      <4> QED  BY <3>5, <3>7, <4>1, <4>2, <4>3 DEF n
    <3> QED  BY <3>6, <3>7
  <2> QED  BY <2>2, <2>3, <2>4 DEF IInv, Rest
<1>4. CASE Goto(p, "Done") /\ UNCHANGED queue
  <2>1. state' = [state EXCEPT ![p] = "Done"]
    BY <1>4 DEF Goto
  <2>2. TypeOK'
    BY <1>1, <1>4, <2>1 DEF TypeOK
  <2>3. Rest'
    BY <1>1, <1>2, <2>1, PlanMoves DEF ActionStates
  <2>4. Queued'
    BY <1>1, <1>4, <2>1, QueuedKept DEF TypeOK, Working, ActionStates
  <2> QED  BY <2>2, <2>3, <2>4 DEF IInv, Rest
<1> QED  BY <1>3, <1>4 DEF Submit

\* The mutex is handed to the next in the queue.
LEMMA AnswerIInv ==
  ASSUME IInv, NEW p \in Plans, Answer(p)
  PROVE  IInv'
<1>1. /\ TypeOK /\ Placed /\ Queued /\ state[p] = "Next" /\ UNCHANGED <<req, cancel>>
      /\ UNCHANGED <<alive, dom, wire, applied, garbled>> /\ UNCHANGED <<step, skip, ref, call, reply, journal>>
      /\ queue' = [queue EXCEPT ![req[p].key] = Tail(@)] /\ state' = [state EXCEPT ![p] = "Done"]
  BY DEF IInv, Answer, Goto, world
<1>2. /\ call[p] = 0 /\ req[p].key \in Keys /\ queue[req[p].key] \in Seq(Plans)
      /\ queue[req[p].key] # << >> /\ Head(queue[req[p].key]) = p
      /\ \A q \in Plans : req[q].key \in Keys /\ queue[req[q].key] \in Seq(Plans)
  BY <1>1, PlanTyped DEF Placed, Queued
<1>3. TypeOK'
  <2>1. Tail(queue[req[p].key]) \in Seq(Plans)
    BY <1>2
  <2>2. queue' \in [Keys -> Seq(Plans)]
    BY <1>1, <2>1 DEF TypeOK
  <2> QED  BY <1>1, <2>2 DEF TypeOK
<1>4. Rest'
  BY <1>1, <1>2, PlanMoves DEF ActionStates
<1>5. Queued'
  <2> SUFFICES ASSUME NEW q \in Plans
               PROVE  /\ state'[q] \in ActionStates \cup {"Next"} =>
                            queue'[req[q].key] # << >> /\ Head(queue'[req[q].key]) = q
                      /\ state'[q] = "Waiting" => \E i \in 1 .. Len(queue'[req[q].key]) : queue'[req[q].key][i] = q
    BY <1>1 DEF Queued
  <2>1. state'[q] = IF q = p THEN "Done" ELSE state[q]
    BY <1>1 DEF TypeOK
  <2>2. /\ state[q] \in ActionStates \cup {"Next"} =>
              queue[req[q].key] # << >> /\ Head(queue[req[q].key]) = q
        /\ state[q] = "Waiting" => \E i \in 1 .. Len(queue[req[q].key]) : queue[req[q].key][i] = q
    BY <1>1 DEF Queued
  <2>3. CASE q = p
    BY <2>1, <2>3 DEF ActionStates
  <2>4. CASE q # p /\ req[q].key # req[p].key
    <3>1. queue'[req[q].key] = queue[req[q].key]
      BY <1>1, <1>2, <2>4 DEF TypeOK
    <3> QED  BY <2>1, <2>2, <2>4, <3>1
  <2>5. CASE q # p /\ req[q].key = req[p].key
    <3> DEFINE o == queue[req[p].key]
    <3>1. queue'[req[q].key] = Tail(o) /\ o \in Seq(Plans) /\ o # << >> /\ Head(o) = p
      BY <1>1, <1>2, <2>5 DEF TypeOK
    <3>2. state[q] \notin ActionStates \cup {"Next"}
      BY <1>2, <2>2, <2>5
    <3>3. ASSUME state[q] = "Waiting" PROVE \E i \in 1 .. Len(Tail(o)) : Tail(o)[i] = q
      <4>1. PICK j \in 1 .. Len(o) : o[j] = q
        BY <2>2, <2>5, <3>3
      <4>2. /\ Len(o) \in Nat \ {0} /\ Len(Tail(o)) = Len(o) - 1 /\ Head(o) = o[1]
            /\ \A i \in 1 .. Len(Tail(o)) : Tail(o)[i] = o[i + 1]
        BY <3>1, TailFacts
      <4>3. j # 1
        BY <2>5, <3>1, <4>1, <4>2
      <4> HIDE DEF o
      <4>4. j - 1 \in 1 .. Len(Tail(o)) /\ (j - 1) + 1 = j
        BY <4>1, <4>2, <4>3
      <4> QED  BY <4>1, <4>2, <4>4
    <3> QED  BY <2>1, <2>5, <3>1, <3>2, <3>3
  <2> QED  BY <2>3, <2>4, <2>5
<1> QED  BY <1>3, <1>4, <1>5 DEF IInv, Rest


-----------------------------------------------------------------------------
(* The steps up to the dispatch *)

\* A step that ends before its first call, or is skipped, has no effects to hide.
LEMMA EndsEarly ==
  ASSUME IInv, NEW p \in Plans, NEW s \in {"Failed", "Cancelled"}, NEW o \in Outcomes,
         EndStepWith(p, s, o), UNCHANGED <<req, queue, cancel, world>>,
         state[p] \in Working, call[p] = 0, step[p] <= Len(req[p].steps)
  PROVE  IInv'
<1>1. Effects(p, step[p]) = {}
  BY NoEffects
<1>2. s \in Terminal /\ s # "Completed"
  BY DEF Terminal
<1> QED  BY <1>1, <1>2, StepEnds

\* The categories of the action states.
LEMMA OutcomeFacts ==
  /\ OutcomeOf["Failed"] \in Outcomes /\ OutcomeOf["Cancelled"] \in Outcomes
  /\ \A s \in Terminal : OutcomeOf[s] \in Outcomes
BY DEF OutcomeOf, Outcomes, Terminal

\* The task gets the mutex.
LEMMA AcquireIInv ==
  ASSUME IInv, NEW p \in Plans, Acquire(p)
  PROVE  IInv'
<1>1. call[p] = 0
  BY DEF IInv, Placed, Acquire
<1>2. "Next" \in Working /\ "Next" \notin ActionStates
  BY DEF Working, ActionStates
<1> QED  BY <1>1, <1>2, PlanGoes DEF Acquire

\* The loop over the steps takes up the next one, skips it or sees the token.
LEMMA NextStepIInv ==
  ASSUME IInv, NEW p \in Plans, NextStep(p)
  PROVE  IInv'
<1>1. /\ state[p] \in Working /\ call[p] = 0 /\ step[p] <= Len(req[p].steps)
      /\ UNCHANGED <<req, queue, cancel, world>>
  BY DEF IInv, Placed, NextStep, Working
<1>2. CASE EndStepWith(p, "Cancelled", "skipped")
  <2>1. "skipped" \in Outcomes
    BY DEF Outcomes
  <2> QED  BY <1>1, <1>2, <2>1, EndsEarly
<1>3. CASE FinalizeCancelled(p)
  BY <1>1, <1>3, EndsEarly, OutcomeFacts DEF FinalizeCancelled, EndStep
<1>4. CASE ~skip[p] /\ Goto(p, "Accepted")
  <2>1. "Accepted" \in Working
    BY DEF Working, ActionStates
  <2> QED  BY <1>1, <1>4, <2>1, PlanGoes
<1> QED  BY <1>2, <1>3, <1>4 DEF NextStep

\* A step goes from one of its stages to the next, or is cancelled or refused there.
LEMMA StageIInv ==
  ASSUME IInv, NEW p \in Plans, UNCHANGED <<req, queue, cancel, world>>,
         state[p] \in ActionStates \ {"Dispatching", "Verifying"},
         NEW s \in ActionStates \ {"Verifying"},
         FinalizeCancelled(p) \/ EndStep(p, "Failed") \/ Goto(p, s)
  PROVE  IInv'
<1>1. call[p] = 0 /\ step[p] <= Len(req[p].steps) /\ state[p] \in Working /\ ~skip[p] /\ s \in Working
  BY DEF IInv, Placed, Working, ActionStates
<1>2. CASE FinalizeCancelled(p)
  BY <1>1, <1>2, EndsEarly, OutcomeFacts DEF FinalizeCancelled, EndStep
<1>3. CASE EndStep(p, "Failed")
  BY <1>1, <1>3, EndsEarly, OutcomeFacts DEF EndStep
<1>4. CASE Goto(p, s)
  BY <1>1, <1>4, PlanGoes
<1> QED  BY <1>2, <1>3, <1>4

\* The element is looked up: the step has a reference, has none, or fails.
LEMMA ResolveIInv ==
  ASSUME IInv, NEW p \in Plans, Resolve(p)
  PROVE  IInv'
<1>1. /\ TypeOK /\ Placed /\ state[p] = "Resolving" /\ call[p] = 0 /\ step[p] <= Len(req[p].steps) /\ ~skip[p]
      /\ UNCHANGED <<req, queue, cancel>> /\ UNCHANGED <<alive, dom, wire, applied, garbled>>
  BY DEF IInv, Placed, Resolve, ActionStates, world
<1>2. CASE FinalizeCancelled(p) \/ EndStep(p, "Failed")
  <2>1. "Resolving" \in ActionStates \ {"Dispatching", "Verifying"} /\ "Resolved" \in ActionStates \ {"Verifying"}
    BY DEF ActionStates
  <2> QED  BY <1>1, <1>2, <2>1, StageIInv DEF world
<1>3. CASE /\ \E v \in IF NeedsElement(Kind(p)) THEN {0, dom} ELSE {0} : ref' = [ref EXCEPT ![p] = v]
           /\ state' = [state EXCEPT ![p] = "Resolved"]
           /\ UNCHANGED <<step, skip, call, reply, journal>>
  <2>1. ref' \in [Plans -> 0 .. MaxDom]
    <3>1. PICK v \in {0, dom} : ref' = [ref EXCEPT ![p] = v]
      BY <1>3
    <3>2. v \in 0 .. MaxDom
      BY <1>1, BoundsAssumption DEF TypeOK
    <3> QED  BY <1>1, <3>1, <3>2 DEF TypeOK
  <2>2. TypeOK'
    BY <1>1, <1>3, <2>1 DEF TypeOK, ActionStates
  <2>3. Queued'
    BY <1>1, <1>3, QueuedKept DEF TypeOK, Working, ActionStates
  <2>4. Rest'
    BY <1>1, <1>3, PlanMoves
  <2> QED  BY <2>2, <2>3, <2>4 DEF IInv, Rest
<1> QED  BY <1>2, <1>3 DEF Resolve

\* The steps of a plan before its dispatch.
LEMMA BeforeDispatchIInv ==
  ASSUME IInv, NEW p \in Plans,
         \/ StartResolving(p) \/ StartPreconditionCheck(p) \/ PreconditionCheck(p)
         \/ StartDispatching(p) \/ ResolutionTimeout(p)
  PROVE  IInv'
<1>1. /\ {"Accepted", "Resolved", "PreconditionCheck", "Checked", "Resolving"} \subseteq
            ActionStates \ {"Dispatching", "Verifying"}
      /\ {"Resolving", "PreconditionCheck", "Checked", "Dispatching"} \subseteq ActionStates \ {"Verifying"}
  BY DEF ActionStates
<1>2. CASE StartResolving(p)
  BY <1>1, <1>2, StageIInv DEF StartResolving
<1>3. CASE StartPreconditionCheck(p)
  BY <1>1, <1>3, StageIInv DEF StartPreconditionCheck
<1>4. CASE PreconditionCheck(p)
  BY <1>1, <1>4, StageIInv DEF PreconditionCheck
<1>5. CASE StartDispatching(p)
  BY <1>1, <1>5, StageIInv DEF StartDispatching
<1>6. CASE ResolutionTimeout(p)
  BY <1>1, <1>6, StageIInv DEF ResolutionTimeout
<1> QED  BY <1>2, <1>3, <1>4, <1>5, <1>6


-----------------------------------------------------------------------------
(* The dispatch *)

\* The facts about a plan that dispatches or verifies.
LEMMA DispatchTyped ==
  ASSUME IInv, NEW p \in Plans, state[p] \in {"Dispatching", "Verifying"}
  PROVE  /\ step[p] \in 1 .. Len(req[p].steps) /\ step[p] \in Nat \ {0} /\ step[p] <= Len(req[p].steps)
         /\ Len(req[p].steps) \in Nat
         /\ Kind(p) \in Kinds /\ Kind(p) = req[p].steps[step[p]]
         /\ call[p] \in Nat /\ Len(CdpCalls(Kind(p))) \in Nat
         /\ call[p] <= Len(CdpCalls(Kind(p))) /\ ~skip[p]
         /\ state[p] \in Working
<1>1. /\ step[p] <= Len(req[p].steps) /\ call[p] <= Len(CdpCalls(Kind(p))) /\ ~skip[p]
      /\ state[p] \in Working
  BY DEF IInv, Placed, Working, ActionStates
<1>2. step[p] \in Nat \ {0} /\ Len(req[p].steps) \in Nat /\ call[p] \in Nat
      /\ \A i \in 1 .. Len(req[p].steps) : req[p].steps[i] \in Kinds
  BY PlanTyped DEF IInv
<1>3. step[p] \in 1 .. Len(req[p].steps) /\ Kind(p) \in Kinds
  BY <1>1, <1>2 DEF Kind
<1> QED  BY <1>1, <1>2, <1>3, CdpFacts DEF Kind

\* A call whose error is returned was refused, or carried out with an answer that did
\* not decode; the calls before it changed nothing.
LEMMA RefusalIsHonest ==
  ASSUME IInv, NEW p \in Plans, state[p] = "Dispatching", call[p] > 0,
         reply[p] \in {"error", "invalid"}, ~CdpCalls(Kind(p))[call[p]].ignored
  PROVE  Effects(p, step[p]) \subseteq garbled
<1> SUFFICES ASSUME NEW c \in Effects(p, step[p])
             PROVE  c \in garbled
  OBVIOUS
<1>1. c \in Sent /\ c.plan = p /\ c.step = step[p] /\ CdpCalls(Kind(p))[c.call].mutates
  BY DEF Effects, Sent, Kind
<1>2. c.call \in 1 .. Len(CdpCalls(Kind(p))) /\ c.call <= call[p]
  BY <1>1 DEF IInv, Frames, Kind
<1>3. /\ Kind(p) \in Kinds /\ call[p] \in Nat /\ call[p] <= Len(CdpCalls(Kind(p)))
      /\ Len(CdpCalls(Kind(p))) \in Nat
  BY DispatchTyped
<1>4. c.call = call[p]
  <2> SUFFICES ASSUME c.call < call[p]
               PROVE  FALSE
    BY <1>2, <1>3
  <2>1. call[p] \in 1 .. Len(CdpCalls(Kind(p)))
    BY <1>3
  <2> QED  BY <1>1, <1>2, <1>3, <2>1, CdpFacts
<1>5. c = Current(p)
  <2>1. c \in Call
    BY <1>1, SentTyped DEF IInv
  <2> QED  BY <1>1, <1>4, <2>1 DEF Call, Current
<1> QED  BY <1>1, <1>5 DEF IInv, Answers, AnswersOf

\* A click whose error was kept while its object was released was refused, or carried
\* out with an answer that did not decode; nothing else of the step changes the page.
LEMMA KeptRefusalIsHonest ==
  ASSUME IInv, NEW p \in Plans, state[p] = "Dispatching", call[p] > 0,
         reply[p] \in {"error kept", "invalid kept"}
  PROVE  Effects(p, step[p]) \subseteq garbled
<1> SUFFICES ASSUME NEW c \in Effects(p, step[p])
             PROVE  c \in garbled
  OBVIOUS
<1>1. c \in Sent /\ c.plan = p /\ c.step = step[p] /\ CdpCalls(Kind(p))[c.call].mutates
  BY DEF Effects, Sent, Kind
<1>2. c.call \in 1 .. Len(CdpCalls(Kind(p)))
  BY <1>1 DEF IInv, Frames, Kind
<1>3. /\ Kind(p) = "click_node"
      /\ reply[p] = "error kept" => Clicked(p) \notin Sent
      /\ reply[p] = "invalid kept" => Clicked(p) \in garbled
  BY DEF IInv, Answers, AnswersOf, KeptErrors
<1>4. c.call = 2
  <2>1. "click_node" \in Kinds
    BY DEF Kinds
  <2> QED  BY <1>1, <1>2, <1>3, <2>1, CdpFacts
<1>5. c = Clicked(p)
  <2>1. c \in Call
    BY <1>1, SentTyped DEF IInv
  <2> QED  BY <1>1, <1>4, <2>1 DEF Call, Clicked
<1> QED  BY <1>1, <1>3, <1>5

\* A dispatch that did not answer is reported Unknown unless it cannot change the page.
LEMMA TimedOutIInv ==
  ASSUME IInv, NEW p \in Plans, state[p] \in {"Dispatching", "Verifying"},
         EndStep(p, TimedOut(p)), UNCHANGED <<req, queue, cancel, world>>
  PROVE  IInv'
<1>1. TimedOut(p) \in Terminal /\ TimedOut(p) # "Completed" /\ TimedOut(p) # "Cancelled"
  BY DEF TimedOut, Terminal
<1>2. step[p] <= Len(req[p].steps) /\ state[p] \in Working
  BY DispatchTyped
<1>3. TimedOut(p) = "Failed" => Effects(p, step[p]) \subseteq garbled
  BY <1>2, NoEffects DEF TimedOut
<1> QED  BY <1>1, <1>2, <1>3, StepEnds, OutcomeFacts DEF EndStep

\* The error of a call ends its step.
LEMMA CallFailsIInv ==
  ASSUME IInv, NEW p \in Plans, CallFails(p)
  PROVE  IInv'
<1>1. state[p] = "Dispatching" /\ call[p] > 0 /\ ~CdpCalls(Kind(p))[call[p]].ignored
      /\ UNCHANGED <<req, queue, cancel, world>> /\ reply[p] \in {"error", "invalid", "dead"}
  BY DEF CallFails, Errors
<1>2. CASE reply[p] = "dead"
  BY <1>1, <1>2, TimedOutIInv DEF CallFails, Refused
<1>3. CASE reply[p] # "dead"
  <2>1. EndStep(p, "Failed") /\ reply[p] \in {"error", "invalid"}
    BY <1>1, <1>3 DEF CallFails, Refused
  <2>2. Effects(p, step[p]) \subseteq garbled
    BY <1>1, <2>1, RefusalIsHonest
  <2>3. step[p] <= Len(req[p].steps) /\ state[p] \in Working
    BY <1>1, DispatchTyped
  <2>4. "Failed" \in Terminal
    BY DEF Terminal
  <2> QED  BY <1>1, <2>1, <2>2, <2>3, <2>4, StepEnds, OutcomeFacts DEF EndStep
<1> QED  BY <1>2, <1>3

\* The release is through and the click's error ends the step.
LEMMA ReleaseReturnsIInv ==
  ASSUME IInv, NEW p \in Plans, ReleaseReturns(p)
  PROVE  IInv'
<1>1. state[p] = "Dispatching" /\ call[p] > 0 /\ UNCHANGED <<req, queue, cancel, world>>
      /\ reply[p] \in {"error kept", "invalid kept", "dead kept"}
  BY DEF ReleaseReturns, KeptErrors
<1>2. CASE reply[p] = "dead kept"
  BY <1>1, <1>2, TimedOutIInv DEF ReleaseReturns, Refused
<1>3. CASE reply[p] # "dead kept"
  <2>1. EndStep(p, "Failed") /\ reply[p] \in {"error kept", "invalid kept"}
    BY <1>1, <1>3 DEF ReleaseReturns, Refused
  <2>2. Effects(p, step[p]) \subseteq garbled
    BY <1>1, <2>1, KeptRefusalIsHonest
  <2>3. step[p] <= Len(req[p].steps) /\ state[p] \in Working
    BY <1>1, DispatchTyped
  <2>4. "Failed" \in Terminal
    BY DEF Terminal
  <2> QED  BY <1>1, <2>1, <2>2, <2>3, <2>4, StepEnds, OutcomeFacts DEF EndStep
<1> QED  BY <1>2, <1>3

\* The verdict ends the step.
LEMMA VerifyIInv ==
  ASSUME IInv, NEW p \in Plans, Verify(p)
  PROVE  IInv'
<1>1. state[p] = "Verifying" /\ UNCHANGED <<req, queue, cancel, world>>
  BY DEF Verify
<1>2. PICK s \in Verdicts(Kind(p)) : EndStep(p, s)
  BY DEF Verify
<1>3. s \in Terminal /\ s \notin {"Failed", "Cancelled"}
  BY <1>2 DEF Verdicts, Terminal
<1>4. step[p] <= Len(req[p].steps) /\ state[p] \in Working
  BY <1>1, DispatchTyped
<1> QED  BY <1>1, <1>2, <1>3, <1>4, StepEnds, OutcomeFacts DEF EndStep

\* A deadline ends the step in any suspended state.
LEMMA DeadlineIInv ==
  ASSUME IInv, NEW p \in Plans, Deadline(p)
  PROVE  IInv'
<1>1. CASE ResolutionTimeout(p)
  BY <1>1, BeforeDispatchIInv
<1>2. CASE DispatchTimeout(p)
  BY <1>2, TimedOutIInv DEF DispatchTimeout
<1>3. CASE OverallDeadline(p)
  <2>1. CASE state[p] = "Resolving" /\ EndStep(p, "Failed")
    <3>1. "Resolving" \in ActionStates \ {"Dispatching", "Verifying"} /\ "Resolving" \in ActionStates \ {"Verifying"}
      BY DEF ActionStates
    <3> QED  BY <1>3, <2>1, <3>1, StageIInv DEF OverallDeadline
  <2>2. CASE state[p] \in {"Dispatching", "Verifying"} /\ EndStep(p, TimedOut(p))
    BY <1>3, <2>2, TimedOutIInv DEF OverallDeadline
  <2> QED  BY <1>3, <2>1, <2>2 DEF OverallDeadline
<1> QED  BY <1>1, <1>2, <1>3 DEF Deadline


\* A dispatch that is through goes to the verification.
LEMMA DispatchedIInv ==
  ASSUME IInv, NEW p \in Plans, state[p] = "Dispatching", Dispatched(p),
         UNCHANGED <<req, queue, cancel>>, UNCHANGED world,
         \A j \in 1 .. Len(CdpCalls(Kind(p))) :
            (CdpCalls(Kind(p))[j].mutates /\ ~CdpCalls(Kind(p))[j].ignored) =>
               [plan |-> p, step |-> step[p], call |-> j] \in applied
  PROVE  IInv'
<1>1. /\ TypeOK /\ Placed /\ Frames /\ Answers /\ Carried /\ Reported /\ HonestReport
      /\ UNCHANGED <<alive, dom, wire, applied, garbled>> /\ UNCHANGED <<step, skip, ref, call, journal>>
      /\ state' = [state EXCEPT ![p] = "Verifying"] /\ reply' = [reply EXCEPT ![p] = "none"]
  BY DEF IInv, Dispatched, world
<1>2. /\ \A q \in Plans : state'[q] = IF q = p THEN "Verifying" ELSE state[q]
      /\ \A q \in Plans : q # p => reply'[q] = reply[q]
      /\ \A q \in Plans : Kind(q)' = Kind(q) /\ Current(q)' = Current(q) /\ Clicked(q)' = Clicked(q)
  BY <1>1 DEF TypeOK, Kind, Current, Clicked
<1>3. TypeOK'
  BY <1>1 DEF TypeOK, ActionStates, Replies
<1>4. Placed'
  BY <1>1, <1>2, DispatchTyped DEF Placed, ActionStates
<1>5. Queued'
  BY <1>1, <1>2, QueuedKept DEF Working, ActionStates
<1>6. Frames' /\ Reported' /\ HonestReport'
  <2>1. Frames' /\ Reported'
    BY <1>1 DEF Frames, Sent, Reported
  <2>2. HonestReport'
    BY <1>1 DEF HonestReport, Effects
  <2> QED  BY <2>1, <2>2
<1>7. Answers'
  <2> SUFFICES ASSUME NEW q \in Plans PROVE AnswersOf(q)'
    BY DEF Answers
  <2>1. CASE q = p
    BY <1>2, <2>1 DEF AnswersOf
  <2>2. CASE q # p
    <3>1. AnswersOf(q) /\ state'[q] = state[q] /\ reply'[q] = reply[q] /\ Sent' = Sent
      BY <1>1, <1>2, <2>2 DEF Answers, Sent
    <3> QED  BY <1>1, <1>2, <3>1 DEF AnswersOf
  <2> QED  BY <2>1, <2>2
<1>8. Carried'
  BY <1>1, <1>2 DEF Carried
<1> QED  BY <1>3, <1>4, <1>5, <1>6, <1>7, <1>8 DEF IInv

\* An error is kept as what it is.
LEMMA KeptFacts ==
  /\ Kept["error"] = "error kept" /\ Kept["invalid"] = "invalid kept" /\ Kept["dead"] = "dead kept"
  /\ \A e \in Errors : /\ Kept[e] \in KeptErrors
                       /\ Kept[e] = "error kept" => e = "error"
                       /\ Kept[e] = "invalid kept" => e = "invalid"
<1>1. Kept["error"] = "error kept" /\ Kept["invalid"] = "invalid kept" /\ Kept["dead"] = "dead kept"
  BY DEF Kept
<1>2. ASSUME NEW e \in Errors
      PROVE  /\ Kept[e] \in KeptErrors
             /\ Kept[e] = "error kept" => e = "error"
             /\ Kept[e] = "invalid kept" => e = "invalid"
  <2>1. e = "error" \/ e = "invalid" \/ e = "dead"
    BY <1>2 DEF Errors
  <2> QED  BY <1>1, <2>1 DEF KeptErrors
<1> QED  BY <1>1, <1>2

\* The next call of a step goes out, or is not sent by the dead transport.  The plan
\* had no error for the last one, or keeps it.
LEMMA TransmitIInv ==
  ASSUME IInv, NEW p \in Plans, NEW r, state[p] = "Dispatching", Transmit(p, r), ~LastCall(p),
         UNCHANGED <<req, queue, cancel>>,
         \/ /\ r \in {"none", "dead"}
            /\ call[p] > 0 => /\ reply[p] \notin KeptErrors
                              /\ reply[p] = "ok" \/ CdpCalls(Kind(p))[call[p]].ignored
         \/ Releases(p) /\ reply[p] \in Errors /\ r = Kept[reply[p]]
  PROVE  IInv'
<1> DEFINE new == [plan |-> p, step |-> step[p], call |-> call[p] + 1]
<1>1. /\ TypeOK /\ Placed /\ Frames /\ Answers /\ Carried /\ Reported /\ HonestReport
      /\ call' = [call EXCEPT ![p] = @ + 1]
      /\ UNCHANGED <<req, queue, cancel, state, step, skip, ref, journal, alive, dom, applied, garbled>>
  BY DEF IInv, Transmit
<1>2. /\ step[p] \in 1 .. Len(req[p].steps) /\ step[p] \in Nat \ {0}
      /\ Kind(p) \in Kinds /\ Kind(p) = req[p].steps[step[p]]
      /\ call[p] \in Nat /\ Len(CdpCalls(Kind(p))) \in Nat
      /\ call[p] + 1 <= Len(CdpCalls(Kind(p))) /\ ~skip[p]
  BY DispatchTyped DEF LastCall
<1>3. new \in Call /\ new.plan = p /\ new.step = step[p] /\ new.call = call[p] + 1
  BY <1>2 DEF Call
<1>4. /\ wire \in Seq(Call) /\ Len(wire) \in Nat
      /\ wire' \in {wire, Append(wire, new)}
      /\ reply' = [reply EXCEPT ![p] = r] /\ r \in Replies
  <2>1. r \in {"none", "dead"} \/ r \in KeptErrors
    BY KeptFacts
  <2>2. r \in Replies
    BY <2>1 DEF Replies, Errors, KeptErrors
  <2> QED  BY <1>1, <2>2 DEF Transmit, TypeOK
<1> HIDE DEF new
<1>5. /\ \A q \in Plans : call'[q] = IF q = p THEN call[p] + 1 ELSE call[q]
      /\ \A q \in Plans : q # p => reply'[q] = reply[q]
      /\ reply'[p] = r
      /\ \A q \in Plans : Kind(q)' = Kind(q) /\ Clicked(q)' = Clicked(q)
      /\ \A q \in Plans : q # p => Current(q)' = Current(q)
  BY <1>1, <1>4 DEF TypeOK, Kind, Current, Clicked
<1>6. wire' \in Seq(Call) /\ Sent' \subseteq Sent \cup {new}
  <2>1. CASE wire' = wire
    BY <1>1, <1>4, <2>1 DEF Sent
  <2>2. CASE wire' = Append(wire, new)
    <3>1. /\ wire' \in Seq(Call) /\ Len(wire') = Len(wire) + 1 /\ wire'[Len(wire) + 1] = new
          /\ \A i \in 1 .. Len(wire) : wire'[i] = wire[i]
      BY <1>3, <1>4, <2>2
    <3>2. DOMAIN wire' = 1 .. Len(wire) + 1 /\ DOMAIN wire = 1 .. Len(wire)
      BY <1>4, <3>1
    <3>3. ASSUME NEW c \in Range(wire') PROVE c \in Range(wire) \cup {new}
      <4>1. PICK i \in 1 .. Len(wire) + 1 : c = wire'[i]
        BY <3>2, <3>3 DEF Range
      <4>2. i = Len(wire) + 1 \/ i \in 1 .. Len(wire)
        BY <1>4
      <4> QED  BY <3>1, <3>2, <4>1, <4>2 DEF Range
    <3> QED  BY <1>1, <3>1, <3>3 DEF Sent
  <2> QED  BY <1>4, <2>1, <2>2
<1>7. new \notin Sent
  <2>1. \A c \in Sent : c.plan = p /\ c.step = step[p] => c.call <= call[p]
    BY <1>1 DEF Frames
  <2> QED  BY <1>2, <1>3, <2>1
<1>8. TypeOK'
  <2>1. call' \in [Plans -> Nat]
    <3>1. call \in [Plans -> Nat] /\ call[p] + 1 \in Nat
      BY <1>1, <1>2 DEF TypeOK
    <3> QED  BY <1>1, <3>1
  <2>2. reply' \in [Plans -> Replies]
    <3>1. reply \in [Plans -> Replies]
      BY <1>1 DEF TypeOK
    <3> QED  BY <1>4, <3>1
  <2> QED  BY <1>1, <1>6, <2>1, <2>2 DEF TypeOK
<1>9. Placed'
  BY <1>1, <1>2, <1>5 DEF Placed
<1>10. Queued'
  BY <1>1, QueuedKept
<1>11. Frames'
  <2>1. ASSUME NEW c \in Sent'
        PROVE  /\ c.step \in 1 .. Len(req[c.plan].steps) /\ c.step <= step[c.plan]
               /\ c.call \in 1 .. Len(CdpCalls(req[c.plan].steps[c.step]))
               /\ c.step = step[c.plan] => c.call <= call'[c.plan]
    <3>1. CASE c = new
      BY <1>2, <1>3, <1>5, <3>1
    <3>2. CASE c \in Sent
      <4>1. c.plan \in Plans /\ c.call \in Nat
        BY <1>1, <3>2, SentTyped DEF Call
      <4>2. /\ c.step \in 1 .. Len(req[c.plan].steps) /\ c.step <= step[c.plan]
            /\ c.call \in 1 .. Len(CdpCalls(req[c.plan].steps[c.step]))
            /\ c.step = step[c.plan] => c.call <= call[c.plan]
        BY <1>1, <3>2 DEF Frames
      <4> QED  BY <1>2, <1>5, <4>1, <4>2
    <3> QED  BY <1>6, <2>1, <3>1, <3>2
  <2>2. /\ \A i, j \in 1 .. Len(wire') : wire'[i] = wire'[j] => i = j
        /\ \A i \in 1 .. Len(wire') : wire'[i] \notin applied
    <3>1. /\ \A i, j \in 1 .. Len(wire) : wire[i] = wire[j] => i = j
          /\ \A i \in 1 .. Len(wire) : wire[i] \notin applied /\ wire[i] # new
          /\ new \notin applied
      <4>1. DOMAIN wire = 1 .. Len(wire)
        BY <1>4
      <4> QED  BY <1>1, <1>7, <4>1 DEF Frames, Sent, Range
    <3>2. CASE wire' = wire
      BY <3>1, <3>2
    <3>3. CASE wire' = Append(wire, new)
      <4>1. /\ Len(wire') = Len(wire) + 1 /\ wire'[Len(wire) + 1] = new
            /\ \A i \in 1 .. Len(wire) : wire'[i] = wire[i]
            /\ \A i \in 1 .. Len(wire') : i = Len(wire) + 1 \/ i \in 1 .. Len(wire)
        BY <1>3, <1>4, <3>3
      <4> QED  BY <3>1, <4>1
    <3> QED  BY <1>4, <3>2, <3>3
  <2> QED  BY <1>1, <2>1, <2>2 DEF Frames
<1>12. Answers'
  <2> SUFFICES ASSUME NEW q \in Plans, state[q] = "Dispatching", call'[q] > 0
               PROVE  /\ reply'[q] = "ok" => Current(q)' \in applied
                      /\ reply'[q] = "error" => Current(q)' \notin Sent'
                      /\ reply'[q] = "invalid" => Current(q)' \in garbled
                      /\ reply'[q] \in KeptErrors => Kind(q) = "click_node" /\ call'[q] = 3
                      /\ reply'[q] = "error kept" => Clicked(q) \notin Sent'
                      /\ reply'[q] = "invalid kept" => Clicked(q) \in garbled
                      /\ reply'[q] \notin KeptErrors => \A j \in 1 .. call'[q] - 1 :
                            ~CdpCalls(Kind(q))[j].ignored => [plan |-> q, step |-> step[q], call |-> j] \in applied
    BY <1>1, <1>5 DEF Answers, AnswersOf
  <2>1. CASE q = p
    <3>1. ASSUME r \in {"none", "dead"}, NEW j \in 1 .. call[p], ~CdpCalls(Kind(p))[j].ignored
          PROVE  [plan |-> p, step |-> step[p], call |-> j] \in applied
      <4>0. r \notin KeptErrors /\ \A e \in Errors : Kept[e] \in KeptErrors
        BY <3>1, KeptFacts DEF KeptErrors
      <4>1. call[p] > 0 /\ reply[p] \notin KeptErrors /\ (reply[p] = "ok" \/ CdpCalls(Kind(p))[call[p]].ignored)
        BY <1>2, <3>1, <4>0
      <4>4. call[p] > 0 /\ (j = call[p] \/ j \in 1 .. call[p] - 1)
        BY <1>2, <3>1
      <4>2. CASE j = call[p]
        BY <1>1, <3>1, <4>1, <4>2 DEF Answers, AnswersOf, Current
      <4>3. CASE j \in 1 .. call[p] - 1
        BY <1>1, <3>1, <4>1, <4>3 DEF Answers, AnswersOf
      <4> QED  BY <4>2, <4>3, <4>4
    <3>2. 1 .. call'[q] - 1 = 1 .. call[p]
      BY <1>2, <1>5, <2>1
    <3>3. CASE r \in {"none", "dead"}
      BY <1>5, <2>1, <3>1, <3>2, <3>3 DEF KeptErrors
    <3>4. CASE Releases(p) /\ reply[p] \in Errors /\ r = Kept[reply[p]]
      <4>1. /\ r \in KeptErrors /\ r \notin {"ok", "error", "invalid"}
            /\ r = "error kept" => reply[p] = "error"
            /\ r = "invalid kept" => reply[p] = "invalid"
        <5>1. /\ r \in KeptErrors
              /\ r = "error kept" => reply[p] = "error"
              /\ r = "invalid kept" => reply[p] = "invalid"
          BY <3>4, KeptFacts
        <5> QED  BY <5>1 DEF KeptErrors
      <4>2. Kind(p) = "click_node" /\ call[p] = 2 /\ call'[p] = 3 /\ Current(p) = Clicked(p)
        BY <1>5, <3>4 DEF Releases, Current, Clicked
      <4>3. Clicked(p) # new
        BY <1>2, <1>3, <4>2 DEF Clicked
      <4>4. /\ reply[p] = "error" => Clicked(p) \notin Sent
            /\ reply[p] = "invalid" => Clicked(p) \in garbled
        <5>1. AnswersOf(p) /\ state[p] = "Dispatching" /\ call[p] > 0
          BY <1>1, <4>2 DEF Answers
        <5> QED  BY <4>2, <5>1 DEF AnswersOf
      <4> QED  BY <1>5, <1>6, <2>1, <4>1, <4>2, <4>3, <4>4
    <3> QED  BY <3>3, <3>4
  <2>2. CASE q # p
    <3>1. Current(q) # new /\ Clicked(q) # new
      BY <1>3, <2>2 DEF Current, Clicked
    <3> QED  BY <1>1, <1>5, <1>6, <2>2, <3>1 DEF Answers, AnswersOf
  <2> QED  BY <2>1, <2>2
<1>13. Carried' /\ Reported'
  BY <1>1, <1>5 DEF Carried, Reported
<1>14. HonestReport'
  <2>1. ASSUME NEW q, NEW i, q # p \/ i # step[p] PROVE Effects(q, i)' \subseteq Effects(q, i)
    <3> SUFFICES ASSUME NEW c \in Effects(q, i)' PROVE c \in Effects(q, i)
      OBVIOUS
    <3>1. c \in Sent' /\ c.plan = q /\ c.step = i /\ CdpCalls(req[q].steps[i])[c.call].mutates
      BY <1>1 DEF Effects, Sent
    <3>2. c \in Sent
      BY <1>3, <1>6, <2>1, <3>1
    <3> QED  BY <3>1, <3>2 DEF Effects, Sent
  <2> SUFFICES ASSUME NEW x \in Range(journal)
               PROVE  /\ x.state \in {"Failed", "Cancelled"} => Effects(x.plan, x.step)' \subseteq garbled
                      /\ ShouldCascadeSkip(x.outcome) =>
                            \A i \in (x.step + 1) .. Len(req[x.plan].steps) : Effects(x.plan, i)' = {}
                      /\ x.state = "Completed" =>
                            \A j \in DOMAIN CdpCalls(req[x.plan].steps[x.step]) :
                               (/\ CdpCalls(req[x.plan].steps[x.step])[j].mutates
                                /\ ~CdpCalls(req[x.plan].steps[x.step])[j].ignored) =>
                                  [plan |-> x.plan, step |-> x.step, call |-> j] \in applied
    BY <1>1 DEF HonestReport
  <2>2. x.step < step[x.plan] /\ (ShouldCascadeSkip(x.outcome) => skip[x.plan]) /\ x.step \in 1 .. Len(req[x.plan].steps)
    BY <1>1 DEF Reported
  <2>3. x.plan = p => x.step # step[p]
    BY <1>2, <2>2
  <2>4. ShouldCascadeSkip(x.outcome) => x.plan # p
    BY <1>2, <2>2
  <2>5. /\ x.state \in {"Failed", "Cancelled"} => Effects(x.plan, x.step) \subseteq garbled
        /\ ShouldCascadeSkip(x.outcome) =>
              \A i \in (x.step + 1) .. Len(req[x.plan].steps) : Effects(x.plan, i) = {}
        /\ x.state = "Completed" =>
              \A j \in DOMAIN CdpCalls(req[x.plan].steps[x.step]) :
                 (/\ CdpCalls(req[x.plan].steps[x.step])[j].mutates
                  /\ ~CdpCalls(req[x.plan].steps[x.step])[j].ignored) =>
                    [plan |-> x.plan, step |-> x.step, call |-> j] \in applied
    BY <1>1 DEF HonestReport
  <2>6. Effects(x.plan, x.step)' \subseteq Effects(x.plan, x.step)
    BY <2>1, <2>3
  <2>7. ShouldCascadeSkip(x.outcome) =>
           \A i \in (x.step + 1) .. Len(req[x.plan].steps) : Effects(x.plan, i)' = {}
    BY <2>1, <2>4, <2>5
  <2> QED  BY <2>5, <2>6, <2>7
<1> QED  BY <1>8, <1>9, <1>10, <1>11, <1>12, <1>13, <1>14 DEF IInv


\* The next call of a step goes out after one that did not fail it.
LEMMA SendCallIInv ==
  ASSUME IInv, NEW p \in Plans, state[p] = "Dispatching", SendCall(p), ~LastCall(p),
         UNCHANGED <<req, queue, cancel>>,
         call[p] > 0 => /\ reply[p] \notin KeptErrors
                        /\ reply[p] = "ok" \/ CdpCalls(Kind(p))[call[p]].ignored
  PROVE  IInv'
<1>1. PICK r \in {"none", "dead"} : Transmit(p, r)
  BY DEF SendCall
<1> QED  BY <1>1, TransmitIInv

\* The click's object is released though the click failed.
LEMMA ReleaseObjectIInv ==
  ASSUME IInv, NEW p \in Plans, ReleaseObject(p)
  PROVE  IInv'
<1>1. ~LastCall(p)
  BY DEF ReleaseObject, Releases, LastCall, CdpCalls
<1> QED  BY <1>1, TransmitIInv DEF ReleaseObject

\* The dispatch begins: a first call, or none for a wait.
LEMMA DispatchIInv ==
  ASSUME IInv, NEW p \in Plans, Dispatch(p)
  PROVE  IInv'
<1>1. state[p] = "Dispatching" /\ call[p] = 0 /\ UNCHANGED <<req, queue, cancel>>
  BY DEF Dispatch
<1>2. CASE LastCall(p) /\ Dispatched(p) /\ UNCHANGED world
  <2>1. 1 .. Len(CdpCalls(Kind(p))) = {}
    BY <1>1, <1>2 DEF LastCall
  <2> QED  BY <1>1, <1>2, <2>1, DispatchedIInv
<1>3. CASE ~LastCall(p) /\ SendCall(p)
  <2>1. ~(call[p] > 0)
    BY <1>1
  <2> QED  BY <1>1, <1>3, <2>1, SendCallIInv
<1> QED  BY <1>2, <1>3 DEF Dispatch

\* A call is through: the next one, or the verification.
LEMMA CallReturnsIInv ==
  ASSUME IInv, NEW p \in Plans, CallReturns(p)
  PROVE  IInv'
<1>1. /\ state[p] = "Dispatching" /\ call[p] > 0 /\ UNCHANGED <<req, queue, cancel>> /\ Answers
      /\ (reply[p] = "ok" \/ CdpCalls(Kind(p))[call[p]].ignored) /\ reply[p] \notin KeptErrors
  BY DEF CallReturns, IInv, Errors, KeptErrors
<1>2. CASE (LastCall(p) \/ (Kind(p) = "snapshot" /\ reply[p] = "ok")) /\ Dispatched(p) /\ UNCHANGED world
  <2>1. Kind(p) \in Kinds /\ call[p] \in Nat /\ Len(CdpCalls(Kind(p))) \in Nat
    BY <1>1, DispatchTyped
  <2>2. ASSUME NEW j \in 1 .. Len(CdpCalls(Kind(p))),
               CdpCalls(Kind(p))[j].mutates, ~CdpCalls(Kind(p))[j].ignored
        PROVE  [plan |-> p, step |-> step[p], call |-> j] \in applied
    <3>1. StateChanging(Kind(p))
      BY <2>1, <2>2, CdpFacts
    <3>2. LastCall(p)
      BY <1>2, <3>1 DEF StateChanging
    <3>3. j = call[p] \/ j \in 1 .. call[p] - 1
      BY <2>1, <3>2 DEF LastCall
    <3>4. CASE j = call[p]
      BY <1>1, <2>2, <3>4 DEF Answers, AnswersOf, Current
    <3>5. CASE j \in 1 .. call[p] - 1
      BY <1>1, <2>2, <3>5 DEF Answers, AnswersOf
    <3> QED  BY <3>3, <3>4, <3>5
  <2> QED  BY <1>1, <1>2, <2>2, DispatchedIInv
<1>3. CASE ~LastCall(p) /\ SendCall(p)
  BY <1>1, <1>3, SendCallIInv
<1> QED  BY <1>2, <1>3 DEF CallReturns

-----------------------------------------------------------------------------
(* The environment *)

\* The connection dies: no answer is made up for a call.
LEMMA ConnectionDiesIInv ==
  ASSUME IInv, ConnectionDies
  PROVE  IInv'
<1>1. /\ TypeOK /\ Placed /\ Frames /\ Answers /\ Carried /\ Reported /\ HonestReport
      /\ UNCHANGED <<req, queue, cancel, journal, state, step, skip, ref, call, dom, wire, applied, garbled>>
      /\ alive' = FALSE
      /\ reply' = [p \in Plans |-> IF call[p] > 0 /\ reply[p] = "none" THEN "dead" ELSE reply[p]]
  BY DEF IInv, ConnectionDies
<1>2. \A q \in Plans : reply'[q] = reply[q] \/ (reply[q] = "none" /\ reply'[q] = "dead")
  BY <1>1
<1>3. TypeOK'
  <2>1. reply' \in [Plans -> Replies]
    BY <1>1 DEF TypeOK, Replies, Errors
  <2> QED  BY <1>1, <2>1 DEF TypeOK
<1>4. Placed' /\ Carried' /\ Reported'
  BY <1>1 DEF Placed, Carried, Reported, Kind
<1>5. Queued'
  BY <1>1, QueuedKept
<1>6. Frames' /\ HonestReport'
  BY <1>1 DEF Frames, Sent, HonestReport, Effects
<1>7. Answers'
  BY <1>1, <1>2 DEF Answers, AnswersOf, Sent, Current, Clicked, Kind, KeptErrors
<1> QED  BY <1>3, <1>4, <1>5, <1>6, <1>7 DEF IInv

\* A step that leaves the plans, the wire and the journal alone.
LEMMA OutsideIInv ==
  ASSUME IInv, UNCHANGED <<req, queue, journal, local>>, UNCHANGED <<alive, wire, applied, garbled>>,
         dom' \in 1 .. MaxDom, cancel' \in [Plans -> BOOLEAN]
  PROVE  IInv'
<1>1. /\ TypeOK /\ Placed /\ Queued /\ Frames /\ Answers /\ Carried /\ Reported /\ HonestReport
      /\ UNCHANGED <<state, step, skip, ref, call, reply>>
  BY DEF IInv, local
<1>2. TypeOK'
  BY <1>1 DEF TypeOK
<1>3. Placed' /\ Queued' /\ Carried' /\ Reported'
  BY <1>1 DEF Placed, Queued, Carried, Reported, Kind
<1>4. Frames' /\ HonestReport'
  BY <1>1 DEF Frames, Sent, HonestReport, Effects
<1>5. Answers'
  BY <1>1 DEF Answers, AnswersOf, Sent, Current, Clicked, Kind, KeptErrors
<1> QED  BY <1>2, <1>3, <1>4, <1>5 DEF IInv

\* The browser carries out the oldest frame and answers it, or refuses it.
LEMMA BrowserIInv ==
  ASSUME IInv, Browser
  PROVE  IInv'
<1> DEFINE h == Head(wire)
<1>1. /\ TypeOK /\ Placed /\ Frames /\ Answers /\ Carried /\ Reported /\ HonestReport
      /\ UNCHANGED <<req, queue, cancel, journal, state, step, skip, ref, call, alive, dom>>
      /\ wire # << >> /\ wire' = Tail(wire) /\ wire \in Seq(Call)
  BY DEF IInv, Browser, TypeOK
<1>2. PICK a \in {"ok", "invalid", "error"} :
        /\ AnswerCall(h, a)
        /\ applied' = IF a = "error" THEN applied ELSE applied \cup {h}
        /\ garbled' = IF a = "invalid" THEN garbled \cup {h} ELSE garbled
  BY DEF Browser
<1>3. /\ wire' \in Seq(Call) /\ Len(wire) \in Nat \ {0} /\ Len(wire') = Len(wire) - 1
      /\ h = wire[1] /\ h \in Call
      /\ \A i \in 1 .. Len(wire') : wire'[i] = wire[i + 1] /\ i + 1 \in 1 .. Len(wire)
  BY <1>1, TailFacts
<1> HIDE DEF h
<1>4. DOMAIN wire = 1 .. Len(wire) /\ DOMAIN wire' = 1 .. Len(wire')
  BY <1>1, <1>3
<1>5. /\ \A q \in Plans : reply'[q] = reply[q] \/ (reply[q] = "none" /\ reply'[q] = a /\ h = Current(q))
      /\ reply' \in [Plans -> Replies]
  BY <1>1, <1>2 DEF AnswerCall, Current, TypeOK, Replies, Errors
<1>6. h \in Sent /\ h \notin applied /\ h \notin Range(wire') /\ Range(wire') \subseteq Range(wire)
  <2>1. 1 \in 1 .. Len(wire)
    BY <1>3
  <2>2. h \in Range(wire) /\ h \notin applied
    BY <1>1, <1>3, <1>4, <2>1 DEF Frames, Range
  <2>3. ASSUME NEW c \in Range(wire') PROVE c \in Range(wire) /\ c # h
    <3>1. PICK i \in 1 .. Len(wire') : c = wire'[i]
      BY <1>4, <2>3 DEF Range
    <3>2. c = wire[i + 1] /\ i + 1 \in 1 .. Len(wire) /\ i + 1 # 1
      BY <1>3, <3>1
    <3> QED  BY <1>1, <1>3, <1>4, <2>1, <3>2 DEF Frames, Range
  <2> QED  BY <2>2, <2>3 DEF Sent
<1>7. /\ Sent' \subseteq Sent /\ (a = "error" => h \notin Sent')
      /\ applied \subseteq applied' /\ garbled \subseteq garbled'
      /\ (a = "ok" => h \in applied') /\ (a = "invalid" => h \in garbled')
  BY <1>2, <1>6 DEF Sent
<1>8. TypeOK'
  <2>1. applied' \subseteq Call /\ garbled' \subseteq applied'
    BY <1>1, <1>2, <1>3 DEF TypeOK
  <2> QED  BY <1>1, <1>3, <1>5, <2>1 DEF TypeOK
<1>9. Placed' /\ Reported'
  BY <1>1 DEF Placed, Reported, Kind
<1>10. Queued'
  BY <1>1, QueuedKept
<1>11. Frames'
  <2>1. \A i, j \in 1 .. Len(wire') : wire'[i] = wire'[j] => i = j
    <3>1. \A i, j \in 1 .. Len(wire) : wire[i] = wire[j] => i = j
      BY <1>1 DEF Frames
    <3> SUFFICES ASSUME NEW i \in 1 .. Len(wire'), NEW j \in 1 .. Len(wire'), wire'[i] = wire'[j]
                 PROVE  i = j
      OBVIOUS
    <3>2. i + 1 = j + 1
      BY <1>3, <3>1
    <3> QED  BY <3>2, <1>3
  <2>2. \A i \in 1 .. Len(wire') : wire'[i] \notin applied'
    <3> SUFFICES ASSUME NEW i \in 1 .. Len(wire') PROVE wire'[i] \notin applied'
      OBVIOUS
    <3>1. wire'[i] \notin applied
      BY <1>1, <1>3 DEF Frames
    <3>2. wire'[i] # h
      BY <1>4, <1>6 DEF Range
    <3> QED  BY <1>2, <3>1, <3>2
  <2>3. \A c \in Sent' :
          /\ c.step \in 1 .. Len(req[c.plan].steps) /\ c.step <= step[c.plan]
          /\ c.call \in 1 .. Len(CdpCalls(req[c.plan].steps[c.step]))
          /\ c.step = step[c.plan] => c.call <= call[c.plan]
    BY <1>1, <1>7 DEF Frames
  <2> QED  BY <1>1, <2>1, <2>2, <2>3 DEF Frames
<1>12. Answers'
  <2>1. \A q \in Plans : Kind(q)' = Kind(q) /\ Current(q)' = Current(q) /\ Clicked(q)' = Clicked(q)
    BY <1>1 DEF Kind, Current, Clicked
  <2> SUFFICES ASSUME NEW q \in Plans, state[q] = "Dispatching", call[q] > 0
               PROVE  /\ reply'[q] = "ok" => Current(q) \in applied'
                      /\ reply'[q] = "error" => Current(q) \notin Sent'
                      /\ reply'[q] = "invalid" => Current(q) \in garbled'
                      /\ reply'[q] \in KeptErrors => Kind(q) = "click_node" /\ call[q] = 3
                      /\ reply'[q] = "error kept" => Clicked(q) \notin Sent'
                      /\ reply'[q] = "invalid kept" => Clicked(q) \in garbled'
                      /\ reply'[q] \notin KeptErrors => \A j \in 1 .. call[q] - 1 :
                            ~CdpCalls(Kind(q))[j].ignored => [plan |-> q, step |-> step[q], call |-> j] \in applied'
    BY <1>1, <2>1 DEF Answers, AnswersOf
  <2>2. /\ reply[q] = "ok" => Current(q) \in applied
        /\ reply[q] = "error" => Current(q) \notin Sent
        /\ reply[q] = "invalid" => Current(q) \in garbled
        /\ reply[q] \in KeptErrors => Kind(q) = "click_node" /\ call[q] = 3
        /\ reply[q] = "error kept" => Clicked(q) \notin Sent
        /\ reply[q] = "invalid kept" => Clicked(q) \in garbled
        /\ reply[q] \notin KeptErrors => \A j \in 1 .. call[q] - 1 :
              ~CdpCalls(Kind(q))[j].ignored => [plan |-> q, step |-> step[q], call |-> j] \in applied
    BY <1>1 DEF Answers, AnswersOf
  <2>3. "none" \notin KeptErrors /\ a \notin KeptErrors
    BY <1>2 DEF KeptErrors
  <2>4. CASE reply'[q] = reply[q]
    BY <1>7, <2>2, <2>4
  <2>5. CASE reply[q] = "none" /\ reply'[q] = a /\ h = Current(q)
    <3>1. a # "error kept" /\ a # "invalid kept"
      BY <1>2
    <3> QED  BY <1>7, <2>2, <2>3, <2>5, <3>1
  <2> QED  BY <1>5, <2>4, <2>5
<1>13. Carried'
  BY <1>1, <1>7 DEF Carried, Kind
<1>14. HonestReport'
  <2>1. ASSUME NEW q, NEW i PROVE Effects(q, i)' \subseteq Effects(q, i)
    BY <1>1, <1>7 DEF Effects, Sent
  <2> SUFFICES ASSUME NEW x \in Range(journal)
               PROVE  /\ x.state \in {"Failed", "Cancelled"} => Effects(x.plan, x.step)' \subseteq garbled'
                      /\ ShouldCascadeSkip(x.outcome) =>
                            \A i \in (x.step + 1) .. Len(req[x.plan].steps) : Effects(x.plan, i)' = {}
                      /\ x.state = "Completed" =>
                            \A j \in DOMAIN CdpCalls(req[x.plan].steps[x.step]) :
                               (/\ CdpCalls(req[x.plan].steps[x.step])[j].mutates
                                /\ ~CdpCalls(req[x.plan].steps[x.step])[j].ignored) =>
                                  [plan |-> x.plan, step |-> x.step, call |-> j] \in applied'
    BY <1>1 DEF HonestReport
  <2>2. /\ x.state \in {"Failed", "Cancelled"} => Effects(x.plan, x.step) \subseteq garbled
        /\ ShouldCascadeSkip(x.outcome) =>
              \A i \in (x.step + 1) .. Len(req[x.plan].steps) : Effects(x.plan, i) = {}
        /\ x.state = "Completed" =>
              \A j \in DOMAIN CdpCalls(req[x.plan].steps[x.step]) :
                 (/\ CdpCalls(req[x.plan].steps[x.step])[j].mutates
                  /\ ~CdpCalls(req[x.plan].steps[x.step])[j].ignored) =>
                    [plan |-> x.plan, step |-> x.step, call |-> j] \in applied
    BY <1>1 DEF HonestReport
  <2>3. x.state \in {"Failed", "Cancelled"} => Effects(x.plan, x.step)' \subseteq garbled'
    BY <1>7, <2>1, <2>2
  <2>4. ShouldCascadeSkip(x.outcome) =>
           \A i \in (x.step + 1) .. Len(req[x.plan].steps) : Effects(x.plan, i)' = {}
    BY <2>1, <2>2
  <2> QED  BY <1>7, <2>2, <2>3, <2>4
<1> QED  BY <1>8, <1>9, <1>10, <1>11, <1>12, <1>13, <1>14 DEF IInv


-----------------------------------------------------------------------------
(* The theorems *)

\* The invariant holds before any request is submitted.
LEMMA InitIInv == Init => IInv
<1> SUFFICES ASSUME Init PROVE IInv
  OBVIOUS
<1>1. TypeOK
  <2>1. 0 \in 0 .. MaxDom /\ 1 \in 1 .. MaxDom /\ 0 <= MaxEntries
    BY BoundsAssumption
  <2> QED  BY <2>1 DEF Init, TypeOK, Replies
<1>2. wire = << >> /\ applied = {} /\ journal = << >> /\ Range(wire) = {} /\ Range(journal) = {}
  BY DEF Init, Range
<1>3. Placed /\ Queued /\ Answers /\ Carried
  BY DEF Init, Placed, Queued, Answers, AnswersOf, Carried, ActionStates
<1>4. Frames /\ Reported /\ HonestReport
  BY <1>2 DEF Frames, Sent, Reported, HonestReport
<1> QED  BY <1>1, <1>3, <1>4 DEF IInv

\* Every action keeps the invariant.
LEMMA StepIInv == IInv /\ [Next]_vars => IInv'
<1> SUFFICES ASSUME IInv, [Next]_vars PROVE IInv'
  OBVIOUS
<1>1. ASSUME NEW p \in Plans, PlanStep(p) PROVE IInv'
  BY <1>1, SubmitIInv, AcquireIInv, NextStepIInv, AnswerIInv, BeforeDispatchIInv, ResolveIInv,
     DispatchIInv, CallReturnsIInv, CallFailsIInv,
     ReleaseObjectIInv, ReleaseReturnsIInv, VerifyIInv DEF PlanStep
<1>2. ASSUME NEW p \in Plans, Deadline(p) PROVE IInv'
  BY <1>2, DeadlineIInv
<1>3. ASSUME NEW p \in Plans, Cancel(p) PROVE IInv'
  <2>1. dom' \in 1 .. MaxDom /\ cancel' \in [Plans -> BOOLEAN]
    BY <1>3 DEF Cancel, IInv, TypeOK, world
  <2> QED  BY <1>3, <2>1, OutsideIInv DEF Cancel, world
<1>4. ASSUME DomEvent PROVE IInv'
  <2>1. dom' \in 1 .. MaxDom /\ cancel' \in [Plans -> BOOLEAN]
    BY <1>4, BoundsAssumption DEF DomEvent, IInv, TypeOK
  <2> QED  BY <1>4, <2>1, OutsideIInv DEF DomEvent
<1>5. CASE UNCHANGED vars
  <2>1. dom' \in 1 .. MaxDom /\ cancel' \in [Plans -> BOOLEAN]
    BY <1>5 DEF vars, world, IInv, TypeOK
  <2> QED  BY <1>5, <2>1, OutsideIInv DEF vars, world
<1> QED  BY <1>1, <1>2, <1>3, <1>4, <1>5, BrowserIInv, ConnectionDiesIInv DEF Next

\* The inductive invariant holds for any plans, workload and journal size, however
\* tasks, timers, cancellations, the browser and the connection interleave.
THEOREM Invariance == Spec => []IInv
BY InitIInv, StepIInv, PTL DEF Spec

\* Every variable keeps its type; the journal never exceeds max_entries.
THEOREM TypeCorrect == Spec => []TypeOK
<1>1. IInv => TypeOK
  BY DEF IInv
<1> QED  BY <1>1, Invariance, PTL

\* The journal never claims that a step which reached the page did not, that nothing
\* followed a step that cascades when something did, or that a Completed step was
\* carried out when it was not (action.rs, executor.rs: rule 31).
THEOREM JournalIsHonest == Spec => []HonestReport
<1>1. IInv => HonestReport
  BY DEF IInv
<1> QED  BY <1>1, Invariance, PTL

\* The mutex of target_lock: of the plans of one target key at most one is between
\* acquiring it and its answer, so no two interleave their calls on that target.
OneAtATime ==
    \A p, q \in Plans :
        (/\ state[p] \in ActionStates \cup {"Next"}
         /\ state[q] \in ActionStates \cup {"Next"}
         /\ req[p].key = req[q].key) => p = q

\* Plans of one target key run one at a time, whatever ends their steps.
THEOREM PlansOfAKeyAreSerial == Spec => []OneAtATime
<1>1. IInv => OneAtATime
  BY DEF IInv, Queued, OneAtATime
<1> QED  BY <1>1, Invariance, PTL

=============================================================================
