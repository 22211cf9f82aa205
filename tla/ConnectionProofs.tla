-------------------------- MODULE ConnectionProofs --------------------------
(***************************************************************************)
(* Proofs about the two halves of the CDP transport.  About Requests, for  *)
(* any finite set of calls: type correctness, and that no caller is        *)
(* orphaned, no entry leaks, a dead connection is drained and every caller *)
(* gets its own answer.  About Pipeline, for any set of frames and any     *)
(* number of them: type correctness, that no sequence number is ever lost, *)
(* and that every step is a step of the FIFO channel of OrderedDelivery.   *)
(***************************************************************************)
EXTENDS Requests, Pipeline, TLAPS

-----------------------------------------------------------------------------
(* The inductive invariant of Requests *)

InCall == {"registering", "queueing", "unqueueing", "waiting", "expired"}

\* next_id hands out every id once.
IdsDrawn ==
  /\ \A c \in Calls : id[c] < nextId
  /\ \A c \in Calls : pc[c] = "idle" => id[c] = 0
  /\ \A c \in Calls : pc[c] \in InCall => id[c] # 0
  /\ \A c, d \in Calls : id[c] = id[d] /\ id[c] # 0 => c = d

\* mark_dead runs once and in order: swap, writer, table, answers.
MarkOrder ==
  /\ alive <=> markPc = "idle"
  /\ markPc \in {"writerTaken", "draining", "done"} => ~writerTx
  /\ drain # {} => markPc = "draining"

\* An entry carries the id of the call whose oneshot it holds, is only there
\* once, and is gone when the oneshot is filled.
EntriesOwned ==
  /\ pending \cap drain = {}
  /\ \A p \in pending \cup drain :
       p.id = id[p.tx] /\ pc[p.tx] \notin {"idle", "registering"} /\ reply[p.tx] = NoReply
  /\ \A c \in Calls : pc[c] \in {"idle", "registering"} => reply[c] = NoReply

\* So does the entry in the dispatcher's hand, which is in no other place; an
\* answer of the browser there is one to a request that was written.
HandOwned ==
  /\ \A g, h \in hand : g = h
  /\ \A h \in hand :
       /\ h.id = id[h.tx] /\ pc[h.tx] \notin {"idle", "registering"} /\ reply[h.tx] = NoReply
       /\ h.kind # "invalid" => h.id \in sent
       /\ \A p \in pending \cup drain : p.tx # h.tx

\* NoOrphanedCall, from the moment the entry is inserted.
Registered ==
  \A c \in Calls :
    pc[c] \in {"queueing", "waiting"} /\ reply[c] = NoReply
      => Entry(c) \in pending \cup drain \cup InHand

\* The table mark_dead left behind only gets entries of calls that will find
\* the writer gone.
LateEntriesUnqueue ==
  markPc \in {"draining", "done"} =>
    \A p \in pending : pc[p.tx] \notin {"waiting", "dropped"}

IInv ==
  /\ TypeOK
  /\ IdsDrawn
  /\ MarkOrder
  /\ EntriesOwned
  /\ HandOwned
  /\ NoLeakedEntry
  /\ Registered
  /\ LateEntriesUnqueue
  /\ OwnAnswer

-----------------------------------------------------------------------------
(* The step *)

\* Appending an element of S keeps a sequence over S.
LEMMA AppendType ==
  ASSUME NEW S, NEW s \in Seq(S), NEW e \in S
  PROVE  Append(s, e) \in Seq(S)
OBVIOUS

\* Two entries of the table with the same id and the same sender are one.
LEMMA EntryEquality ==
  ASSUME NEW a \in [id : Nat \ {0}, tx : Calls], NEW b \in [id : Nat \ {0}, tx : Calls],
         a.id = b.id, a.tx = b.tx
  PROVE  a = b
OBVIOUS

\* mark_dead's entry changes nothing but the three variables it is about, so
\* it keeps the invariant whoever runs it (the reader, the writer, shutdown).
LEMMA EnterMarkDeadKeeps ==
  ASSUME IInv, NEW task \in {"reader", "writer", "shutdown"}, EnterMarkDead(task),
         UNCHANGED <<pending, hand, reply, callVars, sent>>,
         outq' \in Seq(Nat \ {0}), wpc' \in {"run", "failed", "gone"},
         spc' \in {"idle", "marking", "done"}
  PROVE  IInv'
<1>1. TypeOK'
  BY DEF IInv, TypeOK, EnterMarkDead, callVars
<1>2. MarkOrder' /\ LateEntriesUnqueue'
  BY DEF IInv, TypeOK, MarkOrder, LateEntriesUnqueue, EnterMarkDead, callVars
<1>3. IdsDrawn' /\ EntriesOwned' /\ HandOwned' /\ NoLeakedEntry' /\ Registered' /\ OwnAnswer'
  BY DEF IInv, IdsDrawn, InCall, EntriesOwned, HandOwned, NoLeakedEntry, Registered,
         OwnAnswer, Entry, InHand, EnterMarkDead, callVars
<1> QED  BY <1>1, <1>2, <1>3 DEF IInv

\* Each critical section of mark_dead keeps the invariant: the entries move
\* from the table to the batch as a whole and leave it with an answer.
LEMMA MarkDeadStepKeeps == IInv /\ MarkDeadStep => IInv'
<1> SUFFICES ASSUME IInv, MarkDeadStep PROVE IInv'
  OBVIOUS
<1> USE DEF IInv, TypeOK, callVars, writerVars
<1>1. CASE TakeWriter
  <2>1. TypeOK' /\ MarkOrder' /\ LateEntriesUnqueue'
    BY <1>1 DEF TakeWriter, MarkOrder, LateEntriesUnqueue
  <2>2. IdsDrawn' /\ EntriesOwned' /\ NoLeakedEntry'
    BY <1>1 DEF TakeWriter, IdsDrawn, InCall, EntriesOwned, NoLeakedEntry
  <2>3. HandOwned'
    BY <1>1 DEF TakeWriter, HandOwned
  <2>4. Registered' /\ OwnAnswer'
    BY <1>1 DEF TakeWriter, Registered, OwnAnswer, Entry, InHand
  <2> QED  BY <2>1, <2>2, <2>3, <2>4
<1>2. CASE TakePending
  <2>1. drain = {}
    BY <1>2 DEF TakePending, MarkOrder
  <2>2. TypeOK' /\ IdsDrawn' /\ MarkOrder' /\ NoLeakedEntry' /\ LateEntriesUnqueue' /\ OwnAnswer'
    BY <1>2 DEF TakePending, IdsDrawn, InCall, MarkOrder, NoLeakedEntry, LateEntriesUnqueue,
                OwnAnswer
  <2>3. EntriesOwned' /\ HandOwned'
    BY <1>2, <2>1 DEF TakePending, EntriesOwned, HandOwned
  <2>4. Registered'
    BY <1>2, <2>1 DEF TakePending, Registered, Entry, InHand
  <2> QED  BY <2>2, <2>3, <2>4
<1>3. ASSUME NEW p \in drain, SendDead(p) PROVE IInv'
  <2>1. ASSUME NEW q \in pending \cup (drain \ {p}) PROVE q.tx # p.tx
    <3>1. q \in [id : Nat \ {0}, tx : Calls] /\ p \in [id : Nat \ {0}, tx : Calls]
      OBVIOUS
    <3>2. q # p
      BY DEF EntriesOwned
    <3>3. q.id = id[q.tx] /\ p.id = id[p.tx]
      BY DEF EntriesOwned, HandOwned
    <3>4. q.tx = p.tx => q.id = p.id
      BY <3>3
    <3> QED  BY <3>1, <3>2, <3>4, EntryEquality
  <2>2. EntriesOwned' /\ HandOwned'
    BY <1>3, <2>1 DEF SendDead, EntriesOwned, HandOwned
  <2>3. TypeOK' /\ IdsDrawn' /\ MarkOrder' /\ NoLeakedEntry' /\ LateEntriesUnqueue'
    BY <1>3 DEF SendDead, Kinds, IdsDrawn, InCall, MarkOrder, NoLeakedEntry,
                LateEntriesUnqueue
  <2>4. OwnAnswer'
    BY <1>3 DEF SendDead, OwnAnswer, EntriesOwned
  <2>5. Registered'
    <3> SUFFICES ASSUME NEW c \in Calls, pc[c] \in {"queueing", "waiting"}, reply'[c] = NoReply
                 PROVE  Entry(c) \in pending \cup (drain \ {p}) \cup InHand
      BY <1>3 DEF SendDead, Registered, Entry, InHand
    <3>1. c # p.tx /\ reply[c] = NoReply
      BY <1>3 DEF SendDead, NoReply
    <3>2. Entry(c) # p
      BY <3>1 DEF Entry
    <3> QED  BY <3>1, <3>2 DEF Registered
  <2> QED  BY <2>2, <2>3, <2>4, <2>5
<1>4. CASE FinishMarkDead
  BY <1>4 DEF FinishMarkDead, IdsDrawn, InCall, MarkOrder, EntriesOwned, HandOwned,
              NoLeakedEntry, Registered, LateEntriesUnqueue, OwnAnswer, Entry, InHand
<1> QED  BY <1>1, <1>2, <1>3, <1>4 DEF MarkDeadStep

\* A call that starts draws an id nobody has.
LEMMA CallStartKeeps == \A c \in Calls : IInv /\ CallStart(c) => IInv'
<1> SUFFICES ASSUME NEW c \in Calls, IInv, CallStart(c) PROVE IInv'
  OBVIOUS
<1> USE DEF IInv, TypeOK, CallStart, markVars, writerVars
<1>1. CASE ~alive
  <2>1. /\ pc' = [pc EXCEPT ![c] = "done"]
        /\ UNCHANGED <<markVars, pending, nextId, id, hand, reply, sent>>
    BY <1>1 DEF Return
  <2>2. TypeOK' /\ MarkOrder' /\ LateEntriesUnqueue'
    BY <1>1 DEF Return, Outcomes, MarkOrder, LateEntriesUnqueue
  <2>3. IdsDrawn'
    BY <2>1 DEF IdsDrawn, InCall
  <2>4. NoLeakedEntry' /\ OwnAnswer'
    BY <2>1, <1>1 DEF NoLeakedEntry, OwnAnswer
  <2>5. EntriesOwned' /\ HandOwned' /\ Registered'
    BY <2>1, <1>1 DEF EntriesOwned, HandOwned, Registered, Entry, InHand
  <2> QED  BY <2>2, <2>3, <2>4, <2>5
<1>2. CASE alive
  <2>1. /\ id' = [id EXCEPT ![c] = nextId]
        /\ nextId' = nextId + 1
        /\ pc' = [pc EXCEPT ![c] = "registering"]
        /\ outcome' = outcome
    BY <1>2 DEF Goto
  <2>2. TypeOK'
    BY <2>1
  <2>3. IdsDrawn'
    BY <2>1 DEF IdsDrawn, InCall
  <2>4. EntriesOwned' /\ HandOwned' /\ NoLeakedEntry' /\ Registered' /\ OwnAnswer'
    BY <2>1 DEF EntriesOwned, HandOwned, NoLeakedEntry, Registered, OwnAnswer, Entry, InHand, IdsDrawn
  <2>5. MarkOrder' /\ LateEntriesUnqueue'
    BY <2>1, <1>2 DEF MarkOrder, LateEntriesUnqueue
  <2> QED  BY <2>2, <2>3, <2>4, <2>5
<1> QED  BY <1>1, <1>2

\* Inserting the entry replaces no other, because no table holds the id.
LEMMA CallRegisterKeeps == \A c \in Calls : IInv /\ CallRegister(c) => IInv'
<1> SUFFICES ASSUME NEW c \in Calls, IInv, CallRegister(c) PROVE IInv'
  OBVIOUS
<1> USE DEF IInv, TypeOK, CallRegister, Goto, Entry, InHand, Without, markVars, writerVars
<1>1. TypeOK' /\ IdsDrawn' /\ MarkOrder'
  BY DEF IdsDrawn, InCall, MarkOrder
<1>2. \A p \in pending \cup drain : p.id # id[c] /\ p.tx # c
  BY DEF EntriesOwned, HandOwned, IdsDrawn, InCall
<1>3. EntriesOwned' /\ NoLeakedEntry' /\ LateEntriesUnqueue'
  BY <1>2 DEF EntriesOwned, NoLeakedEntry, LateEntriesUnqueue
<1>4. HandOwned'
  BY <1>2 DEF HandOwned
<1>5. Registered' /\ OwnAnswer'
  BY <1>2 DEF Registered, OwnAnswer
<1> QED  BY <1>1, <1>3, <1>4, <1>5

\* A call that gets its frame queued saw the writer, so mark_dead has not
\* emptied the table yet and the entry is safe.
LEMMA CallQueueKeeps == \A c \in Calls : IInv /\ CallQueue(c) => IInv'
<1> SUFFICES ASSUME NEW c \in Calls, IInv, CallQueue(c) PROVE IInv'
  OBVIOUS
<1>1. id[c] \in Nat \ {0}
  BY DEF CallQueue, IInv, IdsDrawn, InCall, TypeOK
<1>2. outq' \in Seq(Nat \ {0})
  <2>1. outq \in Seq(Nat \ {0})
    BY DEF IInv, TypeOK
  <2>2. Append(outq, id[c]) \in Seq(Nat \ {0})
    BY <1>1, <2>1, AppendType, Zenon
  <2> QED  BY <2>1, <2>2 DEF CallQueue
<1> USE DEF IInv, TypeOK, CallQueue, Goto, markVars
<1>3. TypeOK' /\ IdsDrawn' /\ MarkOrder'
  BY <1>2 DEF IdsDrawn, InCall, MarkOrder
<1>4. EntriesOwned' /\ NoLeakedEntry'
  BY DEF EntriesOwned, NoLeakedEntry
<1>5. HandOwned'
  BY DEF HandOwned
<1>6. Registered'
  BY DEF Registered, Entry, InHand
<1>7. OwnAnswer'
  BY DEF OwnAnswer
<1>8. LateEntriesUnqueue'
  BY DEF LateEntriesUnqueue, MarkOrder
<1> QED  BY <1>3, <1>4, <1>5, <1>6, <1>7, <1>8

\* Giving up, by finding the writer gone or by the timer, takes the call's own
\* entry along and nobody else's, because ids are unique.
LEMMA CallGivesUpKeeps ==
  \A c \in Calls : IInv /\ (CallUnqueue(c) \/ CallExpire(c)) => IInv'
<1> SUFFICES ASSUME NEW c \in Calls, IInv, CallUnqueue(c) \/ CallExpire(c) PROVE IInv'
  OBVIOUS
<1> USE DEF IInv, TypeOK, CallUnqueue, CallExpire, Return, Without, markVars, writerVars
<1>1. TypeOK' /\ IdsDrawn' /\ MarkOrder'
  <2>a. pc' \in [Calls -> {"idle", "registering", "queueing", "unqueueing", "waiting",
                           "expired", "done", "dropped"}]
    OBVIOUS
  <2>b. outcome' \in [Calls -> Outcomes]
    BY DEF Outcomes
  <2>c. pending' \subseteq pending
    OBVIOUS
  <2>d. UNCHANGED <<alive, markPc, killer, drain, writerTx, nextId, id, hand, reply,
                    outq, wpc, sent, spc>>
    OBVIOUS
  <2>1. TypeOK'
    BY <2>a, <2>b, <2>c, <2>d
  <2>2. IdsDrawn'
    BY DEF IdsDrawn, InCall
  <2>3. MarkOrder'
    BY DEF MarkOrder
  <2> QED  BY <2>1, <2>2, <2>3
<1>2. EntriesOwned' /\ NoLeakedEntry' /\ LateEntriesUnqueue'
  <2>1. EntriesOwned'
    BY DEF EntriesOwned
  <2>2. NoLeakedEntry'
    <3> SUFFICES ASSUME NEW p \in pending' PROVE NoLeakedEntry!(p)'
      BY DEF NoLeakedEntry
    <3>1. p \in pending /\ p.tx \in Calls /\ p.id # id[c]
      OBVIOUS
    <3>2. p.tx # c
      BY <3>1 DEF EntriesOwned
    <3>3. pc'[p.tx] = pc[p.tx]
      BY <3>1, <3>2
    <3> QED  BY <3>1, <3>3 DEF NoLeakedEntry
  <2>3. LateEntriesUnqueue'
    BY DEF LateEntriesUnqueue
  <2> QED  BY <2>1, <2>2, <2>3
<1>4. HandOwned'
  BY DEF HandOwned
<1>3. Registered'
  BY DEF Registered, Entry, InHand, IdsDrawn, InCall
<1>5. OwnAnswer'
  BY DEF OwnAnswer
<1> QED  BY <1>1, <1>2, <1>3, <1>4, <1>5

\* A caller that stops waiting, with its answer, by its timer or because it is
\* dropped, touches no table.
LEMMA CallEndsWaitKeeps ==
  \A c \in Calls : IInv /\ (CallReturn(c) \/ CallTimeout(c) \/ CallDrop(c)) => IInv'
<1> SUFFICES ASSUME NEW c \in Calls, IInv, CallReturn(c) \/ CallTimeout(c) \/ CallDrop(c)
             PROVE  IInv'
  OBVIOUS
<1> USE DEF IInv, TypeOK, CallReturn, CallTimeout, CallDrop, Return, Goto, markVars, writerVars
<1>0. reply[c] # NoReply => InterpretResponse(reply[c].kind) \in Outcomes
  BY DEF InterpretResponse, Outcomes, Kinds
<1>1. TypeOK' /\ IdsDrawn' /\ MarkOrder'
  <2>a. pc' \in [Calls -> {"idle", "registering", "queueing", "unqueueing", "waiting",
                           "expired", "done", "dropped"}]
    OBVIOUS
  <2>b. outcome' \in [Calls -> Outcomes]
    BY <1>0
  <2>c. UNCHANGED <<alive, markPc, killer, drain, writerTx, pending, nextId, id, hand, reply,
                    outq, wpc, sent, spc>>
    OBVIOUS
  <2>1. TypeOK'
    BY <2>a, <2>b, <2>c
  <2>2. IdsDrawn'
    BY DEF IdsDrawn, InCall
  <2>3. MarkOrder'
    BY DEF MarkOrder
  <2> QED  BY <2>1, <2>2, <2>3
<1>2. EntriesOwned' /\ NoLeakedEntry' /\ LateEntriesUnqueue'
  <2>1. EntriesOwned'
    BY DEF EntriesOwned
  <2>2. NoLeakedEntry'
    BY DEF NoLeakedEntry, EntriesOwned
  <2>3. LateEntriesUnqueue'
    BY DEF LateEntriesUnqueue
  <2> QED  BY <2>1, <2>2, <2>3
<1>4. HandOwned'
  BY DEF HandOwned
<1>3. Registered'
  BY DEF Registered, Entry, InHand
<1>5. OwnAnswer'
  BY DEF OwnAnswer
<1> QED  BY <1>1, <1>2, <1>3, <1>4, <1>5

\* The writer only moves ids from its channel to the socket, or dies.
LEMMA WriterStepKeeps == IInv /\ WriterStep => IInv'
<1> SUFFICES ASSUME IInv, WriterStep PROVE IInv'
  OBVIOUS
<1>1. CASE WriterSend
  <2>1. Head(outq) \in Nat \ {0} /\ Tail(outq) \in Seq(Nat \ {0})
    BY <1>1 DEF WriterSend, IInv, TypeOK
  <2>2. TypeOK'
    BY <1>1, <2>1 DEF WriterSend, IInv, TypeOK, markVars, callVars
  <2>3. OwnAnswer'
    BY <1>1 DEF WriterSend, IInv, OwnAnswer, callVars
  <2>4. IdsDrawn' /\ MarkOrder' /\ EntriesOwned' /\ HandOwned' /\ NoLeakedEntry' /\ Registered'
          /\ LateEntriesUnqueue'
    BY <1>1 DEF WriterSend, IInv, IdsDrawn, InCall, MarkOrder, EntriesOwned, HandOwned,
                NoLeakedEntry, Registered, LateEntriesUnqueue, Entry, InHand, markVars, callVars
  <2> QED  BY <2>2, <2>3, <2>4 DEF IInv
<1>2. CASE WriterFail
  <2>1. Tail(outq) \in Seq(Nat \ {0})
    BY <1>2 DEF WriterFail, IInv, TypeOK
  <2> QED  BY <1>2, <2>1, EnterMarkDeadKeeps DEF WriterFail, IInv, TypeOK
<1>3. CASE WriterExit \/ AbortWriter
  <2>1. /\ outq' = <<>> /\ wpc' = "gone"
        /\ UNCHANGED <<markVars, pending, hand, reply, callVars, sent, spc>>
    BY <1>3 DEF WriterExit, AbortWriter
  <2>2. TypeOK' /\ MarkOrder'
    BY <2>1 DEF IInv, TypeOK, MarkOrder, markVars, callVars
  <2>3. IdsDrawn' /\ EntriesOwned' /\ HandOwned' /\ NoLeakedEntry' /\ Registered'
          /\ LateEntriesUnqueue' /\ OwnAnswer'
    BY <2>1 DEF IInv, IdsDrawn, InCall, EntriesOwned, HandOwned, NoLeakedEntry, Registered,
                LateEntriesUnqueue, OwnAnswer, Entry, InHand, markVars, callVars
  <2> QED  BY <2>2, <2>3 DEF IInv
<1> QED  BY <1>1, <1>2, <1>3 DEF WriterStep

\* A frame of the browser takes exactly the entry with its id.
LEMMA DeliverKeeps ==
  ASSUME IInv, NEW i \in Nat \ {0}, NEW kind \in {"result", "error", "invalid"},
         kind # "invalid" => i \in sent, Deliver(i, kind)
  PROVE  IInv'
<1> USE DEF IInv, TypeOK, Deliver, Without, markVars, callVars, writerVars
<1>1. \A p, q \in pending \cup drain : p.tx = q.tx => p = q
  <2> SUFFICES ASSUME NEW p \in pending \cup drain, NEW q \in pending \cup drain, p.tx = q.tx
               PROVE  p = q
    OBVIOUS
  <2>1. p.id = q.id
    BY DEF EntriesOwned
  <2> QED  BY <2>1, EntryEquality
<1>2. \A p, q \in pending : p.id = i /\ q.id = i => p = q
  <2> SUFFICES ASSUME NEW p \in pending, NEW q \in pending, p.id = i, q.id = i PROVE p = q
    OBVIOUS
  <2>1. id[p.tx] = i /\ id[q.tx] = i
    BY DEF EntriesOwned
  <2>2. p.tx = q.tx
    BY <2>1 DEF IdsDrawn
  <2> QED  BY <1>1, <2>2
<1>3. \A h \in hand' : \E p \in pending : p.id = i /\ h = [id |-> i, tx |-> p.tx, kind |-> kind]
  OBVIOUS
<1>4. TypeOK' /\ IdsDrawn' /\ MarkOrder'
  BY DEF Kinds, IdsDrawn, InCall, MarkOrder
<1>5. EntriesOwned' /\ NoLeakedEntry' /\ LateEntriesUnqueue' /\ OwnAnswer'
  BY DEF EntriesOwned, NoLeakedEntry, LateEntriesUnqueue, OwnAnswer
<1>6. HandOwned'
  <2>1. \A g, h \in hand' : g = h
    BY <1>2, <1>3
  <2>2. ASSUME NEW h \in hand'
        PROVE  /\ h.id = id[h.tx] /\ pc[h.tx] \notin {"idle", "registering"}
               /\ reply[h.tx] = NoReply
               /\ h.kind # "invalid" => h.id \in sent
               /\ \A q \in pending' \cup drain : q.tx # h.tx
    <3>1. PICK p \in pending : p.id = i /\ h = [id |-> i, tx |-> p.tx, kind |-> kind]
      BY <1>3
    <3>2. \A q \in pending' \cup drain : q.tx # p.tx
      BY <1>1, <3>1 DEF EntriesOwned
    <3> QED  BY <3>1, <3>2 DEF EntriesOwned
  <2> QED  BY <2>1, <2>2 DEF HandOwned
<1>7. Registered'
  <2> SUFFICES ASSUME NEW c \in Calls, pc[c] \in {"queueing", "waiting"}, reply[c] = NoReply
               PROVE  Entry(c) \in pending' \cup drain \cup InHand'
    BY DEF Registered, Entry
  <2>1. Entry(c) \in pending \cup drain
    BY DEF Registered, InHand
  <2>2. CASE Entry(c) \in pending /\ id[c] = i
    <3>1. Entry(c).tx = c /\ Entry(c).id = i
      BY <2>2 DEF Entry
    <3>2. [id |-> i, tx |-> Entry(c).tx, kind |-> kind] \in hand'
      BY <2>2, <3>1
    <3> QED  BY <2>2, <3>1, <3>2 DEF Entry, InHand
  <2>3. CASE Entry(c) \in drain \/ id[c] # i
    BY <2>1, <2>3 DEF Entry
  <2> QED  BY <2>1, <2>2, <2>3
<1> QED  BY <1>4, <1>5, <1>6, <1>7

\* The answer in hand goes into the oneshot of the call it belongs to.
LEMMA SendAnswerKeeps == \A h \in hand : IInv /\ SendAnswer(h) => IInv'
<1> SUFFICES ASSUME NEW h \in hand, IInv, SendAnswer(h) PROVE IInv'
  OBVIOUS
<1> USE DEF IInv, TypeOK, SendAnswer, markVars, callVars, writerVars
<1>1. /\ hand' = {}
      /\ h \in [id : Nat \ {0}, tx : Calls, kind : Kinds \ {"dead"}]
      /\ reply' = [reply EXCEPT ![h.tx] = [id |-> h.id, kind |-> h.kind]]
  BY DEF HandOwned
<1>2. TypeOK' /\ IdsDrawn' /\ MarkOrder' /\ NoLeakedEntry' /\ LateEntriesUnqueue'
  BY <1>1 DEF IdsDrawn, InCall, MarkOrder, NoLeakedEntry, LateEntriesUnqueue
<1>3. EntriesOwned' /\ HandOwned'
  BY <1>1 DEF EntriesOwned, HandOwned
<1>4. Registered'
  <2> SUFFICES ASSUME NEW c \in Calls, pc[c] \in {"queueing", "waiting"}, reply'[c] = NoReply
               PROVE  Entry(c) \in pending \cup drain
    BY DEF Registered, Entry
  <2>1. c # h.tx /\ reply[c] = NoReply
    BY <1>1 DEF NoReply
  <2>2. Entry(c) \notin InHand
    BY <2>1 DEF Entry, InHand, HandOwned
  <2> QED  BY <2>1, <2>2 DEF Registered
<1>5. OwnAnswer'
  BY <1>1 DEF OwnAnswer, HandOwned
<1> QED  BY <1>2, <1>3, <1>4, <1>5

-----------------------------------------------------------------------------
(* The theorems *)

\* The invariant holds before the first call.
LEMMA IInvInit == Init => IInv
BY DEF Init, IInv, TypeOK, Outcomes, NoReply, IdsDrawn, InCall, MarkOrder, EntriesOwned, HandOwned,
       NoLeakedEntry, Registered, LateEntriesUnqueue, OwnAnswer

\* Every step of every task keeps the invariant.
LEMMA IInvNext == IInv /\ [Next]_vars => IInv'
<1> SUFFICES ASSUME IInv, [Next]_vars PROVE IInv'
  OBVIOUS
<1>1. ASSUME NEW c \in Calls, CallStep(c) PROVE IInv'
  BY <1>1, CallStartKeeps, CallRegisterKeeps, CallQueueKeeps, CallGivesUpKeeps,
     CallEndsWaitKeeps DEF CallStep
<1>2. CASE MarkDeadStep
  BY <1>2, MarkDeadStepKeeps
<1>3. CASE WriterStep
  BY <1>3, WriterStepKeeps
<1>4. CASE Shutdown
  BY <1>4, EnterMarkDeadKeeps DEF Shutdown, IInv, TypeOK, writerVars
<1>5. CASE ShutdownAbort
  BY <1>5 DEF ShutdownAbort, IInv, TypeOK, IdsDrawn, InCall, MarkOrder, EntriesOwned, HandOwned,
              NoLeakedEntry, Registered, LateEntriesUnqueue, OwnAnswer, Entry, InHand,
              markVars, callVars, writerVars
<1>6. CASE DeliverAny
  <2>1. PICK i \in 1 .. nextId :
          \/ i \in sent /\ \E kind \in {"result", "error"} : Deliver(i, kind)
          \/ Deliver(i, "invalid")
    BY <1>6 DEF DeliverAny
  <2>2. i \in Nat \ {0}
    BY DEF IInv, TypeOK
  <2> QED  BY <2>1, <2>2, DeliverKeeps
<1>7. CASE ReaderMarksDead
  BY <1>7, EnterMarkDeadKeeps DEF ReaderMarksDead, IInv, TypeOK, writerVars
<1>8. CASE \E h \in hand : SendAnswer(h)
  BY <1>8, SendAnswerKeeps
<1>9. CASE UNCHANGED vars
  BY <1>9 DEF vars, IInv, TypeOK, IdsDrawn, InCall, MarkOrder, EntriesOwned, HandOwned,
              NoLeakedEntry, Registered, LateEntriesUnqueue, OwnAnswer, Entry, InHand
<1> QED  BY <1>1, <1>2, <1>3, <1>4, <1>5, <1>6, <1>7, <1>8, <1>9 DEF Next

\* The inductive invariant of the transport's outbound half.
THEOREM Invariance == Spec => []IInv
BY IInvInit, IInvNext, PTL DEF Spec

\* Every reachable state of the transport's outbound half is type correct.
THEOREM TypeCorrect == Spec => []TypeOK
<1>1. IInv => TypeOK
  BY DEF IInv
<1> QED  BY <1>1, Invariance, PTL

\* No caller of call_with_timeout is left with a oneshot nobody will fill:
\* inserting into pending before looking at writer_tx, against mark_dead's
\* order of dropping writer_tx before emptying pending, is enough for any
\* number of callers.  What dispatch_item has taken out of the table and not
\* sent yet counts as still to be answered.
THEOREM CallsAreNeverOrphaned == Spec => []NoOrphanedCall
<1>1. IInv => NoOrphanedCall
  BY DEF IInv, Registered, NoOrphanedCall
<1> QED  BY <1>1, Invariance, PTL

\* The pending table holds no entry of a call that has returned; those of
\* dropped calls are the only ones nobody waits for.
THEOREM TableNeverLeaks == Spec => []NoLeakedEntry
<1>1. IInv => NoLeakedEntry
  BY DEF IInv
<1> QED  BY <1>1, Invariance, PTL

\* Once mark_dead has finished, every waiting caller has its RuntimeDead or an
\* answer that came before, but for the one whose entry dispatch_item took out
\* of the table first and has not sent to yet; and the entries of dropped calls
\* are gone.
THEOREM DeathDrainsTable == Spec => []DeadIsDrained
<1>1. IInv => DeadIsDrained
  BY DEF IInv, TypeOK, MarkOrder, Registered, LateEntriesUnqueue, DeadIsDrained, Entry, InHand
<1> QED  BY <1>1, Invariance, PTL

\* A caller is only ever answered with its own id, and by the browser only if
\* its request was written.
THEOREM AnswersAreOwn == Spec => []OwnAnswer
<1>1. IInv => OwnAnswer
  BY DEF IInv
<1> QED  BY <1>1, Invariance, PTL

-----------------------------------------------------------------------------
(* The inductive invariant of Pipeline *)

\* What has been taken and not dispatched is with a worker or in the buffer,
\* in one place only.
InStages ==
  /\ offloading \cap buffer = {}
  /\ dpc \notin {"aborted", "panicked"} => offloading \cup buffer = expected .. taken

\* The dispatcher only believes the channel closed when nothing can follow,
\* and ends with nothing outstanding.
EndOfInput ==
  /\ ~inboundOpen => taken = Len(frames) /\ InboundClosed
  /\ dpc = "done" => ~inboundOpen /\ offloading = {} /\ expected \notin buffer

PipelineIInv == PipelineTypeOK /\ InStages /\ EndOfInput

-----------------------------------------------------------------------------
(* The step *)

\* A sequence over a set is one over a larger set.
LEMMA SeqMonotonic ==
  ASSUME NEW S, NEW T, S \subseteq T, NEW s \in Seq(S)
  PROVE  s \in Seq(T)
OBVIOUS

\* The effect of a frame stays within the sessions frames can name and the
\* numbers handed out.
LEMMA ApplyFrameType ==
  ASSUME NEW f \in Frames, NEW n \in Nat, NEW i \in 1 .. n,
         NEW a \in SUBSET {g.session : g \in Frames}, NEW s \in Seq(1 .. n)
  PROVE  LET view == ApplyFrame([attached |-> a, events |-> s], i, f)
         IN /\ view.attached \subseteq {g.session : g \in Frames}
            /\ view.events \in Seq(1 .. n)
<1>1. Append(s, i) \in Seq(1 .. n)
  BY AppendType, Zenon
<1>2. f.session \in {g.session : g \in Frames}
  OBVIOUS
<1> QED  BY <1>1, <1>2 DEF ApplyFrame

\* The reader appends frames and ends; after it has closed the channel, it
\* appends none.
LEMMA ReaderKeeps ==
  ASSUME PipelineIInv,
         \/ \E f \in Frames : Read(f) \/ ReaderPanic(f)
         \/ ReaderBreak \/ ReaderDropsChannel \/ ReaderExit \/ AbortReader
  PROVE  PipelineIInv'
<1> USE DEF PipelineIInv, PipelineTypeOK, dispatcherVars, effectVars
<1>1. ASSUME NEW f \in Frames, Read(f) PROVE PipelineIInv'
  <2>1. frames' \in Seq(Frames) /\ Len(frames') = Len(frames) + 1
    BY <1>1 DEF Read
  <2>2. PipelineTypeOK'
    BY <1>1, <2>1 DEF Read
  <2>3. InStages' /\ EndOfInput'
    BY <1>1, <2>1 DEF Read, InStages, EndOfInput, InboundClosed
  <2> QED  BY <2>2, <2>3
<1>2. ASSUME NEW f \in Frames, ReaderPanic(f) PROVE PipelineIInv'
  BY <1>2 DEF ReaderPanic, InStages, EndOfInput, InboundClosed
<1>3. CASE ReaderBreak \/ ReaderDropsChannel \/ ReaderExit \/ AbortReader
  <2>1. /\ UNCHANGED <<frames, dispatcherVars, effectVars>>
        /\ rpc' \in {"broke", "dropped", "gone"}
        /\ InboundClosed => InboundClosed'
    BY <1>3 DEF ReaderBreak, ReaderDropsChannel, ReaderExit, AbortReader, InboundClosed
  <2> QED  BY <2>1 DEF InStages, EndOfInput
<1> QED  BY <1>1, <1>2, <1>3

\* Taking a frame puts its number into exactly one stage.
LEMMA TakeFrameKeeps == PipelineIInv /\ (TakeFrame \/ DispatcherPanic) => PipelineIInv'
<1> SUFFICES ASSUME PipelineIInv, TakeFrame \/ DispatcherPanic PROVE PipelineIInv'
  OBVIOUS
<1> USE DEF PipelineIInv, PipelineTypeOK, TakeFrame, DispatcherPanic, readerVars, effectVars
<1>1. events' \in Seq(1 .. taken')
  <2>1. 1 .. taken \subseteq 1 .. taken'
    OBVIOUS
  <2> QED  BY <2>1, SeqMonotonic
<1>2. PipelineTypeOK'
  <2>1. taken' \in 0 .. Len(frames') /\ expected' \in 1 .. taken' + 1
    OBVIOUS
  <2>2. offloading' \subseteq 1 .. taken' /\ buffer' \subseteq 1 .. taken'
    <3>1. \A n : n \in offloading' \/ n \in buffer' => n \in 1 .. taken \/ n = taken + 1
      OBVIOUS
    <3>2. taken' = taken + 1 /\ taken \in Nat
      OBVIOUS
    <3> QED  BY ONLY <3>1, <3>2
  <2>3. dpc' \in {"run", "done", "aborted", "panicked"}
    OBVIOUS
  <2>4. UNCHANGED <<frames, rpc, inboundOpen, attached>>
    OBVIOUS
  <2> QED  BY <1>1, <2>1, <2>2, <2>3, <2>4
<1>3. InStages' /\ EndOfInput'
  BY DEF InStages, EndOfInput, InboundClosed
<1> QED  BY <1>2, <1>3

\* Dispatching takes the lowest outstanding number out of the buffer.
LEMMA DispatchNextKeeps == PipelineIInv /\ DispatchNext => PipelineIInv'
<1> SUFFICES ASSUME PipelineIInv, DispatchNext PROVE PipelineIInv'
  OBVIOUS
<1> USE DEF PipelineIInv, PipelineTypeOK, DispatchNext, readerVars
<1>1. expected \in 1 .. taken /\ frames[expected] \in Frames
  OBVIOUS
<1>2. attached' \subseteq {g.session : g \in Frames} /\ events' \in Seq(1 .. taken)
  <2>1. /\ taken \in Nat
        /\ attached \in SUBSET {g.session : g \in Frames}
        /\ events \in Seq(1 .. taken)
    OBVIOUS
  <2>2. LET view == ApplyFrame([attached |-> attached, events |-> events],
                               expected, frames[expected])
        IN /\ view.attached \subseteq {g.session : g \in Frames}
           /\ view.events \in Seq(1 .. taken)
    BY ONLY <1>1, <2>1, ApplyFrameType, Zenon
  <2> QED  BY <2>2
<1>3. PipelineTypeOK'
  BY <1>1, <1>2
<1>4. InStages' /\ EndOfInput'
  BY <1>1 DEF InStages, EndOfInput, InboundClosed
<1> QED  BY <1>3, <1>4

\* The other steps of the dispatcher: a worker's result moves a number from
\* one stage to the other, and it ends.
LEMMA DispatcherKeeps ==
  ASSUME PipelineIInv,
         \/ SeeInboundClosed \/ DispatcherExit \/ AbortDispatcher
         \/ \E n \in offloading : TakeCompletion(n)
  PROVE  PipelineIInv'
<1> USE DEF PipelineIInv, PipelineTypeOK, readerVars, effectVars, InStages, EndOfInput, InboundClosed
<1>1. CASE SeeInboundClosed
  BY <1>1 DEF SeeInboundClosed
<1>2. CASE DispatcherExit \/ AbortDispatcher
  BY <1>2 DEF DispatcherExit, AbortDispatcher, Drained
<1>3. ASSUME NEW n \in offloading, TakeCompletion(n) PROVE PipelineIInv'
  BY <1>3 DEF TakeCompletion
<1> QED  BY <1>1, <1>2, <1>3

-----------------------------------------------------------------------------
(* The theorems *)

\* The invariant holds when the connection opens.
LEMMA PipelineIInvInit == PipelineInit => PipelineIInv
<1> SUFFICES ASSUME PipelineInit PROVE PipelineIInv
  OBVIOUS
<1>1. <<>> \in Seq(Frames) /\ <<>> \in Seq(1 .. 0) /\ Len(<<>>) = 0
  OBVIOUS
<1> QED  BY <1>1 DEF PipelineInit, PipelineIInv, PipelineTypeOK, InStages, EndOfInput

\* Every step of the reader, the dispatcher and the workers keeps it.
LEMMA PipelineIInvNext == PipelineIInv /\ [PipelineNext]_pipelineVars => PipelineIInv'
<1> SUFFICES ASSUME PipelineIInv, [PipelineNext]_pipelineVars PROVE PipelineIInv'
  OBVIOUS
<1>1. CASE UNCHANGED pipelineVars
  BY <1>1 DEF pipelineVars, PipelineIInv, PipelineTypeOK, InStages, EndOfInput, InboundClosed
<1> QED  BY <1>1, ReaderKeeps, TakeFrameKeeps, DispatchNextKeeps, DispatcherKeeps
         DEF PipelineNext, DispatcherStep

\* The inductive invariant of the transport's inbound half.
THEOREM PipelineInvariance == PipelineSpec => []PipelineIInv
BY PipelineIInvInit, PipelineIInvNext, PTL DEF PipelineSpec

\* Every reachable state of the transport's inbound half is type correct.
THEOREM PipelineTypeCorrect == PipelineSpec => []PipelineTypeOK
<1>1. PipelineIInv => PipelineTypeOK
  BY DEF PipelineIInv
<1> QED  BY <1>1, PipelineInvariance, PTL

\* However many frames arrive and in whatever order the decode workers finish,
\* every number is in exactly one stage until it is dispatched, so the reorder
\* buffer never waits for one that will not come; a dispatcher that ends by
\* itself has dispatched everything.
THEOREM SequencesAreNeverLost == PipelineSpec => []NoSequenceLost
<1>1. PipelineIInv => NoSequenceLost
  <2> SUFFICES ASSUME PipelineIInv PROVE NoSequenceLost
    OBVIOUS
  <2> USE DEF PipelineIInv, PipelineTypeOK, InStages, EndOfInput
  <2>1. dpc \notin {"aborted", "panicked"} =>
          expected .. Len(frames) = (taken + 1 .. Len(frames)) \cup offloading \cup buffer
    OBVIOUS
  <2>2. dpc = "done" => expected = Len(frames) + 1
    OBVIOUS
  <2> QED  BY <2>1, <2>2 DEF NoSequenceLost
<1> QED  BY <1>1, PipelineInvariance, PTL

\* Frames take effect one at a time and in wire order, for any frames: each
\* step of the reader, the workers or the dispatcher receives a frame, makes
\* the next one take effect, or changes nothing the rest of the runtime sees.
THEOREM PipelineIsFIFO == PipelineSpec => ImplementsFIFO
<1>1. PipelineInit => FIFO!Init([attached |-> {}, events |-> <<>>])
  BY DEF PipelineInit, FIFO!Init
<1>2. PipelineIInv /\ [PipelineNext]_pipelineVars => [FIFO!Next]_FIFO!vars
  <2> SUFFICES ASSUME PipelineIInv, [PipelineNext]_pipelineVars PROVE [FIFO!Next]_FIFO!vars
    OBVIOUS
  <2>1. ASSUME NEW f \in Frames, Read(f) PROVE FIFO!Next
    BY <2>1 DEF Read, dispatcherVars, effectVars, FIFO!Next, FIFO!Receive
  <2>2. CASE DispatchNext
    <3>1. expected \in Nat \ {0} /\ expected <= Len(frames)
      BY <2>2 DEF DispatchNext, PipelineIInv, PipelineTypeOK
    <3>2. (expected - 1) + 1 = expected /\ expected' - 1 = expected
      BY <2>2, <3>1 DEF DispatchNext
    <3>3. [attached |-> attached', events |-> events']
            = ApplyFrame([attached |-> attached, events |-> events], expected,
                         frames[expected])
      BY <2>2 DEF DispatchNext, ApplyFrame
    <3>4. FIFO!Deliver
      BY <2>2, <3>1, <3>2, <3>3 DEF FIFO!Deliver, DispatchNext, readerVars
    <3> QED  BY <3>4 DEF FIFO!Next
  <2>3. ASSUME NEW f \in Frames, ReaderPanic(f) PROVE UNCHANGED FIFO!vars
    BY <2>3 DEF ReaderPanic, dispatcherVars, effectVars, FIFO!vars
  <2>4. CASE ReaderBreak \/ ReaderDropsChannel \/ ReaderExit \/ AbortReader
    BY <2>4 DEF ReaderBreak, ReaderDropsChannel, ReaderExit, AbortReader,
                dispatcherVars, effectVars, FIFO!vars
  <2>5. CASE TakeFrame \/ DispatcherPanic \/ SeeInboundClosed \/ DispatcherExit
             \/ AbortDispatcher \/ \E n \in offloading : TakeCompletion(n)
    BY <2>5 DEF TakeFrame, DispatcherPanic, SeeInboundClosed, DispatcherExit,
                AbortDispatcher, TakeCompletion, readerVars, effectVars, FIFO!vars
  <2>6. CASE UNCHANGED pipelineVars
    BY <2>6 DEF pipelineVars, FIFO!vars
  <2> QED  BY <2>1, <2>2, <2>3, <2>4, <2>5, <2>6 DEF PipelineNext, DispatcherStep
<1> QED  BY <1>1, <1>2, PipelineInvariance, PTL DEF PipelineSpec, ImplementsFIFO

=============================================================================
