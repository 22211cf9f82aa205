------------------------------ MODULE Requests ------------------------------
(***************************************************************************)
(* The outbound half of the CDP transport, browser_runtime/connection.rs:  *)
(* concurrent callers of call_with_timeout, the pending table, the writer  *)
(* task, and the fail-closed mark_dead that several tasks race to run.     *)
(*                                                                         *)
(* One action is one atomic operation on shared state (an atomic load or   *)
(* swap, one critical section of a mutex, one channel operation), so the   *)
(* interleavings are those of the code's threads.  Everything the browser  *)
(* and the inbound half may do is Deliver, SendAnswer and the two ways the *)
(* reader marks the connection dead; Transport supplies the real ones.     *)
(***************************************************************************)
EXTENDS Naturals, Sequences

CONSTANT Calls      \* invocations of call_with_timeout

VARIABLES
  alive,      \* Shared.alive
  markPc,     \* how far the one winning mark_dead has got
  killer,     \* the task that won alive.swap(false)
  drain,      \* entries mark_dead took out of pending and has not answered yet
  writerTx,   \* Shared.writer_tx is Some
  pending,    \* Shared.pending: entries [id, tx], tx the caller's oneshot
  nextId,     \* Shared.next_id
  pc,         \* where each call is in call_with_timeout
  id,         \* the request id each call drew, 0 before
  hand,       \* the entry dispatch_item took out of pending and has not answered yet
  reply,      \* what is in each call's oneshot
  outcome,    \* what each call returned
  outq,       \* the writer's channel: ids of queued request frames
  wpc,        \* the writer task
  sent,       \* ids of the frames written to the socket
  spc         \* BrowserRuntime::shutdown

markVars == <<alive, markPc, killer, drain, writerTx>>
callVars == <<nextId, pc, id, outcome>>
writerVars == <<outq, wpc, sent>>
vars == <<alive, markPc, killer, drain, writerTx, pending, nextId, pc, id,
          hand, reply, outcome, outq, wpc, sent, spc>>

-----------------------------------------------------------------------------

NoReply == [id |-> 0, kind |-> "none"]
Kinds == {"result", "error", "invalid", "dead"}
Outcomes == {"none", "Ok", "CdpError", "InvalidResponse", "RuntimeDead", "Timeout"}

\* interpret_response: the marker errors come first, then the browser's own.
InterpretResponse(kind) ==
  CASE kind = "dead" -> "RuntimeDead"
    [] kind = "invalid" -> "InvalidResponse"
    [] kind = "error" -> "CdpError"
    [] kind = "result" -> "Ok"

Entry(c) == [id |-> id[c], tx |-> c]
Without(table, i) == {p \in table : p.id # i}
InHand == {[id |-> h.id, tx |-> h.tx] : h \in hand}

TypeOK ==
  /\ alive \in BOOLEAN
  /\ markPc \in {"idle", "swapped", "writerTaken", "draining", "done"}
  /\ killer \in {"none", "reader", "writer", "shutdown"}
  /\ drain \subseteq [id : Nat \ {0}, tx : Calls]
  /\ writerTx \in BOOLEAN
  /\ pending \subseteq [id : Nat \ {0}, tx : Calls]
  /\ nextId \in Nat \ {0}
  /\ pc \in [Calls -> {"idle", "registering", "queueing", "unqueueing",
                       "waiting", "expired", "dropped", "done"}]
  /\ id \in [Calls -> Nat]
  /\ hand \subseteq [id : Nat \ {0}, tx : Calls, kind : Kinds \ {"dead"}]
  /\ reply \in [Calls -> {NoReply} \cup [id : Nat \ {0}, kind : Kinds]]
  /\ outcome \in [Calls -> Outcomes]
  /\ outq \in Seq(Nat \ {0})
  /\ wpc \in {"run", "failed", "gone"}
  /\ sent \subseteq Nat \ {0}
  /\ spc \in {"idle", "marking", "done"}

Init ==
  /\ alive = TRUE
  /\ markPc = "idle"
  /\ killer = "none"
  /\ drain = {}
  /\ writerTx = TRUE
  /\ pending = {}
  /\ nextId = 1
  /\ pc = [c \in Calls |-> "idle"]
  /\ id = [c \in Calls |-> 0]
  /\ hand = {}
  /\ reply = [c \in Calls |-> NoReply]
  /\ outcome = [c \in Calls |-> "none"]
  /\ outq = <<>>
  /\ wpc = "run"
  /\ sent = {}
  /\ spc = "idle"

-----------------------------------------------------------------------------
(* mark_dead *)

\* The swap that picks the winner; a task that finds alive already false
\* returns at once.
EnterMarkDead(task) ==
  /\ alive' = FALSE
  /\ markPc' = IF alive THEN "swapped" ELSE markPc
  /\ killer' = IF alive THEN task ELSE killer
  /\ UNCHANGED <<drain, writerTx>>

\* mark_dead is synchronous: the winner does nothing else before it returns.
Busy(task) == killer = task /\ markPc # "done"

\* Mutant of TakeWriter: the writer channel stays.
TakeWriterForgotten ==
  /\ markPc = "swapped"
  /\ markPc' = "writerTaken"
  /\ UNCHANGED <<alive, killer, drain, writerTx, pending, hand, reply, callVars, writerVars, spc>>

TakeWriter ==
  /\ markPc = "swapped"
  /\ markPc' = "writerTaken"
  /\ writerTx' = FALSE
  /\ UNCHANGED <<alive, killer, drain, pending, hand, reply, callVars, writerVars, spc>>

\* Mutant of TakePending: the table is cleared, not drained.
TakePendingDiscards ==
  /\ markPc = "writerTaken"
  /\ markPc' = "draining"
  /\ pending' = {}
  /\ UNCHANGED <<alive, killer, drain, writerTx, hand, reply, callVars, writerVars, spc>>

TakePending ==
  /\ markPc = "writerTaken"
  /\ markPc' = "draining"
  /\ drain' = pending
  /\ pending' = {}
  /\ UNCHANGED <<alive, killer, writerTx, hand, reply, callVars, writerVars, spc>>

SendDead(p) ==
  /\ markPc = "draining"
  /\ p \in drain
  /\ drain' = drain \ {p}
  /\ reply' = [reply EXCEPT ![p.tx] = [id |-> p.id, kind |-> "dead"]]
  /\ UNCHANGED <<alive, markPc, killer, writerTx, pending, hand, callVars, writerVars, spc>>

\* Mutant of FinishMarkDead: the loop over the batch stops early.
FinishMarkDeadEarly ==
  /\ markPc = "draining"
  /\ markPc' = "done"
  /\ UNCHANGED <<alive, killer, drain, writerTx, pending, hand, reply, callVars,
                 writerVars, spc>>

FinishMarkDead ==
  /\ markPc = "draining"
  /\ drain = {}
  /\ markPc' = "done"
  /\ UNCHANGED <<alive, killer, drain, writerTx, pending, hand, reply, callVars,
                 writerVars, spc>>

-----------------------------------------------------------------------------
(* call_with_timeout *)

Return(c, result) ==
  /\ pc' = [pc EXCEPT ![c] = "done"]
  /\ outcome' = [outcome EXCEPT ![c] = result]

Goto(c, label) ==
  /\ pc' = [pc EXCEPT ![c] = label]
  /\ UNCHANGED outcome

\* Mutant of CallStart: no id is drawn.
CallStartWithoutId(c) ==
  /\ pc[c] = "idle"
  /\ IF alive THEN Goto(c, "registering") ELSE Return(c, "RuntimeDead")
  /\ UNCHANGED <<markVars, pending, nextId, id, hand, reply, writerVars, spc>>

\* The alive check, then next_id.fetch_add.
CallStart(c) ==
  /\ pc[c] = "idle"
  /\ \/ /\ ~alive
        /\ Return(c, "RuntimeDead")
        /\ UNCHANGED <<nextId, id>>
     \/ /\ alive
        /\ id' = [id EXCEPT ![c] = nextId]
        /\ nextId' = nextId + 1
        /\ Goto(c, "registering")
  /\ UNCHANGED <<markVars, pending, hand, reply, writerVars, spc>>

CallRegister(c) ==
  /\ pc[c] = "registering"
  /\ pending' = Without(pending, id[c]) \cup {Entry(c)}
  /\ Goto(c, "queueing")
  /\ UNCHANGED <<markVars, nextId, id, hand, reply, writerVars, spc>>

\* Queue the frame for the writer, under the writer_tx lock.  The send also
\* fails when the writer task has gone and dropped its receiver.
CallQueue(c) ==
  /\ pc[c] = "queueing"
  /\ \/ /\ writerTx /\ wpc # "gone"
        /\ outq' = Append(outq, id[c])
        /\ Goto(c, "waiting")
     \/ /\ ~(writerTx /\ wpc # "gone")
        /\ Goto(c, "unqueueing")
        /\ UNCHANGED outq
  /\ UNCHANGED <<markVars, pending, nextId, id, hand, reply, wpc, sent, spc>>

CallUnqueue(c) ==
  /\ pc[c] = "unqueueing"
  /\ pending' = Without(pending, id[c])
  /\ Return(c, "RuntimeDead")
  /\ UNCHANGED <<markVars, nextId, id, hand, reply, writerVars, spc>>

\* timeout() polls the receiver before the timer, so the timer only wins
\* while the oneshot is empty.
CallReturn(c) ==
  /\ pc[c] = "waiting"
  /\ reply[c] # NoReply
  /\ Return(c, InterpretResponse(reply[c].kind))
  /\ UNCHANGED <<markVars, pending, nextId, id, hand, reply, writerVars, spc>>

CallTimeout(c) ==
  /\ pc[c] = "waiting"
  /\ reply[c] = NoReply
  /\ Goto(c, "expired")
  /\ UNCHANGED <<markVars, pending, nextId, id, hand, reply, writerVars, spc>>

\* Mutant of CallExpire: the timed-out call leaves its entry.
CallExpireLeavesEntry(c) ==
  /\ pc[c] = "expired"
  /\ Return(c, "Timeout")
  /\ UNCHANGED <<markVars, pending, nextId, id, hand, reply, writerVars, spc>>

CallExpire(c) ==
  /\ pc[c] = "expired"
  /\ pending' = Without(pending, id[c])
  /\ Return(c, "Timeout")
  /\ UNCHANGED <<markVars, nextId, id, hand, reply, writerVars, spc>>

\* The caller's future is dropped at its only await (the executor's deadlines
\* are shorter than the call's): the receiver goes, the entry stays.
CallDrop(c) ==
  /\ pc[c] = "waiting"
  /\ Goto(c, "dropped")
  /\ UNCHANGED <<markVars, pending, nextId, id, hand, reply, writerVars, spc>>

-----------------------------------------------------------------------------
(* writer_loop *)

WriterSend ==
  /\ wpc = "run"
  /\ outq # <<>>
  /\ sent' = sent \cup {Head(outq)}
  /\ outq' = Tail(outq)
  /\ UNCHANGED <<markVars, pending, hand, reply, callVars, wpc, spc>>

WriterFail ==
  /\ wpc = "run"
  /\ outq # <<>>
  /\ outq' = Tail(outq)
  /\ wpc' = "failed"
  /\ EnterMarkDead("writer")
  /\ UNCHANGED <<pending, hand, reply, callVars, sent, spc>>

\* The task ends after a failed send, or when every sender is gone and the
\* channel is empty; its receiver goes with it, and whatever is still queued.
WriterExit ==
  /\ \/ wpc = "failed" /\ ~Busy("writer")
     \/ wpc = "run" /\ ~writerTx /\ outq = <<>>
  /\ wpc' = "gone"
  /\ outq' = <<>>
  /\ UNCHANGED <<markVars, pending, hand, reply, callVars, sent, spc>>

-----------------------------------------------------------------------------
(* shutdown *)

Shutdown ==
  /\ spc = "idle"
  /\ spc' = "marking"
  /\ EnterMarkDead("shutdown")
  /\ UNCHANGED <<pending, hand, reply, callVars, writerVars>>

ShutdownAbort ==
  /\ spc = "marking"
  /\ ~Busy("shutdown")
  /\ spc' = "done"
  /\ UNCHANGED <<markVars, pending, hand, reply, callVars, writerVars>>

\* An aborted task ends at its next await.
AbortWriter ==
  /\ spc = "done"
  /\ wpc = "run"
  /\ wpc' = "gone"
  /\ outq' = <<>>
  /\ UNCHANGED <<markVars, pending, hand, reply, callVars, sent, spc>>

-----------------------------------------------------------------------------
(* What the inbound half does to this one. *)

\* Mutant of Deliver: the answer goes to whoever waits.
DeliverToAnyone(i, kind) ==
  /\ hand = {}
  /\ hand' = {[id |-> i, tx |-> p.tx, kind |-> kind] : p \in pending}
  /\ pending' = Without(pending, i)
  /\ UNCHANGED <<markVars, reply, callVars, writerVars, spc>>

\* dispatch_item for a frame that carries an id: take the entry out of the
\* table, under its lock; without an entry the frame is late and is dropped.
Deliver(i, kind) ==
  /\ hand = {}
  /\ hand' = {[id |-> i, tx |-> p.tx, kind |-> kind] : p \in pending \ Without(pending, i)}
  /\ pending' = Without(pending, i)
  /\ UNCHANGED <<markVars, reply, callVars, writerVars, spc>>

\* The send on the oneshot, after the lock has been released.  A receiver that
\* is gone by then makes no difference.
SendAnswer(h) ==
  /\ h \in hand
  /\ hand' = hand \ {h}
  /\ reply' = [reply EXCEPT ![h.tx] = [id |-> h.id, kind |-> h.kind]]
  /\ UNCHANGED <<markVars, pending, callVars, writerVars, spc>>

\* The browser answers only requests it got; a garbled frame may show any id.
DeliverAny ==
  \E i \in 1 .. nextId :
    \/ i \in sent /\ \E kind \in {"result", "error"} : Deliver(i, kind)
    \/ Deliver(i, "invalid")

ReaderMarksDead ==
  /\ EnterMarkDead("reader")
  /\ UNCHANGED <<pending, hand, reply, callVars, writerVars, spc>>

-----------------------------------------------------------------------------

CallStep(c) ==
  \/ CallStart(c) \/ CallRegister(c) \/ CallQueue(c) \/ CallUnqueue(c)
  \/ CallReturn(c) \/ CallTimeout(c) \/ CallExpire(c) \/ CallDrop(c)

MarkDeadStep ==
  TakeWriter \/ TakePending \/ (\E p \in drain : SendDead(p)) \/ FinishMarkDead

WriterStep == WriterSend \/ WriterFail \/ WriterExit \/ AbortWriter

Next ==
  \/ \E c \in Calls : CallStep(c)
  \/ MarkDeadStep
  \/ WriterStep
  \/ Shutdown \/ ShutdownAbort
  \/ DeliverAny
  \/ \E h \in hand : SendAnswer(h)
  \/ ReaderMarksDead

\* Tasks that can run do run.  Nothing is assumed of the timer, the network,
\* or shutdown: what liveness says must hold without them.
Fairness ==
  /\ \A c \in Calls :
       WF_vars(CallRegister(c) \/ CallQueue(c) \/ CallUnqueue(c)
               \/ CallReturn(c) \/ CallExpire(c))
  /\ WF_vars(MarkDeadStep)
  /\ WF_vars(\E h \in hand : SendAnswer(h))

Spec == Init /\ [][Next]_vars /\ Fairness

-----------------------------------------------------------------------------
(* Properties *)

\* A caller that waits on an empty oneshot can still be answered: its entry
\* is in the pending table, in the batch mark_dead is working off, or in the
\* hand of the dispatcher, between its lock on the table and its send.  So the
\* "response channel closed" branch of call_with_timeout is never taken and
\* no caller depends on its timer to get out.
NoOrphanedCall ==
  \A c \in Calls :
    pc[c] = "waiting" /\ reply[c] = NoReply =>
      Entry(c) \in pending \cup drain \cup InHand

\* A call that returns leaves no entry behind, whichever of answer, timeout,
\* failed queueing and mark_dead came first; only a dropped call can.
NoLeakedEntry ==
  \A p \in pending :
    pc[p.tx] \in {"queueing", "waiting", "unqueueing", "expired", "dropped"}

\* mark_dead drops the writer before it empties the table: when it has
\* finished, every caller that is still waiting has its answer, or is the one
\* whose entry the dispatcher took out before mark_dead did and is about to
\* answer; and no entry of a dropped call is left.
DeadIsDrained ==
  markPc = "done" =>
    /\ \A c \in Calls : pc[c] = "waiting" => reply[c] # NoReply \/ Entry(c) \in InHand
    /\ \A p \in pending : pc[p.tx] # "dropped"

\* A caller only ever sees the answer to its own request, and an answer from
\* the browser only for a request that was written to the socket.
OwnAnswer ==
  \A c \in Calls : reply[c] # NoReply =>
    /\ reply[c].id = id[c]
    /\ reply[c].kind \in {"result", "error"} => id[c] \in sent

\* When the connection is dead every call that was started returns, unless
\* its caller dropped it, without the help of its timeout.
DeathReleasesCalls ==
  \A c \in Calls : (~alive /\ pc[c] # "idle") ~> (pc[c] \in {"done", "dropped"})

=============================================================================
