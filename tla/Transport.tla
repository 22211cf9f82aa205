----------------------------- MODULE Transport -----------------------------
(***************************************************************************)
(* The CDP transport of browser_runtime/connection.rs: Requests (callers,  *)
(* pending table, writer, mark_dead) and Pipeline (reader, dispatcher)     *)
(* over one WebSocket.  The halves meet where dispatch_item takes an entry *)
(* out of the pending table, where the reader marks the connection dead,   *)
(* and where shutdown aborts the three tasks.                              *)
(***************************************************************************)
EXTENDS Naturals, Sequences, FiniteSets

CONSTANTS Calls, Frames, MaxFrames

VARIABLES
  alive, markPc, killer, drain, writerTx, pending, nextId, pc, id, hand,
  reply, outcome, outq, wpc, sent, spc,
  frames, rpc, taken, inboundOpen, offloading, buffer, expected, dpc,
  attached, events,
  tracked      \* the attach calls whose session initialize has recorded

R == INSTANCE Requests
P == INSTANCE Pipeline

ASSUME TransportAssumption ==
  /\ \A f \in Frames : /\ f.kind \in P!ResponseKinds \cup P!EventKinds \cup {"other"}
                       /\ f.shape \in P!Shapes
                       /\ f.id \in Nat
  /\ MaxFrames \in Nat

reqVars == <<alive, markPc, killer, drain, writerTx, pending, nextId, pc, id,
             hand, reply, outcome, outq, wpc, sent, spc>>
pipeVars == <<frames, rpc, taken, inboundOpen, offloading, buffer, expected,
              dpc, attached, events>>
vars == <<reqVars, pipeVars, tracked>>

Init == R!Init /\ P!PipelineInit /\ tracked = {}

-----------------------------------------------------------------------------

\* The browser (external) answers a request it received, once, and sends
\* anything else whenever it likes.
BrowserMaySend(f) ==
  f.kind \in P!ResponseKinds =>
    /\ f.id \in sent
    /\ \A n \in 1 .. Len(frames) :
         frames[n].kind \in P!ResponseKinds => frames[n].id # f.id

Read(f) == BrowserMaySend(f) /\ P!Read(f) /\ UNCHANGED <<reqVars, tracked>>

\* The reader is gone and mark_dead has not run.
ReaderPanic(f) == BrowserMaySend(f) /\ P!ReaderPanic(f) /\ UNCHANGED <<reqVars, tracked>>

\* A Close frame, or the end of the stream.
ReadClose == P!ReaderBreak /\ UNCHANGED <<reqVars, tracked>>

\* Mutant of ReadError: the flag is cleared without mark_dead.
ReadErrorClearsFlag ==
  /\ P!ReaderBreak
  /\ alive' = FALSE
  /\ UNCHANGED <<markPc, killer, drain, writerTx, pending, nextId, pc, id, hand,
                 reply, outcome, outq, wpc, sent, spc, tracked>>

\* A socket error: mark_dead inside the loop.
ReadError ==
  /\ P!ReaderBreak
  /\ R!ReaderMarksDead
  /\ UNCHANGED tracked

ReaderDropsChannel == ~R!Busy("reader") /\ P!ReaderDropsChannel /\ UNCHANGED <<reqVars, tracked>>

\* Mutant of ReaderExit: a clean close does not mark the connection dead.
ReaderExitQuietly == P!ReaderExit /\ UNCHANGED <<reqVars, tracked>>

\* After the loop the reader marks the connection dead if nobody has yet.
ReaderExit ==
  /\ P!ReaderExit
  /\ R!ReaderMarksDead
  /\ UNCHANGED tracked

\* Mutant of DispatchNext: every frame with an id counts as a result.
DispatchNextAsResult ==
  /\ hand = {}
  /\ P!DispatchNext
  /\ LET a == P!Answers(frames[expected])
     IN IF a.id = 0 THEN UNCHANGED reqVars ELSE R!Deliver(a.id, "result")
  /\ UNCHANGED tracked

\* Mutant of DispatchNext: a frame that does not decode answers nobody.
DispatchNextDropsInvalid ==
  /\ hand = {}
  /\ P!DispatchNext
  /\ LET a == P!Answers(frames[expected])
     IN IF a.kind \in {"none", "invalid"} THEN UNCHANGED reqVars
                                         ELSE R!Deliver(a.id, a.kind)
  /\ UNCHANGED tracked

\* dispatch_item up to the entry it takes out of the table.  It is synchronous:
\* the dispatcher does nothing else, and is not aborted, before it has sent
\* what it has in hand.
DispatchNext ==
  /\ hand = {}
  /\ P!DispatchNext
  /\ LET a == P!Answers(frames[expected])
     IN IF a.id = 0 THEN UNCHANGED reqVars ELSE R!Deliver(a.id, a.kind)
  /\ UNCHANGED tracked

\* dispatch_item's send on the oneshot.
DispatchSends(h) == R!SendAnswer(h) /\ UNCHANGED <<pipeVars, tracked>>

Abort ==
  /\ spc = "done"
  /\ P!AbortReader \/ (hand = {} /\ P!AbortDispatcher)
  /\ UNCHANGED <<reqVars, tracked>>

RequestStep ==
  /\ \/ \E c \in Calls : R!CallStep(c)
     \/ R!MarkDeadStep \/ R!WriterStep \/ R!Shutdown \/ R!ShutdownAbort
  /\ UNCHANGED <<pipeVars, tracked>>

\* initialize records the session that an attachToTarget response names, when
\* its task gets to run again.
InitTracks(c) ==
  /\ outcome[c] = "Ok" /\ c \notin tracked
  /\ tracked' = tracked \cup {c}
  /\ \E n \in 1 .. expected - 1 :
       /\ frames[n].kind = "result" /\ frames[n].id = id[c]
       /\ frames[n].session # "none"
       /\ attached' = attached \cup {frames[n].session}
  /\ UNCHANGED <<reqVars, frames, rpc, taken, inboundOpen, offloading, buffer,
                 expected, dpc, events>>

DispatcherStep ==
  \/ DispatchNext
  \/ \E h \in hand : DispatchSends(h)
  \/ /\ hand = {}
     /\ \/ P!TakeFrame \/ P!DispatcherPanic \/ P!SeeInboundClosed \/ P!DispatcherExit
        \/ \E n \in offloading : P!TakeCompletion(n)
     /\ UNCHANGED <<reqVars, tracked>>

Next ==
  \/ RequestStep
  \/ \E c \in Calls : InitTracks(c)
  \/ \E f \in Frames : Read(f) \/ ReaderPanic(f)
  \/ ReadClose \/ ReadError \/ ReaderDropsChannel \/ ReaderExit
  \/ DispatcherStep
  \/ Abort

\* As in Requests and Pipeline: tasks run, workers finish, nothing is assumed
\* of the timer, the browser or the network.
Fairness ==
  /\ \A c \in Calls :
       WF_vars((R!CallRegister(c) \/ R!CallQueue(c) \/ R!CallUnqueue(c)
                \/ R!CallReturn(c) \/ R!CallExpire(c)) /\ UNCHANGED <<pipeVars, tracked>>)
  /\ WF_vars(R!MarkDeadStep /\ UNCHANGED <<pipeVars, tracked>>)
  /\ WF_vars(DispatcherStep)
  /\ WF_vars(ReaderDropsChannel \/ ReaderExit)

Spec == Init /\ [][Next]_vars /\ Fairness

-----------------------------------------------------------------------------
(* Properties *)

Panicked == rpc = "panicked" \/ dpc = "panicked"

\* What a caller gets is what the browser sent for its request: Ok and
\* CdpError come from the decoded response with the caller's id, and
\* InvalidResponse from a frame that did not decode and showed that id.
AnswerFromWire ==
  \A c \in Calls :
    outcome[c] \in {"Ok", "CdpError", "InvalidResponse"} =>
      \E n \in 1 .. expected - 1 :
        LET a == P!Answers(frames[n])
        IN a.id = id[c] /\ R!InterpretResponse(a.kind) = outcome[c]

\* A response that can be attributed (it decodes, or is garbled in a way that
\* leaves its id readable) ends the call it answers, if its caller still
\* waits, without the help of the call's timeout, whatever large frames are
\* ahead of it and whether or not the connection is lost meanwhile; only a
\* panic of one of the two tasks can prevent it.
AnsweredCallReturns ==
  \A c \in Calls :
    (\E n \in 1 .. Len(frames) :
       /\ frames[n].kind \in P!ResponseKinds
       /\ P!Answers(frames[n]).id # 0 /\ P!Answers(frames[n]).id = id[c])
      ~> (pc[c] \in {"done", "dropped"} \/ Panicked)

\* When the peer closes the connection the runtime notices: the reader is the
\* only task that watches the socket, and unless it panics every started call
\* returns.
CloseReleasesCalls ==
  \A c \in Calls :
    (rpc # "run" /\ pc[c] # "idle") ~> (pc[c] \in {"done", "dropped"} \/ Panicked)

\* The inbound half does to the outbound one only what Requests allows: what
\* is proved of Requests holds of the whole transport.
RequestsSpec == R!Init /\ [][R!Next]_reqVars

=============================================================================
