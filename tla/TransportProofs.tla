-------------------------- MODULE TransportProofs --------------------------
(***************************************************************************)
(* Proofs about Transport for any calls and any frames: the transport      *)
(* implements Requests and keeps what is proved of Requests and Pipeline,  *)
(* and every caller's answer is what the browser sent for its request.     *)
(***************************************************************************)
EXTENDS Transport, TLAPS

\* The invariants of the halves, with their proofs.
CP == INSTANCE ConnectionProofs

-----------------------------------------------------------------------------
(* The inductive invariant *)

\* The browser has answered only requests that were written.
ResponsesRequested ==
  \A n \in 1 .. Len(frames) : frames[n].kind \in P!ResponseKinds => frames[n].id \in sent

\* Frame n, already dispatched, answers call c with this kind of response.
AnswerAt(n, c, kind) == P!Answers(frames[n]) = [id |-> id[c], kind |-> kind]

\* AnswerFromWire, from the moment the oneshot is filled.
RepliesFromWire ==
  \A c \in Calls :
    reply[c].kind \in {"result", "error", "invalid"} =>
      \E n \in 1 .. expected - 1 : AnswerAt(n, c, reply[c].kind)

\* And from the moment dispatch_item has the entry in hand.
HandFromWire ==
  \A h \in hand : \E n \in 1 .. expected - 1 : AnswerAt(n, h.tx, h.kind)

OutcomesFromWire ==
  \A c \in Calls :
    \A o \in {"result", "error", "invalid"} :
      outcome[c] = R!InterpretResponse(o) => \E n \in 1 .. expected - 1 : AnswerAt(n, c, o)

IdleIsFresh == \A c \in Calls : pc[c] = "idle" => outcome[c] = "none"

WireInv ==
  ResponsesRequested /\ HandFromWire /\ RepliesFromWire /\ OutcomesFromWire /\ IdleIsFresh

IInv == CP!IInv /\ CP!PipelineIInv /\ WireInv

-----------------------------------------------------------------------------
(* R and P are instances of the modules that CP extends *)

\* The actions of Requests that Transport uses are those its proofs are about.
LEMMA SameRequests ==
  /\ R!Init = CP!Init
  /\ R!Next = CP!Next
  /\ reqVars = CP!vars
BY DEF reqVars, CP!vars, R!Init, CP!Init, R!NoReply, CP!NoReply, R!Next, CP!Next,
  R!CallStep, CP!CallStep, R!CallStart, CP!CallStart, R!CallRegister, CP!CallRegister,
  R!CallQueue, CP!CallQueue, R!CallUnqueue, CP!CallUnqueue, R!CallReturn, CP!CallReturn,
  R!CallTimeout, CP!CallTimeout, R!CallExpire, CP!CallExpire, R!CallDrop, CP!CallDrop,
  R!MarkDeadStep, CP!MarkDeadStep, R!TakeWriter, CP!TakeWriter, R!TakePending,
  CP!TakePending, R!SendDead, CP!SendDead, R!FinishMarkDead, CP!FinishMarkDead,
  R!WriterStep, CP!WriterStep, R!WriterSend, CP!WriterSend, R!WriterFail, CP!WriterFail,
  R!WriterExit, CP!WriterExit, R!AbortWriter, CP!AbortWriter, R!Shutdown, CP!Shutdown,
  R!ShutdownAbort, CP!ShutdownAbort, R!DeliverAny, CP!DeliverAny, R!Deliver, CP!Deliver,
  R!SendAnswer, CP!SendAnswer, R!ReaderMarksDead, CP!ReaderMarksDead, R!EnterMarkDead, CP!EnterMarkDead, R!Busy,
  CP!Busy, R!Return, CP!Return, R!Goto, CP!Goto, R!Entry, CP!Entry, R!Without,
  CP!Without, R!InterpretResponse, CP!InterpretResponse, R!markVars, CP!markVars,
  R!callVars, CP!callVars, R!writerVars, CP!writerVars

\* The actions of Pipeline that Transport uses are those its proofs are about.
LEMMA SamePipeline ==
  /\ P!PipelineInit = CP!PipelineInit
  /\ P!PipelineNext = CP!PipelineNext
  /\ pipeVars = CP!pipelineVars
BY DEF pipeVars, CP!pipelineVars, P!PipelineInit, CP!PipelineInit, P!PipelineNext, CP!PipelineNext, P!DispatcherStep,
  CP!DispatcherStep, P!Read, CP!Read, P!ReaderPanic, CP!ReaderPanic, P!ReaderBreak,
  CP!ReaderBreak, P!ReaderDropsChannel, CP!ReaderDropsChannel, P!ReaderExit,
  CP!ReaderExit, P!AbortReader, CP!AbortReader, P!InboundClosed, CP!InboundClosed,
  P!TakeFrame, CP!TakeFrame, P!DispatcherPanic, CP!DispatcherPanic, P!SeeInboundClosed,
  CP!SeeInboundClosed, P!TakeCompletion, CP!TakeCompletion, P!DispatchNext,
  CP!DispatchNext, P!DispatcherExit, CP!DispatcherExit, P!AbortDispatcher,
  CP!AbortDispatcher, P!Drained, CP!Drained, P!Offloaded, CP!Offloaded, P!ApplyFrame,
  CP!ApplyFrame, P!Decodes, CP!Decodes, P!EventKinds, CP!EventKinds, P!readerVars,
  CP!readerVars, P!dispatcherVars, CP!dispatcherVars, P!effectVars, CP!effectVars

\* A step of the inbound half alone keeps its invariant.
LEMMA PipelineInvariant == CP!PipelineIInv /\ [CP!PipelineNext]_CP!pipelineVars => CP!PipelineIInv'
BY CP!PipelineIInvNext, TransportAssumption
   DEF P!ResponseKinds, CP!ResponseKinds, P!EventKinds, CP!EventKinds, P!Shapes, CP!Shapes

-----------------------------------------------------------------------------
(* The steps of the halves *)

\* What dispatch_item answers carries an id, and the id of a frame that
\* decodes as a response, or a nested one that is marked as garbled.
LEMMA AnswersKind ==
  ASSUME NEW f \in Frames, P!Answers(f).id # 0
  PROVE  /\ P!Answers(f).id \in Nat \ {0}
         /\ P!Answers(f).kind \in {"result", "error", "invalid"}
         /\ P!Answers(f).kind # "invalid" => f.kind \in P!ResponseKinds /\ P!Answers(f).id = f.id
         /\ P!Answers(f) = [id |-> P!Answers(f).id, kind |-> P!Answers(f).kind]
BY TransportAssumption DEF P!Answers, P!Decodes, P!IdHint, P!ResponseKinds

\* Every step of the transport is a step of Requests or does not touch it; an
\* id beyond those drawn, which only a garbled frame can show, finds no entry.
LEMMA StepIsRequestsStep == IInv /\ [Next]_vars => [R!Next]_reqVars
<1> SUFFICES ASSUME IInv, [Next]_vars PROVE [R!Next]_reqVars
  OBVIOUS
<1>1. CASE RequestStep
  BY <1>1 DEF RequestStep, R!Next
<1>2. CASE ReadError \/ ReaderExit
  BY <1>2 DEF ReadError, ReaderExit, R!Next
<1>3. CASE DispatchNext
  <2>1. expected \in 1 .. Len(frames) /\ frames[expected] \in Frames
    BY <1>3 DEF DispatchNext, P!DispatchNext, IInv, CP!PipelineIInv, CP!PipelineTypeOK
  <2> DEFINE a == P!Answers(frames[expected])
  <2>2. CASE a.id = 0
    BY <1>3, <2>2 DEF DispatchNext
  <2>3. CASE a.id # 0 /\ a.id \in 1 .. nextId
    <3>1. R!Deliver(a.id, a.kind)
      BY <1>3, <2>3 DEF DispatchNext
    <3>2. a.kind \in {"result", "error", "invalid"} /\ (a.kind # "invalid" => a.id \in sent)
      BY <2>1, <2>3, AnswersKind DEF IInv, WireInv, ResponsesRequested
    <3> QED  BY <2>3, <3>1, <3>2 DEF R!Next, R!DeliverAny
  <2>4. CASE a.id # 0 /\ a.id \notin 1 .. nextId
    <3>1. R!Deliver(a.id, a.kind) /\ a.id \in Nat \ {0}
      BY <1>3, <2>1, <2>4, AnswersKind DEF DispatchNext
    <3>2. nextId \in Nat /\ a.id > nextId
      BY <2>4, <3>1 DEF IInv, CP!IInv, CP!TypeOK
    <3>3. \A p \in pending : p.id # a.id /\ p.id \in Nat
      BY <3>1, <3>2 DEF IInv, CP!IInv, CP!TypeOK, CP!EntriesOwned, CP!IdsDrawn
    <3>4. pending' = pending /\ hand' = {} /\ hand = {}
      BY <3>1, <3>3 DEF R!Deliver, R!Without
    <3> QED  BY <3>1, <3>4 DEF R!Deliver, reqVars, R!markVars, R!callVars, R!writerVars
  <2> QED  BY <2>2, <2>3, <2>4
<1>4. CASE \/ \E c \in Calls : InitTracks(c)
           \/ \E f \in Frames : Read(f) \/ ReaderPanic(f)
           \/ ReadClose \/ ReaderDropsChannel \/ Abort
           \/ /\ DispatcherStep /\ ~DispatchNext
              /\ ~\E h \in hand : DispatchSends(h)
  BY <1>4 DEF InitTracks, Read, ReaderPanic, ReadClose, ReaderDropsChannel, Abort,
              DispatcherStep
<1>5. CASE \E h \in hand : DispatchSends(h)
  BY <1>5 DEF DispatchSends, R!Next
<1>6. CASE UNCHANGED vars
  BY <1>6 DEF vars
<1> QED  BY <1>1, <1>2, <1>3, <1>4, <1>5, <1>6 DEF Next

\* Every step of the transport keeps the invariant of the inbound half, though
\* initialize also writes attached_sessions.
LEMMA StepKeepsPipeline == IInv /\ [Next]_vars => CP!PipelineIInv'
<1> SUFFICES ASSUME IInv, [Next]_vars PROVE CP!PipelineIInv'
  OBVIOUS
<1>1. ASSUME NEW c \in Calls, InitTracks(c) PROVE CP!PipelineIInv'
  <2>1. PICK n \in 1 .. expected - 1 : attached' = attached \cup {frames[n].session}
    BY <1>1 DEF InitTracks
  <2>2. frames[n] \in Frames
    BY DEF IInv, CP!PipelineIInv, CP!PipelineTypeOK
  <2>3. attached' \subseteq {f.session : f \in Frames}
    BY <2>1, <2>2 DEF IInv, CP!PipelineIInv, CP!PipelineTypeOK
  <2> QED  BY <1>1, <2>3 DEF InitTracks, IInv, CP!PipelineIInv, CP!PipelineTypeOK, CP!InStages, CP!EndOfInput,
                             CP!InboundClosed
<1>2. CASE UNCHANGED vars \/ RequestStep \/ \E h \in hand : DispatchSends(h)
  <2>1. UNCHANGED CP!pipelineVars
    BY <1>2 DEF vars, RequestStep, DispatchSends, pipeVars, CP!pipelineVars
  <2> QED  BY <2>1, PipelineInvariant DEF IInv
<1>3. CASE \/ \E f \in Frames : Read(f) \/ ReaderPanic(f)
           \/ ReadClose \/ ReadError \/ ReaderDropsChannel \/ ReaderExit
           \/ (DispatcherStep /\ ~\E h \in hand : DispatchSends(h)) \/ Abort
  <2>1. CP!PipelineNext
    <3>1. P!PipelineNext
      BY <1>3 DEF Read, ReaderPanic, ReadClose, ReadError, ReaderDropsChannel, ReaderExit,
                  DispatcherStep, DispatchNext, Abort, P!PipelineNext, P!DispatcherStep
    <3> QED  BY <3>1, SamePipeline
  <2> QED  BY <2>1, PipelineInvariant DEF IInv
<1> QED  BY <1>1, <1>2, <1>3 DEF Next

-----------------------------------------------------------------------------
(* What the wire has shown *)

\* Frames are numbered once: what has been read and dispatched stays.
LEMMA WireGrows ==
  ASSUME IInv, [Next]_vars
  PROVE  /\ \A n \in 1 .. expected - 1 : n \in 1 .. expected' - 1 /\ frames'[n] = frames[n]
         /\ \A n \in 1 .. Len(frames) : frames'[n] = frames[n]
         /\ \/ frames' = frames
            \/ \E f \in Frames : BrowserMaySend(f) /\ frames' = Append(frames, f)
<1> USE DEF IInv, CP!PipelineIInv, CP!PipelineTypeOK
<1>1. CASE \E f \in Frames : Read(f)
  BY <1>1 DEF Read, P!Read, P!dispatcherVars
<1>2. CASE DispatchNext
  BY <1>2 DEF DispatchNext, P!DispatchNext, P!readerVars
<1>3. CASE frames' = frames /\ expected' = expected
  BY <1>3
<1>4. CASE ~(\E f \in Frames : Read(f)) /\ ~DispatchNext
  <2>1. frames' = frames /\ expected' = expected
    BY <1>4 DEF Next, vars, pipeVars, RequestStep, InitTracks, ReaderPanic, P!ReaderPanic,
         ReadClose, ReadError, P!ReaderBreak, ReaderDropsChannel, P!ReaderDropsChannel,
         ReaderExit, P!ReaderExit, DispatcherStep, DispatchSends, P!TakeFrame, P!DispatcherPanic,
         P!SeeInboundClosed, P!DispatcherExit, P!TakeCompletion, Abort, P!AbortReader,
         P!AbortDispatcher, P!dispatcherVars, P!readerVars
  <2> QED  BY <1>3, <2>1
<1> QED  BY <1>1, <1>2, <1>4

\* Written requests stay written, and a call keeps its id once it has one.
LEMMA IdsStay ==
  ASSUME IInv, [R!Next]_reqVars
  PROVE  /\ sent \subseteq sent'
         /\ \A c \in Calls : id'[c] = id[c] \/ (pc[c] = "idle" /\ reply[c] = R!NoReply)
         /\ \A c \in Calls : pc'[c] = "idle" => pc[c] = "idle" /\ outcome'[c] = outcome[c]
<1> USE DEF IInv, CP!IInv, CP!TypeOK, R!markVars, R!callVars, R!writerVars
<1>1. ASSUME NEW d \in Calls, R!CallStart(d)
      PROVE  /\ sent \subseteq sent'
             /\ \A c \in Calls : id'[c] = id[c] \/ (pc[c] = "idle" /\ reply[c] = R!NoReply)
             /\ \A c \in Calls : pc'[c] = "idle" => pc[c] = "idle" /\ outcome'[c] = outcome[c]
  BY <1>1 DEF R!CallStart, R!Return, R!Goto, CP!EntriesOwned, R!NoReply, CP!NoReply
<1>2. ASSUME NEW d \in Calls, R!CallStep(d), ~R!CallStart(d)
      PROVE  /\ sent' = sent /\ id' = id
             /\ \A c \in Calls : pc'[c] = "idle" => pc[c] = "idle" /\ outcome'[c] = outcome[c]
  BY <1>2 DEF R!CallStep, R!CallRegister, R!CallQueue, R!CallUnqueue, R!CallReturn,
              R!CallTimeout, R!CallExpire, R!CallDrop, R!Return, R!Goto
<1>3. CASE R!WriterStep
  BY <1>3 DEF R!WriterStep, R!WriterSend, R!WriterFail, R!WriterExit, R!AbortWriter
<1>4. CASE R!MarkDeadStep \/ R!Shutdown \/ R!ShutdownAbort \/ R!DeliverAny \/ R!ReaderMarksDead
           \/ \E h \in hand : R!SendAnswer(h)
  BY <1>4 DEF R!MarkDeadStep, R!TakeWriter, R!TakePending, R!SendDead, R!FinishMarkDead,
              R!Shutdown, R!ShutdownAbort, R!DeliverAny, R!Deliver, R!SendAnswer, R!ReaderMarksDead
<1>5. CASE UNCHANGED reqVars
  BY <1>5 DEF reqVars
<1> QED  BY <1>1, <1>2, <1>3, <1>4, <1>5 DEF R!Next

\* A caller's outcome is set once, from what is in its oneshot, or is none that
\* the browser had a part in.
LEMMA OutcomeStep ==
  ASSUME IInv, [R!Next]_reqVars, NEW c \in Calls
  PROVE  \/ outcome'[c] = outcome[c]
         \/ outcome'[c] \in {"RuntimeDead", "Timeout"}
         \/ /\ reply[c] # R!NoReply /\ pc[c] = "waiting"
            /\ outcome'[c] = R!InterpretResponse(reply[c].kind)
<1> USE DEF IInv, CP!IInv, CP!TypeOK, R!markVars, R!callVars, R!writerVars
<1>1. ASSUME NEW d \in Calls, R!CallReturn(d)
      PROVE  \/ outcome'[c] = outcome[c]
             \/ /\ reply[c] # R!NoReply /\ pc[c] = "waiting"
                /\ outcome'[c] = R!InterpretResponse(reply[c].kind)
  BY <1>1 DEF R!CallReturn, R!Return
<1>2. ASSUME NEW d \in Calls, R!CallStep(d), ~R!CallReturn(d)
      PROVE  outcome'[c] = outcome[c] \/ outcome'[c] \in {"RuntimeDead", "Timeout"}
  BY <1>2 DEF R!CallStep, R!CallStart, R!CallRegister, R!CallQueue, R!CallUnqueue,
              R!CallTimeout, R!CallExpire, R!CallDrop, R!Return, R!Goto
<1>3. CASE R!WriterStep \/ R!MarkDeadStep \/ R!Shutdown \/ R!ShutdownAbort \/ R!DeliverAny
           \/ R!ReaderMarksDead \/ \E h \in hand : R!SendAnswer(h)
  BY <1>3 DEF R!WriterStep, R!WriterSend, R!WriterFail, R!WriterExit, R!AbortWriter,
              R!MarkDeadStep, R!TakeWriter, R!TakePending, R!SendDead, R!FinishMarkDead,
              R!Shutdown, R!ShutdownAbort, R!DeliverAny, R!Deliver, R!SendAnswer, R!ReaderMarksDead
<1>4. CASE UNCHANGED reqVars
  BY <1>4 DEF reqVars
<1> QED  BY <1>1, <1>2, <1>3, <1>4 DEF R!Next

\* What dispatch_item takes in hand is the answer of the frame that is being
\* dispatched.
LEMMA HandStep ==
  ASSUME IInv, [Next]_vars, NEW h \in hand'
  PROVE  \/ h \in hand
         \/ /\ expected \in 1 .. expected' - 1 /\ expected \in 1 .. Len(frames)
            /\ id' = id
            /\ P!Answers(frames[expected]) = [id |-> id[h.tx], kind |-> h.kind]
<1> USE DEF IInv, CP!IInv, CP!TypeOK, CP!PipelineIInv, CP!PipelineTypeOK
<1>1. CASE DispatchNext
  <2>1. expected \in 1 .. Len(frames) /\ frames[expected] \in Frames /\ expected' = expected + 1
    BY <1>1 DEF DispatchNext, P!DispatchNext
  <2> DEFINE a == P!Answers(frames[expected])
  <2>2. CASE a.id = 0
    BY <1>1, <2>2 DEF DispatchNext, reqVars
  <2>3. CASE a.id # 0
    <3>1. /\ hand' = {[id |-> a.id, tx |-> p.tx, kind |-> a.kind] :
                         p \in pending \ R!Without(pending, a.id)}
          /\ id' = id
      BY <1>1, <2>3 DEF DispatchNext, R!Deliver, R!callVars
    <3>2. PICK p \in pending : p.id = a.id /\ h = [id |-> a.id, tx |-> p.tx, kind |-> a.kind]
      BY <3>1 DEF R!Without
    <3>3. a.id = id[h.tx]
      BY <3>2 DEF CP!EntriesOwned
    <3>4. a = [id |-> a.id, kind |-> a.kind]
      BY <2>1, <2>3, AnswersKind
    <3> QED  BY <2>1, <3>1, <3>2, <3>3, <3>4
  <2> QED  BY <2>2, <2>3
<1>2. CASE RequestStep
  <2>1. ASSUME NEW d \in Calls, R!CallStep(d) PROVE hand' = hand
    BY <2>1 DEF R!CallStep, R!CallStart, R!CallRegister, R!CallQueue, R!CallUnqueue,
                R!CallReturn, R!CallTimeout, R!CallExpire, R!CallDrop
  <2>2. CASE R!WriterStep \/ R!MarkDeadStep \/ R!Shutdown \/ R!ShutdownAbort
    BY <2>2 DEF R!WriterStep, R!WriterSend, R!WriterFail, R!WriterExit, R!AbortWriter,
                R!MarkDeadStep, R!TakeWriter, R!TakePending, R!SendDead, R!FinishMarkDead,
                R!Shutdown, R!ShutdownAbort
  <2> QED  BY <1>2, <2>1, <2>2 DEF RequestStep
<1>3. CASE ~RequestStep /\ ~DispatchNext
  BY <1>3 DEF Next, vars, InitTracks, Read, ReaderPanic, ReadClose, ReadError,
              ReaderDropsChannel, ReaderExit, R!ReaderMarksDead, DispatcherStep,
              DispatchSends, R!SendAnswer, Abort, reqVars
<1> QED  BY <1>1, <1>2, <1>3

\* A oneshot is filled by mark_dead, or with the answer dispatch_item has in
\* hand for it.
LEMMA ReplyStep ==
  ASSUME IInv, [Next]_vars, NEW c \in Calls
  PROVE  \/ reply'[c] = reply[c]
         \/ reply'[c].kind = "dead"
         \/ /\ id' = id
            /\ \E h \in hand : h.tx = c /\ reply'[c].kind = h.kind
<1> USE DEF IInv, CP!IInv, CP!TypeOK
<1>1. ASSUME NEW h \in hand, DispatchSends(h)
      PROVE  \/ reply'[c] = reply[c]
             \/ id' = id /\ h.tx = c /\ reply'[c].kind = h.kind
  BY <1>1 DEF DispatchSends, R!SendAnswer, R!callVars
<1>2. CASE RequestStep
  <2>1. ASSUME NEW p \in drain, R!SendDead(p) PROVE reply'[c] = reply[c] \/ reply'[c].kind = "dead"
    BY <2>1 DEF R!SendDead
  <2>2. ASSUME NEW d \in Calls, R!CallStep(d) PROVE reply' = reply
    BY <2>2 DEF R!CallStep, R!CallStart, R!CallRegister, R!CallQueue, R!CallUnqueue,
                R!CallReturn, R!CallTimeout, R!CallExpire, R!CallDrop
  <2>3. CASE R!WriterStep \/ R!TakeWriter \/ R!TakePending \/ R!FinishMarkDead \/ R!Shutdown
             \/ R!ShutdownAbort
    BY <2>3 DEF R!WriterStep, R!WriterSend, R!WriterFail, R!WriterExit, R!AbortWriter,
                R!TakeWriter, R!TakePending, R!FinishMarkDead, R!Shutdown, R!ShutdownAbort
  <2> QED  BY <1>2, <2>1, <2>2, <2>3 DEF RequestStep, R!MarkDeadStep
<1>3. CASE ~RequestStep /\ ~\E h \in hand : DispatchSends(h)
  BY <1>3 DEF Next, vars, InitTracks, Read, ReaderPanic, ReadClose, ReadError,
              ReaderDropsChannel, ReaderExit, R!ReaderMarksDead, DispatcherStep,
              DispatchNext, R!Deliver, Abort, reqVars
<1> QED  BY <1>1, <1>2, <1>3

\* What the callers know of the wire stays true.
LEMMA StepKeepsWire == IInv /\ [Next]_vars => WireInv'
<1> SUFFICES ASSUME IInv, [Next]_vars PROVE WireInv'
  OBVIOUS
<1>0. [R!Next]_reqVars
  BY StepIsRequestsStep
<1>1. /\ frames \in Seq(Frames) /\ expected \in Nat \ {0}
      /\ \A n \in 1 .. expected - 1 : n \in 1 .. Len(frames)
  BY DEF IInv, CP!PipelineIInv, CP!PipelineTypeOK
<1>2. ResponsesRequested'
  <2>1. CASE frames' = frames
    BY <1>0, <2>1, IdsStay DEF IInv, WireInv, ResponsesRequested
  <2>2. ASSUME NEW f \in Frames, BrowserMaySend(f), frames' = Append(frames, f)
        PROVE  ResponsesRequested'
    <3>1. f.kind \in P!ResponseKinds => f.id \in sent
      BY <2>2 DEF BrowserMaySend
    <3> QED  BY <1>0, <1>1, <2>2, <3>1, IdsStay DEF IInv, WireInv, ResponsesRequested
  <2> QED  BY <2>1, <2>2, WireGrows
<1>3. ASSUME NEW c \in Calls, id'[c] = id[c], NEW o, NEW n \in 1 .. expected - 1,
             AnswerAt(n, c, o)
      PROVE  n \in 1 .. expected' - 1 /\ AnswerAt(n, c, o)'
  BY <1>3, WireGrows DEF AnswerAt
<1>4. RepliesFromWire'
  <2> SUFFICES ASSUME NEW c \in Calls, reply'[c].kind \in {"result", "error", "invalid"}
               PROVE  \E n \in 1 .. expected' - 1 : AnswerAt(n, c, reply[c].kind)'
    BY DEF RepliesFromWire
  <2>1. CASE reply'[c] = reply[c]
    <3>1. reply[c] # R!NoReply
      BY <2>1 DEF R!NoReply
    <3>2. id'[c] = id[c]
      BY <1>0, <3>1, IdsStay
    <3>3. PICK n \in 1 .. expected - 1 : AnswerAt(n, c, reply[c].kind)
      BY <2>1 DEF IInv, WireInv, RepliesFromWire
    <3>4. n \in 1 .. expected' - 1 /\ P!Answers(frames'[n]) = [id |-> id'[c], kind |-> reply'[c].kind]
      BY <2>1, <3>2, <3>3, WireGrows DEF AnswerAt
    <3> QED  BY <3>4 DEF AnswerAt
  <2>2. CASE reply'[c] # reply[c]
    <3>1. PICK h \in hand : id' = id /\ h.tx = c /\ reply'[c].kind = h.kind
      BY <2>2, ReplyStep
    <3>2. PICK n \in 1 .. expected - 1 : AnswerAt(n, c, h.kind)
      BY <3>1 DEF IInv, WireInv, HandFromWire
    <3>3. n \in 1 .. expected' - 1 /\ P!Answers(frames'[n]) = [id |-> id'[c], kind |-> reply'[c].kind]
      BY <3>1, <3>2, WireGrows DEF AnswerAt
    <3> QED  BY <3>3 DEF AnswerAt
  <2> QED  BY <2>1, <2>2
<1>7. HandFromWire'
  <2> SUFFICES ASSUME NEW h \in hand'
               PROVE  \E n \in 1 .. expected' - 1 :
                        P!Answers(frames'[n]) = [id |-> id'[h.tx], kind |-> h.kind]
    BY DEF HandFromWire, AnswerAt
  <2>1. CASE h \in hand
    <3>1. pc[h.tx] # "idle" /\ h.tx \in Calls
      BY <2>1 DEF IInv, CP!IInv, CP!HandOwned, CP!TypeOK
    <3>2. id'[h.tx] = id[h.tx]
      BY <1>0, <3>1, IdsStay
    <3>3. PICK n \in 1 .. expected - 1 : AnswerAt(n, h.tx, h.kind)
      BY <2>1 DEF IInv, WireInv, HandFromWire
    <3> QED  BY <3>2, <3>3, WireGrows DEF AnswerAt
  <2>2. CASE h \notin hand
    <3>1. /\ expected \in 1 .. expected' - 1 /\ expected \in 1 .. Len(frames)
          /\ id' = id
          /\ P!Answers(frames[expected]) = [id |-> id[h.tx], kind |-> h.kind]
      BY <2>2, HandStep
    <3>2. frames'[expected] = frames[expected]
      BY <3>1, WireGrows
    <3> QED  BY <3>1, <3>2
  <2> QED  BY <2>1, <2>2
<1>5. OutcomesFromWire'
  <2> SUFFICES ASSUME NEW c \in Calls, NEW o \in {"result", "error", "invalid"},
                      outcome'[c] = R!InterpretResponse(o)
               PROVE  \E n \in 1 .. expected' - 1 : AnswerAt(n, c, o)'
    BY DEF OutcomesFromWire, R!InterpretResponse
  <2>1. R!InterpretResponse(o) \in {"Ok", "CdpError", "InvalidResponse"}
    BY DEF R!InterpretResponse
  <2>2. CASE outcome'[c] = outcome[c]
    <3>1. PICK n \in 1 .. expected - 1 : AnswerAt(n, c, o)
      BY <2>2 DEF IInv, WireInv, OutcomesFromWire
    <3>2. pc[c] # "idle"
      BY <2>1, <2>2 DEF IInv, WireInv, IdleIsFresh
    <3>3. id'[c] = id[c]
      BY <1>0, <3>2, IdsStay
    <3> QED  BY <1>3, <3>1, <3>3
  <2>3. CASE outcome'[c] # outcome[c]
    <3>1. reply[c] # R!NoReply /\ outcome'[c] = R!InterpretResponse(reply[c].kind)
      BY <1>0, <2>1, <2>3, OutcomeStep
    <3>2. reply[c].kind \in {"result", "error", "invalid", "dead"}
      BY <3>1 DEF IInv, CP!IInv, CP!TypeOK, CP!Kinds, CP!NoReply, R!NoReply
    <3>3. reply[c].kind = o
      BY <3>1, <3>2 DEF R!InterpretResponse
    <3>4. PICK n \in 1 .. expected - 1 : AnswerAt(n, c, o)
      BY <3>3 DEF IInv, WireInv, RepliesFromWire
    <3>5. id'[c] = id[c]
      BY <1>0, <3>1, IdsStay
    <3> QED  BY <1>3, <3>4, <3>5
  <2> QED  BY <2>2, <2>3
<1>6. IdleIsFresh'
  BY <1>0, IdsStay DEF IInv, WireInv, IdleIsFresh
<1> QED  BY <1>2, <1>4, <1>5, <1>6, <1>7 DEF WireInv

-----------------------------------------------------------------------------
(* The theorems *)

\* The invariant holds when the connection is made.
LEMMA IInvInit == Init => IInv
<1> SUFFICES ASSUME Init PROVE IInv
  OBVIOUS
<1>1. CP!IInv
  BY SameRequests, CP!IInvInit, TransportAssumption
     DEF Init, P!ResponseKinds, CP!ResponseKinds, P!EventKinds, CP!EventKinds, P!Shapes, CP!Shapes
<1>2. CP!PipelineIInv
  BY SamePipeline, CP!PipelineIInvInit, TransportAssumption
     DEF Init, P!ResponseKinds, CP!ResponseKinds, P!EventKinds, CP!EventKinds, P!Shapes, CP!Shapes
<1>3. ResponsesRequested /\ HandFromWire /\ RepliesFromWire /\ IdleIsFresh
  BY DEF Init, R!Init, P!PipelineInit, R!NoReply, ResponsesRequested, HandFromWire,
         RepliesFromWire, IdleIsFresh
<1>4. OutcomesFromWire
  BY DEF Init, R!Init, R!InterpretResponse, OutcomesFromWire
<1> QED  BY <1>1, <1>2, <1>3, <1>4 DEF IInv, WireInv

\* Every step of the transport keeps it.
LEMMA IInvNext == IInv /\ [Next]_vars => IInv'
<1> SUFFICES ASSUME IInv, [Next]_vars PROVE IInv'
  OBVIOUS
<1>1. [CP!Next]_CP!vars
  <2>1. R!Next \/ UNCHANGED reqVars
    BY StepIsRequestsStep
  <2>2. CASE R!Next
    BY <2>2, SameRequests
  <2>3. CASE UNCHANGED reqVars
    BY <2>3 DEF reqVars, CP!vars
  <2> QED  BY <2>1, <2>2, <2>3
<1>2. CP!IInv'
  BY <1>1, CP!IInvNext, TransportAssumption
     DEF IInv, P!ResponseKinds, CP!ResponseKinds, P!EventKinds, CP!EventKinds, P!Shapes, CP!Shapes
<1> QED  BY <1>2, StepKeepsPipeline, StepKeepsWire DEF IInv

\* The inductive invariant of the whole transport.
THEOREM Invariance == Spec => []IInv
BY IInvInit, IInvNext, PTL DEF Spec

\* The reader and the dispatcher do to the pending table only what Requests
\* allows, whatever the browser sends: the transport implements Requests.
THEOREM TransportImplementsRequests == Spec => RequestsSpec
<1>1. Init => R!Init
  BY DEF Init
<1> QED  BY <1>1, Invariance, StepIsRequestsStep, PTL DEF Spec, RequestsSpec

\* So what is proved of the halves holds of the transport: no caller is left
\* behind by a connection that dies under it, no entry leaks, answers are the
\* caller's own, and no frame is lost on its way.
THEOREM TransportKeepsPromises ==
  Spec => [](CP!NoOrphanedCall /\ CP!NoLeakedEntry /\ CP!DeadIsDrained /\ CP!OwnAnswer
             /\ CP!NoSequenceLost)
<1>1. CP!IInv => CP!NoOrphanedCall /\ CP!NoLeakedEntry /\ CP!DeadIsDrained /\ CP!OwnAnswer
  BY DEF CP!IInv, CP!TypeOK, CP!MarkOrder, CP!Registered, CP!LateEntriesUnqueue,
         CP!DeadIsDrained, CP!Entry, CP!InHand, CP!NoOrphanedCall
<1>2. CP!PipelineIInv => CP!NoSequenceLost
  <2> SUFFICES ASSUME CP!PipelineIInv PROVE CP!NoSequenceLost
    OBVIOUS
  <2> USE DEF CP!PipelineIInv, CP!PipelineTypeOK, CP!InStages, CP!EndOfInput
  <2>1. dpc \notin {"aborted", "panicked"} =>
          expected .. Len(frames) = (taken + 1 .. Len(frames)) \cup offloading \cup buffer
    OBVIOUS
  <2>2. dpc = "done" => expected = Len(frames) + 1
    OBVIOUS
  <2> QED  BY <2>1, <2>2 DEF CP!NoSequenceLost
<1>3. IInv => CP!NoOrphanedCall /\ CP!NoLeakedEntry /\ CP!DeadIsDrained /\ CP!OwnAnswer
              /\ CP!NoSequenceLost
  BY <1>1, <1>2 DEF IInv
<1> QED  BY <1>3, Invariance, PTL

\* For any callers and any frames, decoded or garbled, an Ok or CdpError comes
\* from the response with the caller's id and an InvalidResponse from a frame
\* that showed it; no answer is another request's.
THEOREM AnswersAreFromTheWire == Spec => []AnswerFromWire
<1>1. IInv => AnswerFromWire
  <2> SUFFICES ASSUME IInv, NEW c \in Calls,
                      outcome[c] \in {"Ok", "CdpError", "InvalidResponse"}
               PROVE  \E n \in 1 .. expected - 1 :
                        LET a == P!Answers(frames[n])
                        IN a.id = id[c] /\ R!InterpretResponse(a.kind) = outcome[c]
    BY DEF AnswerFromWire
  <2>1. PICK o \in {"result", "error", "invalid"} : outcome[c] = R!InterpretResponse(o)
    BY DEF R!InterpretResponse
  <2>2. PICK n \in 1 .. expected - 1 : AnswerAt(n, c, o)
    BY <2>1 DEF IInv, WireInv, OutcomesFromWire
  <2> QED  BY <2>1, <2>2 DEF AnswerAt
<1> QED  BY <1>1, Invariance, PTL

=============================================================================
