------------------------------ MODULE Pipeline ------------------------------
(***************************************************************************)
(* The inbound half of the CDP transport, browser_runtime/connection.rs:   *)
(* reader_loop numbers every data frame as it is read, dispatcher_loop     *)
(* decodes small frames itself and hands large ones to blocking workers    *)
(* that finish in any order, and a reorder buffer restores wire order      *)
(* before dispatch_item acts on a frame.                                   *)
(*                                                                         *)
(* A frame keeps its number on its way, so a queue or a buffer of frames   *)
(* is modelled by the numbers in it.  Numbers start at 1 (0 in the code).  *)
(* The inbound channel holds the numbers taken+1 .. Len(frames).           *)
(***************************************************************************)
EXTENDS Naturals, Sequences, FiniteSets

CONSTANTS
  Frames,      \* the frames a browser can send
  MaxFrames    \* bound on how many it sends

ResponseKinds == {"result", "error"}
EventKinds == {"event", "attach", "detach"}

\* Which way a frame goes: "inline" and "offload" parse, below and from the
\* offload threshold; their "Bad" forms do not; "oversize" is above the
\* message size limit; "notUtf8" is a binary frame that is not text.  The
\* "Split" forms have a character across byte 1024 of the text, where
\* extract_id_prefix cuts it: the slice panics and takes the task with it.
Shapes == {"inline", "inlineBad", "inlineBadSplit", "offload", "offloadBad",
           "oversize", "oversizeSplit", "notUtf8"}

ASSUME FramesAssumption ==
  \A f \in Frames : /\ f.kind \in ResponseKinds \cup EventKinds \cup {"other"}
                    /\ f.shape \in Shapes
                    /\ f.id \in Nat
ASSUME MaxFramesAssumption == MaxFrames \in Nat

VARIABLES
  frames,       \* every data frame read and forwarded, by sequence number
  rpc,          \* the reader task
  taken,        \* how many frames the dispatcher has received
  inboundOpen,  \* dispatcher_loop's inbound_open
  offloading,   \* frames with a decode worker, or with its result queued
  buffer,       \* the reorder buffer
  expected,     \* the next number to dispatch
  dpc,          \* the dispatcher task
  attached,     \* Shared.attached_sessions
  events        \* numbers of the frames broadcast as events, in order

readerVars == <<frames, rpc>>
dispatcherVars == <<taken, inboundOpen, offloading, buffer, expected, dpc>>
effectVars == <<attached, events>>
pipelineVars == <<frames, rpc, taken, inboundOpen, offloading, buffer, expected, dpc,
                  attached, events>>

PipelineTypeOK ==
  /\ frames \in Seq(Frames)
  /\ rpc \in {"run", "broke", "dropped", "gone", "panicked"}
  /\ taken \in 0 .. Len(frames)
  /\ inboundOpen \in BOOLEAN
  /\ offloading \subseteq 1 .. taken
  /\ buffer \subseteq 1 .. taken
  /\ expected \in 1 .. taken + 1
  /\ dpc \in {"run", "done", "aborted", "panicked"}
  /\ attached \subseteq {f.session : f \in Frames}
  /\ events \in Seq(1 .. taken)

PipelineInit ==
  /\ frames = <<>>
  /\ rpc = "run"
  /\ taken = 0
  /\ inboundOpen = TRUE
  /\ offloading = {}
  /\ buffer = {}
  /\ expected = 1
  /\ dpc = "run"
  /\ attached = {}
  /\ events = <<>>

-----------------------------------------------------------------------------
(* Decoding *)

Decodes(f) == f.shape \in {"inline", "offload"}
Offloaded(f) == f.shape \in {"offload", "offloadBad"}

\* The id_hint of a frame that does not decode.  extract_id_prefix scans the
\* head of the text for the first "id" member, which for a frame that is not
\* a response is some nested number, f.id; 0 stands for None.  The text of an
\* offloaded frame has been moved away, and a binary one is not scanned.
IdHint(f) == IF f.shape \in {"inlineBad", "oversize"} THEN f.id ELSE 0

\* The request that dispatch_item answers with frame f, and how; id 0 if none.
Answers(f) ==
  IF Decodes(f)
  THEN IF f.kind \in ResponseKinds THEN [id |-> f.id, kind |-> f.kind]
                                   ELSE [id |-> 0, kind |-> "none"]
  ELSE [id |-> IdHint(f), kind |-> IF IdHint(f) = 0 THEN "none" ELSE "invalid"]

\* What dispatch_item does with frame number n, apart from answering: session
\* bookkeeping and the event broadcast.
ApplyFrame(view, n, f) ==
  [attached |-> IF ~Decodes(f) THEN view.attached
                ELSE CASE f.kind = "attach" -> view.attached \cup {f.session}
                       [] f.kind = "detach" -> view.attached \ {f.session}
                       [] OTHER -> view.attached,
   events |-> IF Decodes(f) /\ f.kind \in EventKinds
              THEN Append(view.events, n) ELSE view.events]

-----------------------------------------------------------------------------
(* reader_loop *)

Read(f) ==
  /\ rpc = "run"
  /\ dpc = "run"
  /\ Len(frames) < MaxFrames
  /\ f.shape # "oversizeSplit"
  /\ frames' = Append(frames, f)
  /\ UNCHANGED <<rpc, dispatcherVars, effectVars>>

\* The reader looks for the id of an oversize frame and panics: the task is
\* gone, its channel with it, and the code after the loop is not reached.
ReaderPanic(f) ==
  /\ rpc = "run"
  /\ f.shape = "oversizeSplit"
  /\ rpc' = "panicked"
  /\ UNCHANGED <<frames, dispatcherVars, effectVars>>

\* The loop ends: a Close frame, the end of the stream, a socket error, or a
\* frame that cannot be forwarded because the dispatcher is gone.
ReaderBreak ==
  /\ rpc = "run"
  /\ rpc' = "broke"
  /\ UNCHANGED <<frames, dispatcherVars, effectVars>>

ReaderDropsChannel ==
  /\ rpc = "broke"
  /\ rpc' = "dropped"
  /\ UNCHANGED <<frames, dispatcherVars, effectVars>>

ReaderExit ==
  /\ rpc = "dropped"
  /\ rpc' = "gone"
  /\ UNCHANGED <<frames, dispatcherVars, effectVars>>

AbortReader ==
  /\ rpc = "run"
  /\ rpc' = "gone"
  /\ UNCHANGED <<frames, dispatcherVars, effectVars>>

InboundClosed == rpc \in {"dropped", "gone", "panicked"}

-----------------------------------------------------------------------------
(* dispatcher_loop *)

\* drain_ready runs to its end before the loop polls a channel again.
Drained == expected \notin buffer

\* Mutant of TakeFrame: a frame that cannot be decoded leaves no placeholder.
TakeFrameSkipsBad ==
  /\ dpc = "run" /\ Drained
  /\ inboundOpen
  /\ taken < Len(frames)
  /\ taken' = taken + 1
  /\ LET f == frames[taken + 1]
     IN /\ offloading' = IF Offloaded(f) THEN offloading \cup {taken + 1} ELSE offloading
        /\ buffer' = IF f.shape = "inline" THEN buffer \cup {taken + 1} ELSE buffer
  /\ UNCHANGED <<readerVars, inboundOpen, expected, dpc, effectVars>>

TakeFrame ==
  /\ dpc = "run" /\ Drained
  /\ inboundOpen
  /\ taken < Len(frames)
  /\ frames[taken + 1].shape # "inlineBadSplit"
  /\ taken' = taken + 1
  /\ IF Offloaded(frames[taken + 1])
     THEN offloading' = offloading \cup {taken + 1} /\ UNCHANGED buffer
     ELSE buffer' = buffer \cup {taken + 1} /\ UNCHANGED offloading
  /\ UNCHANGED <<readerVars, inboundOpen, expected, dpc, effectVars>>

\* The same panic in the dispatcher, on a frame that does not parse.
DispatcherPanic ==
  /\ dpc = "run" /\ Drained
  /\ inboundOpen
  /\ taken < Len(frames)
  /\ frames[taken + 1].shape = "inlineBadSplit"
  /\ taken' = taken + 1
  /\ dpc' = "panicked"
  /\ UNCHANGED <<readerVars, inboundOpen, offloading, buffer, expected, effectVars>>

SeeInboundClosed ==
  /\ dpc = "run" /\ Drained
  /\ inboundOpen
  /\ taken = Len(frames) /\ InboundClosed
  /\ inboundOpen' = FALSE
  /\ UNCHANGED <<readerVars, taken, offloading, buffer, expected, dpc, effectVars>>

\* A worker's result; the select is biased, so only when nothing is inbound.
TakeCompletion(n) ==
  /\ dpc = "run" /\ Drained
  /\ inboundOpen => taken = Len(frames) /\ ~InboundClosed
  /\ n \in offloading
  /\ offloading' = offloading \ {n}
  /\ buffer' = buffer \cup {n}
  /\ UNCHANGED <<readerVars, taken, inboundOpen, expected, dpc, effectVars>>

\* Mutant of DispatchNext: whatever is buffered goes out, in any order.
DispatchAnyBuffered ==
  /\ dpc = "run"
  /\ \E n \in buffer :
       /\ buffer' = buffer \ {n}
       /\ expected' = expected + 1
       /\ LET view == ApplyFrame([attached |-> attached, events |-> events], n, frames[n])
          IN attached' = view.attached /\ events' = view.events
  /\ UNCHANGED <<readerVars, taken, inboundOpen, offloading, dpc>>

\* One round of drain_ready.
DispatchNext ==
  /\ dpc = "run"
  /\ expected \in buffer
  /\ buffer' = buffer \ {expected}
  /\ expected' = expected + 1
  /\ LET view == ApplyFrame([attached |-> attached, events |-> events],
                            expected, frames[expected])
     IN attached' = view.attached /\ events' = view.events
  /\ UNCHANGED <<readerVars, taken, inboundOpen, offloading, dpc>>

\* Mutant of DispatcherExit: outstanding decodes are not waited for.
DispatcherExitEarly ==
  /\ dpc = "run" /\ Drained
  /\ ~inboundOpen
  /\ dpc' = "done"
  /\ UNCHANGED <<readerVars, taken, inboundOpen, offloading, buffer, expected,
                 effectVars>>

DispatcherExit ==
  /\ dpc = "run" /\ Drained
  /\ ~inboundOpen
  /\ offloading = {}
  /\ dpc' = "done"
  /\ UNCHANGED <<readerVars, taken, inboundOpen, offloading, buffer, expected,
                 effectVars>>

AbortDispatcher ==
  /\ dpc = "run" /\ Drained
  /\ dpc' = "aborted"
  /\ UNCHANGED <<readerVars, taken, inboundOpen, offloading, buffer, expected,
                 effectVars>>

-----------------------------------------------------------------------------

DispatcherStep ==
  \/ TakeFrame \/ DispatcherPanic \/ SeeInboundClosed \/ DispatchNext
  \/ DispatcherExit
  \/ \E n \in offloading : TakeCompletion(n)

PipelineNext ==
  \/ \E f \in Frames : Read(f) \/ ReaderPanic(f)
  \/ ReaderBreak \/ ReaderDropsChannel \/ ReaderExit \/ AbortReader
  \/ DispatcherStep
  \/ AbortDispatcher

\* The dispatcher is scheduled, every decode worker finishes, and the reader
\* leaves its loop behind once it has broken out of it.
PipelineFairness ==
  /\ WF_pipelineVars(DispatcherStep)
  /\ WF_pipelineVars(ReaderDropsChannel)

PipelineSpec == PipelineInit /\ [][PipelineNext]_pipelineVars /\ PipelineFairness

-----------------------------------------------------------------------------
(* Properties *)

\* "skipping a sequence would stall the reorder buffer forever": every frame
\* read and not yet dispatched is in exactly one stage of the pipeline, unless
\* shutdown or a panic has thrown the dispatcher away; one that ends by itself has
\* dispatched everything.
NoSequenceLost ==
  /\ offloading \cap buffer = {}
  /\ dpc \notin {"aborted", "panicked"} =>
       expected .. Len(frames) = (taken + 1 .. Len(frames)) \cup offloading \cup buffer
  /\ dpc = "done" => expected = Len(frames) + 1

\* A frame that was read is dispatched, whatever is ahead of it: a worker that
\* is slow or a frame that does not decode only delays it.
EveryFrameDispatched ==
  \A n \in 1 .. MaxFrames :
    (Len(frames) >= n) ~> (expected > n \/ dpc \in {"aborted", "panicked"})

\* The pipeline is a FIFO channel.
FIFO == INSTANCE OrderedDelivery WITH
          Apply <- ApplyFrame, wire <- frames, delivered <- expected - 1,
          view <- [attached |-> attached, events |-> events]
ImplementsFIFO ==
  FIFO!Init([attached |-> {}, events |-> <<>>]) /\ [][FIFO!Next]_FIFO!vars

=============================================================================
