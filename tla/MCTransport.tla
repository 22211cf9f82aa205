---------------------------- MODULE MCTransport ----------------------------
(* TLC instance of Transport. *)
EXTENDS Transport

\* Responses to both requests that decode, early or late, or are garbled, an
\* oversize event that shows a nested id, and frames on which a task panics.
MCFrames ==
  [kind : {"result"}, id : {1}, session : {"s1"}, shape : {"inline", "offload", "offloadBad"}]
  \cup [kind : {"error"}, id : {1}, session : {"none"}, shape : {"inlineBad", "inline"}]
  \cup [kind : {"event"}, id : {1}, session : {"none"},
        shape : {"oversize", "oversizeSplit", "inlineBadSplit"}]

=============================================================================
