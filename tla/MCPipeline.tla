----------------------------- MODULE MCPipeline -----------------------------
(* TLC instance of Pipeline: attach and detach events of one session in     *)
(* every shape, and a garbled response.                                     *)
EXTENDS Pipeline

MCFrames ==
  [kind : {"attach", "detach"}, id : {0}, session : {"s1"},
   shape : {"inline", "offload"}]
  \cup [kind : {"attach"}, id : {0}, session : {"s1"},
        shape : {"inlineBad", "offloadBad", "oversize", "notUtf8", "inlineBadSplit",
                 "oversizeSplit"}]
  \cup [kind : {"result", "other"}, id : {1}, session : {"none"}, shape : {"inline"}]
=============================================================================
