SPECIFICATION PipelineSpec
CONSTANT Frames <- MCFrames
CONSTANT MaxFrames = 3
INVARIANT NoSequenceLost
PROPERTY EveryFrameDispatched ImplementsFIFO
CHECK_DEADLOCK FALSE
