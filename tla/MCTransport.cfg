SPECIFICATION Spec
CONSTANT Calls = {c1}
CONSTANT Frames <- MCFrames
CONSTANT MaxFrames = 2
INVARIANT AnswerFromWire
PROPERTY AnsweredCallReturns CloseReleasesCalls RequestsSpec
CHECK_DEADLOCK FALSE
