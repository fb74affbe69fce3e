CONSTANT FIFO_LEN = 3
CONSTANT LOCKOUT = 6
CONSTANT CNT_MAX = 7
CONSTANT WriteValues <- RunOnly
CONSTANT PIXELS = 5
CONSTANT GAP = 3
CONSTANT UPSTREAM = 4
SPECIFICATION LinkSpec
INVARIANT OneStepPerFrame
PROPERTY EveryFrameCounted
