CONSTANT FIFO_LEN = 3
CONSTANT LOCKOUT = 3
CONSTANT CNT_MAX = 4
CONSTANT WriteValues <- Words
SPECIFICATION FairSpec
INVARIANT TypeOK
 
PROPERTY ImplementsPacedFrames
PROPERTY LockoutEnds
PROPERTY SilenceStillDarkens
