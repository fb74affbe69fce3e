CONSTANTS BUF_LEN = 3  FIFO_LEN = 1  READ_THRESHOLD = 0  WRITE_THRESHOLD = 0
CONSTANTS DEFAULT_TIMEOUT = 2  INT_MAX = 4
CONSTANTS Lengths = {3}  TimeoutArgs = {}  Numbers = 2
SPECIFICATION Spec
INVARIANT NoInterruptLost
INVARIANT BlockedOnHostOnly
PROPERTY ReceiveInOrder
PROPERTY TransmitInOrder
