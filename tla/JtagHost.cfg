CONSTANTS BUF_LEN = 2  FIFO_LEN = 2  READ_THRESHOLD = 0  WRITE_THRESHOLD = 1
CONSTANTS DEFAULT_TIMEOUT = 2  INT_MAX = 4
CONSTANTS Lengths = {2}  TimeoutArgs = {0}  Numbers = 1
SPECIFICATION FairSpec
PROPERTY HostServesCalls
PROPERTY NoCallOutlivesHost
