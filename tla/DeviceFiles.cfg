CONSTANT MAX_FD = 5
CONSTANTS main = main  worker = worker  uart = uart  lcd = lcd  zipfs = zipfs
CONSTANT Threads <- TwoThreads
CONSTANT Devices <- TwoDevices
CONSTANT FileSystems <- OneFileSystem
CONSTANT NullDevice = null
CONSTANT NoDevice = none
SPECIFICATION Spec
SYMMETRY Symmetry
INVARIANT EachHasOneOwner
INVARIANT LocksHaveHolders
INVARIANT OneLockPerDevice
PROPERTY LockedOpensFail
