CONSTANT Sessions <- CalibrationAndRun
CONSTANT OneAtATime = TRUE
CONSTANT Noisy <- DarkNoise
CONSTANT MaxStack = 2
CONSTANT DELAY = 1
CONSTANT Prompt = TRUE
CONSTANT SlowStart = FALSE
CONSTANT Settle = TRUE
CONSTANT WithKey = FALSE
SPECIFICATION FairSpec
INVARIANT ChannelsKeepStep
INVARIANT SlotsKeepStep
PROPERTY RunSettles
PROPERTY CalibrationFillsLitSlots
CHECK_DEADLOCK FALSE
