CONSTANT Sessions <- CalibrationAndRun
CONSTANT OneAtATime = TRUE
CONSTANT Noisy <- DarkNoise
CONSTANT MaxStack = 2
CONSTANT DELAY = 1
CONSTANT Prompt = TRUE
CONSTANT SlowStart = TRUE
CONSTANT Settle = TRUE
CONSTANT WithKey = TRUE
SPECIFICATION Spec
INVARIANT SomeOrderTrue
CHECK_DEADLOCK FALSE
