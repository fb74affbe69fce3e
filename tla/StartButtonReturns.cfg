CONSTANT Sessions <- AllButtons
CONSTANT OneAtATime = FALSE
SPECIFICATION Spec
INVARIANT StartButtonReturns
CHECK_DEADLOCK FALSE
