CONSTANT Sessions <- AllButtons
CONSTANT OneAtATime = FALSE
CONSTANT Positions <- TwoPositions
SPECIFICATION WindowSpec
INVARIANT IdleMeansModeZero
 
INVARIANT RecordingIsOpen
INVARIANT ListenerFindsControls
INVARIANT OrderFollowsText
INVARIANT ScaledByItsSlider
CHECK_DEADLOCK FALSE
