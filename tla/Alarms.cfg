CONSTANTS Alarm = {uart, blink}
CONSTANTS WRAP = 6  MaxTicks = 4
SPECIFICATION Spec
INVARIANT RolloverTellsWrap
PROPERTY FiresOnTime
