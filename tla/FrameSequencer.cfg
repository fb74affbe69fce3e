CONSTANT WriteValues <- AnyWord
SPECIFICATION FairSpec
INVARIANT TypeOK
INVARIANT CodeNamesLight
INVARIANT CodeTracksCalibration
PROPERTY StandbyDarkens
PROPERTY RunLightsEveryColour
PROPERTY CalibrationVisitsEveryCode
