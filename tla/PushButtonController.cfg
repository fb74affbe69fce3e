SPECIFICATION FairSpec
INVARIANT CodeNamesLight
INVARIANT FlagNamesSequence
PROPERTY KeyDarkens
PROPERTY ReleasedRotates
