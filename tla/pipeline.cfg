SPECIFICATION Spec
CONSTANTS
    Cap <- SmallQueues
    Batch = 1
    Stories <- TwoStories
INVARIANTS
    TypeOK
    LogTellsAll
    FileTellsAPrefix
PROPERTIES
    FeedSpec
    FileTakesNothingBack
    NobodyWaitsForTheRace
    StopsWhenTold
CHECK_DEADLOCK FALSE
