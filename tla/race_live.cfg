SPECIFICATION FairSpec
CONSTANTS
    MaxRace = 1
    Car <- TwoCars
    CuTime <- TwoTimes
    LapTarget = 1
    RecoverRunning = FALSE
    Proc <- Together
    Home <- HomeTogether
    MaxFailures = 1
    MaxDeletes = 0
    Pipeline = main
    User = {u1}
    Consumer = Consumer
    Ticker = Ticker
    None = None
    u1 = u1
    u2 = u2
    main = main
    ui = ui
    c1 = c1
    c2 = c2
    t1 = t1
    t2 = t2
INVARIANTS
    LapLedger
    CrossingsAccounted
    LapsBounded
    ReportComplete
PROPERTIES
    LeaderEndsRace
    CallsReturn
