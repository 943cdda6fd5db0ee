SPECIFICATION Spec
CONSTANTS
    MaxRace = 2
    Car <- OneCar
    CuTime <- OneTime
    LapTarget = 1
    RecoverRunning = TRUE
    Proc <- Together
    Home <- HomeTogether
    MaxFailures = 0
    MaxDeletes = 1
    Pipeline = main
    User = {u1}
    Consumer = Consumer
    Ticker = Ticker
    None = None
    u1 = u1
    u2 = u2
    main = main
    ui = ui
    c1 = c1
    c2 = c2
    t1 = t1
    t2 = t2
SYMMETRY Symmetry
INVARIANTS
    OneRaceRuns
