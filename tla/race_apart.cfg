SPECIFICATION Spec
CONSTANTS
    MaxRace = 1
    Car <- OneCar
    CuTime <- OneTime
    LapTarget = 1
    RecoverRunning = TRUE
    Proc <- Apart
    Home <- HomeApart2
    MaxFailures = 1
    MaxDeletes = 1
    Pipeline = main
    User = {u1, u2}
    Consumer = Consumer
    Ticker = Ticker
    None = None
    u1 = u1
    u2 = u2
    main = main
    ui = ui
    c1 = c1
    c2 = c2
    t1 = t1
    t2 = t2
SYMMETRY Symmetry
INVARIANTS
    LockDiscipline
    StampsExplainStatus
