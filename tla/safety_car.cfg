SPECIFICATION Spec
CONSTANTS
    Race = {r1}
    Session = {s1, s2}
    MaxToggles = 3
    MaxFailures = 2
SYMMETRY Symmetry
INVARIANTS
    TypeOK
    OneLateRowEach
    LoneSessionAlternates
    FlagHasItsRow
