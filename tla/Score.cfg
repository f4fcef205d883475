SPECIFICATION Spec
CONSTANTS
    FACILITY_ATTRS <- MCSix
    Events = {1, 2}
    Inputs <- MCInputs
    Nil = Nil
CHECK_DEADLOCK FALSE
INVARIANTS
    TypeOK
    ScoreIsMonotone
    ImplementsFormula
    ExtremesAreHonest
