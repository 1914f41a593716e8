CONSTANTS
    States <- MCStates
    InitStates <- MCInitStates
    Trans <- MCTrans
    Invar <- MCInvar
    Strategies = {"forward", "backward"}
    Inputs <- MCInputs
    UINT_MAX <- MCUIntMax

SPECIFICATION Spec

\* The command stops once both strategy threads are done.
CHECK_DEADLOCK FALSE

INVARIANTS
    WitnessValid
    SingleWitness
    DepthBound

PROPERTIES
    VerdictSpec
    RaceSpec
