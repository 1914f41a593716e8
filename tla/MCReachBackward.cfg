CONSTANTS
    States <- MCStates
    InitStates <- MCInitStates
    Trans <- MCTrans
    Invar <- MCInvar
    Strategies = {"backward"}
    Inputs <- MCBackwardInputs
    UINT_MAX <- MCUIntMax

SPECIFICATION Spec

\* The command stops once the backward thread is done.
CHECK_DEADLOCK FALSE

PROPERTIES
    VerdictSpec
