CONSTANTS
    Vars <- MCVars
    Defines <- MCDefines
    Bodies <- MCBodies
    Times = {0, 1}
    MaxCalls = 2
    Assertions = FALSE

SPECIFICATION Spec

\* The compiler is idle once its last call of process has returned.
CHECK_DEADLOCK FALSE

INVARIANT CompileCorrect
INVARIANT EncodingsShared
