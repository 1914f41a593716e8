CONSTANTS
    ValueBits = 8
    Width = 4
    Vars <- MCVars
    Defines <- MCDefines
    Bodies <- MCBodies
    Witnesses <- MCWitnesses
    Times <- MCTimes

SPECIFICATION Spec

\* Evaluator::process returns once the walk is over.
CHECK_DEADLOCK FALSE

INVARIANT EvalCorrect
