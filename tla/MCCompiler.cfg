CONSTANTS
    Width = 2
    Nodes <- MCNodes
    Kind <- MCKind
    Args <- MCArgs
    Bodies <- MCBodies

SPECIFICATION Spec

\* A process call ends once the MUX clauses are emitted.
CHECK_DEADLOCK FALSE

INVARIANT NoDanglingDDs
