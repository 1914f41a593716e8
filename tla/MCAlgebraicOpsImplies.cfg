CONSTANTS
    Width = 2
    Base = 16
    Digits <- MCDigits
    Ops = {"implies"}

SPECIFICATION Spec

\* The hook runs once; the node is then compiled.
CHECK_DEADLOCK FALSE

INVARIANT OpCorrect
