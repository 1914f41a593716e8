CONSTANTS
    Widths = {1, 2}
    LiteralSets <- MCLiteralSets
    MaxEncodings = 3

SPECIFICATION Spec

\* The model stops once MaxEncodings encodings are made.
CHECK_DEADLOCK FALSE

INVARIANTS
    AlgebraicRoundTrip
