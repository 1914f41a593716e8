CONSTANTS
    Keys = {"x", "y"}
    Values = {0, 1}
    MaxFrames = 2
    NoValue = NoValue

SPECIFICATION Spec

\* The extraction stops once every frame is made and every value written.
CHECK_DEADLOCK FALSE

INVARIANT WitnessRecords
