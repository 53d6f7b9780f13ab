SPECIFICATION Spec
CONSTANTS
    MaxIp = 6
    Names = {"a", "b"}
    Inputs <- MCInputs
INVARIANTS TypeOK DriverSorted ExactlyBlocked NamesKept
PROPERTY SetRangesReached
\* The program is done with a list when it is sent.
CHECK_DEADLOCK FALSE
