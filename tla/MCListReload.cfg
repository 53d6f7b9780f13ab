SPECIFICATION Spec
CONSTANTS
    NLists = 1
    MaxVersion = 2
    FaultSets = {{"nested"}}
PROPERTY ReloadHonoured
\* A reload from within LoadLists may stop the program.
CHECK_DEADLOCK FALSE
