SPECIFICATION Spec
CONSTANTS
    NLists = 2
    MaxVersion = 2
    FaultSets = {{"crash", "nested", "appear", "load", "open", "full"},
                 {"toggle", "midsave", "full"}, {"toggle", "midsave", "appear"},
                 {"toggle", "load", "open"}}
INVARIANTS TypeOK CacheHonest DriverCurrent
PROPERTY LoadEnds
\* A reload from within LoadLists may stop the program.
CHECK_DEADLOCK FALSE
