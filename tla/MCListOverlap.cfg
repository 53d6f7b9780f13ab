SPECIFICATION Spec
CONSTANTS
    NLists = 1
    MaxUpdates = 2
INVARIANT OneAtATime
