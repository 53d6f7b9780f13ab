SPECIFICATION Spec
CONSTANTS
    NLists = 1
    MaxUpdates = 3
INVARIANTS TypeOK OneUpdate ChangesLoaded TempsRemoved
PROPERTIES AbortEnds HiddenGoes
\* Two updates at once, and a LoadLists within another, end the model.
CHECK_DEADLOCK FALSE
