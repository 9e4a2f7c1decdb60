\* An update, a create and their cleanup side by side; a lost answer, a lost
\* worker.
CONSTANTS
    Assets <- MCOneWriter
    PerHost = 2
    MaxLost = 1
    MaxCrashes = 1
    None = None
SPECIFICATION LiveSpec
INVARIANTS UndoSound
PROPERTIES CleanupFollows
CHECK_DEADLOCK FALSE
