CONSTANTS
    Fields <- MCFields
    Values <- MCValues
    Missing = Missing
    Unreadable = Unreadable
    Irregular = Irregular
    Scenarios <- MCScenarios
    Rewrites <- MCRewrites
    MaxChanges = 1
SPECIFICATION Spec
INVARIANTS TypeOK Precedence DaemonFilesAllOrNothing WiredUp NamesAgree
PROPERTIES StartEnds
CHECK_DEADLOCK FALSE
