CONSTANTS
    Fields <- MCFields
    Values <- MCValues
    Missing = Missing
    Unreadable = Unreadable
    Irregular = Irregular
    Scenarios <- MCProvided
    Rewrites <- MCRewrites
    MaxChanges = 0
SPECIFICATION Spec
INVARIANT ProvidedSettingsUsed
CHECK_DEADLOCK FALSE
