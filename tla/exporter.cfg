CONSTANTS
    Switches <- MCSwitches
    MaxVersion = 2
    MaxCrashes = 1
SPECIFICATION Spec
INVARIANTS NeverSilent DumpFileWhole
PROPERTIES PublishedForward ObserverReturns EventuallyPublished ReportsKeepComing
