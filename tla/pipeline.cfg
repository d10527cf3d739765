CONSTANTS
    SleepIntervalSet = TRUE
    NotifyFiles <- MCNotifyFiles
    CleanPath <- MCCleanPath
    OpSets <- MCOpSets
    WatchQueueSize = 1
    MaxTime = 2
    BufferSize = 1
    ReaderMayStop = TRUE
SPECIFICATION Spec
INVARIANTS TypeOK NoNotificationLost SourceNeverOrphaned
PROPERTIES ImplementsWakeups BackwardsOnlyByTimer QuietAfterStop EventuallyScanned StopReturns
CHECK_DEADLOCK FALSE
