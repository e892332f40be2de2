SPECIFICATION Spec
CHECK_DEADLOCK FALSE
INVARIANTS
    TypeOK
    ReleasedOnce
    NoBatchConflict
    StepsInOrder
    AlertsFollowGroup
PROPERTIES
    WaitKept
    QuietWhileAnswered
    EventuallyReleased
    RunsEnd
    SilenceReported
    ReturnResolves
    MarkFollowsSource
