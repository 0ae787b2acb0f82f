SPECIFICATION FairSpec
CONSTANTS
    None = None
    Processes = {p1, p2}
    Configs <- EqualConfigs
    MaxTime = 6
    MaxStops = 1
    MaxFailures = 1
CHECK_DEADLOCK FALSE
INVARIANTS
    StoredJobsReopen
    OneSchedulerSurvives
PROPERTIES
    SlotsRunOnce
    DueSlotsRun
