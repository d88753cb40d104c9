\* The environments of main and the configurations of two tests; everything
\* outside may fail.  The process ends.
SPECIFICATION LifeSpec
CONSTANTS
    Programs = {"main", "test"}
    Trees <- AllTrees
    Outages = {"disk", "files", "database", "redis", "cert", "port"}
INVARIANTS LifeTypeOK SettingsKept LogsRetired ListensOnlyWhenRunning
PROPERTIES CleanupEnds StopEnds
CHECK_DEADLOCK FALSE
