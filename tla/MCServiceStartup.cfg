CONSTANTS
    Slices = 2
    l1 = l1
    l2 = l2
    Launches <- MCLaunches
SPECIFICATION StartupFairSpec
INVARIANTS TypeOK ReportedMatchesFlag StoppedMeansQuiet RegisteredHasData
PROPERTIES KeepsContract StopEnds PauseRests CyclesForEver LaunchServes
