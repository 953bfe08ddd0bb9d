SPECIFICATION Spec
CONSTANTS
    Day <- MCDay
    Local <- MCLocal
    Months = 2
    CycleDays = 19
    MonthStart <- MCMonthStart
    DailyTries = 12
    WeeklyTries = 3
    MonthlyTries = 3
    None = None
    Bad = Bad
    Calendars <- MCCalendars
    StaticOffset <- MCStaticOffset
    ZoneOffset <- MCZoneOffset
    Nows <- MCNows
    Horizon <- MCHorizon
CHECK_DEADLOCK FALSE
INVARIANT NoDuplicates
