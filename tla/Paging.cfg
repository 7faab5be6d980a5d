SPECIFICATION PagingSpec
CHECK_DEADLOCK FALSE
CONSTANTS
    Default = 2
    Most = 3
    MaxInt32 = 2147483647
    Keys = {1, 2, 3}
    DryRuns = {1, 3}
    Filters <- MCFilters
    MaxDuration = 15
    UnitLength <- MCUnitLength
    Limits <- MCLimits
    Pages <- MCPages
    Unset = Unset
    Requests <- MCRequests
    Objects <- MCObjects
    FirstObjects <- MCFirstObjects
    Arns = {"arn:lb", "arn:lc", "arn:tg", "arn:th"}
    KnownKeys = {"tag", "name"}
    PageSize = 1
    MaxChanges = 2
INVARIANTS
    WalkIsExact
    DocumentedPagesAnswered
    LongerSinceReachesFurther
    AnswersTheQuestion
    ListedExactlyOnce
PROPERTIES
    ReadEnds
