SPECIFICATION ForecastsFairSpec
CONSTANTS
    c1 = c1
    c2 = c2
    c3 = c3
    Calls <- MCCalls
    Asked <- MCAsked
    MaxRows = 2
    LatestRows = 2
    MaxFailures = 1
    SearchHours = 3
    WeatherHours = 1
    Near = 2
    MaxTargets = 2
    Deadline = 2
INVARIANTS
    LatestIsLastSaved
    AnswerIsTrue
    AssumedIsTold
PROPERTIES
    CallsConclude
    CallerIsReleased
CHECK_DEADLOCK FALSE
