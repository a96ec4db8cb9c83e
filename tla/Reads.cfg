\* 30, 5000, 50 and 10 of the code become 1, 4, 2 and 1.
SPECIFICATION Spec
CONSTANTS
    Interval = 2
    MinBuffer = 1
    MaxAfter = 4
    TradeCandles = 2
    SearchWindow = 1
    MaxRetries = 3
    None = None
    ChartCases <- MCChartCases
    DayLength = 4
    Null = Null
    PerformanceCases <- MCPerformanceCases
    Nil = Nil
    Limit = 2
    MaxRowId = 6
    ListCases <- MCListCases
INVARIANTS
    ExitOnChart
    NoHoles
    ThrowNeedsMissingCandle
    DrawdownIsWorst
    GranularitiesAgree
    WindowsKeepTheirLength
    NothingSkipped
PROPERTIES
    ChartAnswered
    NoRowTwice
\* A request that is answered and a list that is read to its end are done.
CHECK_DEADLOCK FALSE
