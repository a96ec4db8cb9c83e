\* Four paper rows, pages of one.
SPECIFICATION PagesSpec
CONSTANTS
    Interval = 2
    MinBuffer = 1
    MaxAfter = 4
    TradeCandles = 2
    SearchWindow = 1
    MaxRetries = 3
    None = None
    ChartCases = {}
    DayLength = 4
    Null = Null
    PerformanceCases = {}
    Nil = Nil
    Limit = 1
    MaxRowId = 4
    ListCases <- MCListCases
INVARIANT EveryPaperRowListed
\* A list that is read to its end is done.
CHECK_DEADLOCK FALSE
