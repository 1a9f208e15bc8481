SPECIFICATION FairSpec
CONSTANTS
    c = c
    p = p
    Modules = {c, p}
    Command = c
    Reporting = {c, p}
    Late = {p}
    Elsewhere = Elsewhere
    MaxCalls <- Calls
    MaxLines = 2
INVARIANT LastWordCounts
INVARIANT ReportedWhileOpen
PROPERTY ReportsInOrder
PROPERTY CatchesUp
