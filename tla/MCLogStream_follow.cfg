SPECIFICATION LiveSpec
CONSTANTS
    Clients = {b1}
    Conns = {c1, c2}
    NoOne = NoOne
    MaxStreams = 1
    QueueMax = 2
    Capacities = {1, 2}
    GapFitsQueue = TRUE
    MaxLines = 3
    MaxBoots = 2
    MaxErrors = 1
INVARIANTS RowsInOrder NothingMissed NothingLeaks
PROPERTIES LinesArrive DepartedStreamsEnd
