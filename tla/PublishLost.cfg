SPECIFICATION Spec
CONSTANTS
    h1 = h1
    h2 = h2
    Handlers = {h1, h2}
    MaxVersion = 2
    MaxRestarts = 0
PROPERTIES HistoryKept
CHECK_DEADLOCK FALSE
