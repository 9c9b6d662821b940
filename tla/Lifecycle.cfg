SPECIFICATION FairSpec
CONSTANTS
    None = None
    d1 = d1
    d2 = d2
    Daemons = {d1, d2}
    w1 = w1
    w2 = w2
    Cmds = {w1, w2}
    Garbled = Garbled
    MaxCrashes = 2
INVARIANTS TypeOK StaleOnlyAfterDeath ServesItsDatabase
PROPERTIES ComesUp
