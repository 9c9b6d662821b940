SPECIFICATION ProfileSpec
CONSTANTS
    u1 = u1
    u2 = u2
    Urls = {u1, u2}
    None = None
    Alone = TRUE
    MaxCommits = 3
    c1 = c1
    c2 = c2
    Conns = {c1, c2}
INVARIANTS RefusedOnlyWhenAhead
