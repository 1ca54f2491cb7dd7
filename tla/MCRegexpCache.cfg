SPECIFICATION CacheFairSpec
CONSTANTS
    c1 = c1
    c2 = c2
    c3 = c3
    good = good
    bad = bad
    one = one
    other = other
    Calls = {c1, c2, c3}
    Exprs = {good, bad}
    Compilable = {good}
    Values = {one, other}
    Matching <- MCMatches
INVARIANTS
    RightAnswer
    OneCompiles
PROPERTIES
    Returns
\* All requests are answered.
CHECK_DEADLOCK FALSE
