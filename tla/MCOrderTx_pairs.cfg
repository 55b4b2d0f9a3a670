\* Two requests that wait for each other's locks, with collisions and retries.
SPECIFICATION Spec
CONSTANTS
    a = a  b = b  c = c  d = d  p = p  q = q  r = r
    Procs = {p, q}
    Items = {a, b, c, d}
    Groups = {1, 2}
    Tables <- MaybeGapped
    Operations <- Conflicting
    RetryLimit = 3
    NoRow = NoRow
PROPERTY EveryRequestEnds
