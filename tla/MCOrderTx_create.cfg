\* A creation races an arrival.
SPECIFICATION CreationAndArrival
CONSTANTS
    a = a  b = b  c = c  d = d  p = p  q = q  r = r
    Procs = {p, q}
    Items = {a, b, c, d}
    Groups = {1, 2}
    Tables <- TwoGroups
    Operations <- Creations
    RetryLimit = 3
    NoRow = NoRow
INVARIANT NoRequestDies
