\* One operation at a time, from every table.
SPECIFICATION Spec
CONSTANTS
    a = a  b = b  c = c  d = d  p = p  q = q  r = r
    Procs = {p}
    Items = {a, b, c, d}
    Groups = {1, 2}
    Tables <- AnyTable
    Operations <- AnyOperation
    RetryLimit = 3
    NoRow = NoRow
PROPERTY RunsAtomically
