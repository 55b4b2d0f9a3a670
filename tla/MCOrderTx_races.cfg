\* Rows arrive in a group, leave it and are reordered in it.
SPECIFICATION Spec
CONSTANTS
    a = a  b = b  c = c  d = d  p = p  q = q  r = r
    Procs = {p, q, r}
    Items = {a, b, c, d}
    Groups = {1, 2}
    Tables <- TwoGroups
    Operations <- Racing
    RetryLimit = 3
    NoRow = NoRow
SYMMETRY Handlers
INVARIANTS TypeOK Contiguous RowsHaveSchedules
PROPERTY PlaceLands
