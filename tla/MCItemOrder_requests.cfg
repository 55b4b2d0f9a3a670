\* Every request on two epics, two stories and two tasks of one project.
SPECIFICATION Spec
CONSTANTS
    e1 = e1  e2 = e2  s1 = s1  s2 = s2  s3 = s3  p1 = p1  p2 = p2
    t1 = t1  t2 = t2
    Epics = {e1, e2}
    Stories = {s1, s2}
    Tasks = {t1, t2}
    Root = Root
    Project <- OneProject
    MaxOrder = 1
    MaxPosition = 2
    MaxRelated = 3
SYMMETRY EntitySymmetry
INVARIANTS TypeOK Contiguous EveryItemHasItsRow RowsFollowParents
PROPERTY BystandersKeepTheirOrder
