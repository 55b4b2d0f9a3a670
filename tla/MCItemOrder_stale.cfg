\* The same plan: can the epic-wide reindex meet an occupied position?
SPECIFICATION ReorderSpec
CONSTANTS
    e1 = e1  e2 = e2  s1 = s1  s2 = s2  s3 = s3  p1 = p1  p2 = p2
    t1 = t1  t2 = t2
    Epics = {e1, e2}
    Stories = {s1, s2, s3}
    Tasks = {}
    Root = Root
    Project <- OneProject
    MaxOrder = 2
    MaxPosition = 2
    MaxRelated = 4
INVARIANT ReindexNeverCollides
