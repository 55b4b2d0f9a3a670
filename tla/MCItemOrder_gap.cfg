\* An epic and a story of its project, two stories of another project; no tasks.
SPECIFICATION Spec
CONSTANTS
    e1 = e1  e2 = e2  s1 = s1  s2 = s2  s3 = s3  p1 = p1  p2 = p2
    t1 = t1  t2 = t2
    Epics = {e1}
    Stories = {s1, s2, s3}
    Tasks = {}
    Root = Root
    Project <- TwoProjects
    MaxOrder = 2
    MaxPosition = 1
    MaxRelated = 3
SYMMETRY OtherProjectSymmetry
INVARIANT ContiguousBetweenRequests
