\* Requests on a plan of one epic, two stories and three tasks.
SPECIFICATION Spec
CONSTANTS
    e1 = e1  s1 = s1  s2 = s2  t1 = t1  t2 = t2  t3 = t3
    Epics = {e1}
    Stories = {s1, s2}
    Tasks = {t1, t2, t3}
    NoItem = NoItem
    NoDate = NoDate
    Keep = Keep
    Plans <- AnyPlan
    Dues <- AnyDue
    Bulks <- AnyBulk
    Links <- AcyclicLinks
    Homes <- AnyHome
    MaxRequests = 2
    MaxIterations = 10
INVARIANT AcceptedSparesAncestors
