SPECIFICATION Spec
CONSTANTS
  p1 = p1  p2 = p2  q1 = q1  q2 = q2  e1 = e1  e2 = e2
  s1 = s1  s2 = s2  m1 = m1  m2 = m2  u1 = u1  u2 = u2
  Handlers = {p1, p2}
  Free = Free
  Off = Off
  Fields = {f, g}
  MaxEdits = 3
  Epics = {e1, e2}
  Stories = {s1, s2}
  StoryTasks = {t1}
  Shades = {red, blue}
  NoColour = NoColour
  MaxRelated = 3
  MaxOrder = 1
  Milestones = {m1, m2}
  Issues = {i1}
  Statuses = {new, done}
  Gone = Gone
  Nowhere = Nowhere
  MaxRequests = 2
  Voters = {u1, u2}
  MaxMisses = 2
  Ids <- SomeIds
  Lanes = {q1, q2}
  None = None
  Starts <- SomeStarts
  Bulks <- SomeBulks
  Positions <- SomePositions
  Gap = 10
  MaxAsks = 2
  Users = {u1, u2, u3}
  Nobody = Nobody
  MaxReads = 3
  Tasks = {t1, t2}
  Dates <- SomeDates
INVARIANTS TypeOK HistoryTellsTheRow OnlyRacedRemovalsMiscount CopiesAgree
PROPERTIES NamedFieldsAreChecked EverySaveHasItsVersion OnlyReorderLosesColour ChosenColourStays StoriesFollowTheirTasks ClosedMeansNothingOpen DoneMilestonesClose FansRecounted DropsLandTogether PlacesGivenAreFree BystandersKeepTheirOrder OwnerStaysAdmin SomebodyAdministers OnlyCrossedSavesLoseWidening
CHECK_DEADLOCK FALSE
SYMMETRY Symmetries
