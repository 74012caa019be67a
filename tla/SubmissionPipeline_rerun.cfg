SPECIFICATION Spec
CONSTANTS
  u1 = u1  u2 = u2  x = x  y = y  a = a  b = b  c = c
  None = None
  CatalogWork = catalog
  PersonalWork = personal
  Users = {u1}
  Urls = {x}
  Submissions <- Alone
  userId <- AloneUser
  urlHash <- AloneUrl
  Media = {}
  Deferrable = {}
  Resolvers = {}
  Retriers = {q1}
  AdminJobs = {j1}
  Causes = {"transient"}
  Attempts = 2
  MaxStalled = 1
  MaxFaults = 2
INVARIANTS StageHasJob OrphanLostEnqueue
CHECK_DEADLOCK FALSE
