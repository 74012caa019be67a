SPECIFICATION Spec
CONSTANTS
  u1 = u1  u2 = u2  x = x  y = y  a = a  b = b  c = c
  None = None
  CatalogWork = catalog
  PersonalWork = personal
  Users = {u1, u2}
  Urls = {x}
  Submissions <- Shared
  userId <- SharedUser
  urlHash <- SharedUrl
  Media = {}
  Deferrable = {}
  Resolvers = {}
  Retriers = {}
  AdminJobs = {}
  Causes = {}
  Attempts = 1
  MaxStalled = 1
  MaxFaults = 0
INVARIANTS NoOrphan
CHECK_DEADLOCK FALSE
