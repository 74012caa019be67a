SPECIFICATION Spec
CONSTANTS
  u1 = u1  u2 = u2  x = x  y = y  a = a  b = b  c = c
  None = None
  CatalogWork = catalog
  PersonalWork = personal
  Users = {u1, u2}
  Urls = {x}
  Submissions <- Shared
  userId <- SharedUser
  urlHash <- SharedUrl
  Media = {}
  Deferrable = {b}
  Resolvers = {m1}
  Retriers = {}
  AdminJobs = {}
  Causes = {"permanent"}
  Attempts = 2
  MaxStalled = 1
  MaxFaults = 1
INVARIANTS FannedOut CacheUsable
CHECK_DEADLOCK FALSE
