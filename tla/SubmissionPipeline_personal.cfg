SPECIFICATION Spec
CONSTANTS
  u1 = u1  u2 = u2  x = x  y = y  a = a  b = b  c = c
  None = None
  CatalogWork = catalog
  PersonalWork = personal
  Users = {u1, u2}
  Urls = {x, y}
  Submissions <- Solo
  userId <- SoloUser
  urlHash <- SoloUrl
  Media = {}
  Deferrable = {}
  Resolvers = {m1}
  Retriers = {}
  AdminJobs = {}
  Causes = {"transient"}
  Attempts = 2
  MaxStalled = 1
  MaxFaults = 0
INVARIANTS ManualStaysPersonal
CHECK_DEADLOCK FALSE
