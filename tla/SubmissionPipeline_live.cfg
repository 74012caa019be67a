SPECIFICATION FairSpec
CONSTANTS
  u1 = u1  u2 = u2  x = x  y = y  a = a  b = b  c = c
  None = None
  CatalogWork = catalog
  PersonalWork = personal
  Users = {u1, u2}
  Urls = {x, y}
  Submissions <- Solo
  userId <- SoloUser
  urlHash <- SoloUrl
  Media = {x, y}
  Deferrable = {b}
  Resolvers = {m1}
  Retriers = {}
  AdminJobs = {}
  Causes = {"transient", "content"}
  Attempts = 1
  MaxStalled = 1
  MaxFaults = 1
INVARIANTS TypeOK
PROPERTIES EventuallySettled
CHECK_DEADLOCK FALSE
