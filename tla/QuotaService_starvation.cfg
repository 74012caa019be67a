SPECIFICATION SerialSpec
CONSTANTS
  u1 = u1  u2 = u2  x = x  y = y  z = z  w = w  a = a  b = b  c = c  d = d
  None = None
  Users = {u1, u2}
  Urls = {x, y, z, w}
  Submissions <- Distinct
  userId <- DistinctUser
  urlHash <- DistinctUrl
  Reconcilers = {r1}
  Retriers = {}
  AdminJobs = {}
  DefaultNovel = 1
  DefaultRetry = 1
  NovelCap = 2
  RetryCap = 1
  GlobalChoices = {}
  OverrideChoices <- RaiseOverride
  Outcomes = {}
  LastDay = 1
  Batch = 1
  Attempts = 1
PROPERTIES EligibleAdmitted
