SPECIFICATION FairSpec
CONSTANTS
  u1 = u1  u2 = u2  x = x  y = y  z = z  w = w  a = a  b = b  c = c  d = d
  None = None
  Users = {u1}
  Urls = {x, y}
  Submissions <- Pair
  userId <- PairUser
  urlHash <- PairUrl
  Reconcilers = {r1, r2}
  Retriers = {}
  AdminJobs = {j1}
  DefaultNovel = 1
  DefaultRetry = 1
  NovelCap = 2
  RetryCap = 1
  GlobalChoices = {}
  OverrideChoices <- RaiseOverride
  Outcomes = {}
  LastDay = 1
  Batch = 3
  Attempts = 1
PROPERTIES EligibleAdmitted HandlersReturn
