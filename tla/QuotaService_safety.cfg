SPECIFICATION Spec
CONSTANTS
  u1 = u1  u2 = u2  x = x  y = y  z = z  w = w  a = a  b = b  c = c  d = d
  None = None
  Users = {u1}
  Urls = {x, y}
  Submissions <- Pair
  userId <- PairUser
  urlHash <- PairUrl
  Reconcilers = {r1}
  Retriers = {q1, q2}
  AdminJobs = {}
  DefaultNovel = 1
  DefaultRetry = 1
  NovelCap = 1
  RetryCap = 1
  GlobalChoices <- LowerGlobal
  OverrideChoices <- KeepRetry
  Outcomes = {"transient"}
  LastDay = 2
  Batch = 3
  Attempts = 1
INVARIANTS TypeOK UsageWithinCap RetriesWithinCap
