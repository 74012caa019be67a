SPECIFICATION Spec
CONSTANTS
  u1 = u1  u2 = u2  x = x  y = y  z = z  w = w  a = a  b = b  c = c  d = d
  None = None
  Users = {u1, u2}
  Urls = {x, y}
  Submissions <- Mixed
  userId <- MixedUser
  urlHash <- MixedUrl
  Reconcilers = {r1}
  Retriers = {}
  AdminJobs = {}
  DefaultNovel = 1
  DefaultRetry = 1
  NovelCap = 1
  RetryCap = 1
  GlobalChoices = {}
  OverrideChoices = {}
  Outcomes = {"permanent", "transient", "fingerprint", "content", "identified"}
  LastDay = 1
  Batch = 3
  Attempts = 2
INVARIANTS LedgerExact
PROPERTIES ImplementsLedger
