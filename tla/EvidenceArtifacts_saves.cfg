SPECIFICATION Spec
CONSTANTS
  r1 = r1  r2 = r2  s1 = s1  s2 = s2
  Runs = {r1, r2}
  Submissions = {s1, s2}
  None = None
  Pages <- AllKinds
  Extracts <- FramesAndAudio
  YtDlp = TRUE
  Browser = TRUE
  Retention = 2
  LastDay = 2
  MaxAttempts = 1
  MaxCrashes = 1
INVARIANTS NoPartialLeftBehind EvidenceKept NothingLeftAtGemini ListedCanBeRead
SYMMETRY Symmetric
CHECK_DEADLOCK FALSE
