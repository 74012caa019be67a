SPECIFICATION ApiSpec
CONSTANTS
  m = m  s = s  u1 = u1  u2 = u2  a1 = a1  a2 = a2  a3 = a3
  Users = {u1, u2}
  Titles = {m, s}
  kind <- Kinds
  tmdbId <- Apart
  Adds = {a1, a2, a3}
  Routes = {"work", "movie", "custom", "pipeline"}
  Marks = {1}
  Custom = "custom"
  None = None
  Clients = {"phone"}
  MaxErrors = 2
  Minute = 3
  MaxClock = 7
  Never = Never
  Ids = {1, 2, 3}
  Limit = 2
  Ranks = {1, 2}
  PerMs = 2
  Lag = 1
  MaxTime = 2
  Absent = Absent
  Requests = {a1, a2, a3}
  Seasons = {1, 2}
  Version = 5
  Nothing = Nothing
INVARIANTS ChosenButForClashes OneWorkPerTitle MarkedIsMeant SpanBounded RefusedWhenFull NothingSkipped NothingTwice SeasonsComplete FetchedOnce
SYMMETRY Symmetric
CHECK_DEADLOCK FALSE
