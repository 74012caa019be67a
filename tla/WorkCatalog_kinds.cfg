SPECIFICATION Spec
CONSTANTS
  m = m  s = s  u1 = u1  u2 = u2  a1 = a1  a2 = a2  a3 = a3
  Users = {u1, u2}
  Titles = {m, s}
  kind <- Kinds
  tmdbId <- Alike
  Adds = {a1, a2, a3}
  Routes = {"work", "pipeline"}
  Marks = {1}
  Custom = "custom"
  None = None
INVARIANTS ChosenTitle
CHECK_DEADLOCK FALSE
