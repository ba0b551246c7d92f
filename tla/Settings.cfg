\* Two runs at most, settings saved around them, an update and a shutdown.
SPECIFICATION FairSpec
CONSTANTS
  p = p  q = q  s = s  t = t  old = old  new = new
  Requests = {p, q, s}  Ops = {"run", "settings", "update"}
  MaxRuns = 2  Modes = {"full"}
  Configs = {old, new}  Config0 = old  None = None
  Flaky = FALSE  ShutsDown = TRUE
INVARIANTS SavedIsLive UpdateWaits
PROPERTY RunsFinish
