\* One run, four requests of any kind, failures and a shutdown.
SPECIFICATION Spec
CONSTANTS
  p = p  q = q  s = s  t = t  old = old  new = new
  Requests = {p, q, s, t}  Ops = {"run", "stop", "continue", "cancel", "settings"}
  MaxRuns = 1  Modes = {"full", "scan"}
  Configs = {old, new}  Config0 = old  None = None
  Flaky = TRUE  ShutsDown = TRUE
SYMMETRY Symmetric
INVARIANTS TypeOK EngineKeepsClients IndexIsSynced
PROPERTIES StopIsWished
