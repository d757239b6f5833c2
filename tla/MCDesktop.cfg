SPECIFICATION DesktopSpec
CONSTANTS
  Pid = {1, 2}
  Sweepers = 2
  MaxSwitches = 1
  f1 = f1
  MaxRows = 3
  f2 = f2
  Path = {f1, f2}
  MaxConns = 2
  MaxTemplateEdits = 2
  MaxTemplateFaults = 1
  MaxCommands = 2
  Candidates = 3
  Instances = 2
  r1 = r1
  r2 = r2
  Resolver = {r1, r2}
  Targets = 3
  FlushSize = 2
  Urls = 1
  MaxMishaps = 1
  Port = {1, 2, 3}
  ApiPort = 3
  MaxReuses = 1
INVARIANTS
  DesktopTypeOK
  ProxiesAreTracked
  HandlesInUse
  BuildsSurvive
  SyncMarkIsTrue
  JobsReportTruth
PROPERTIES
  SessionsEnd
  RequestsAreMet
CHECK_DEADLOCK FALSE
