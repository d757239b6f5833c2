SPECIFICATION BackgroundSpec
CONSTANTS
  t1 = t1
  t2 = t2
  Proc = {t1, t2}
  Steps = 2
  MaxTasks = 2
  u1 = u1
  u2 = u2
  s1 = s1
  s2 = s2
  Updater = {u1, u2}
  Sub = {s1, s2}
  GitHub = {s1}
  Names = {"a"}
  MaxEdits = 1
  Index = {1, 2}
  MaxFaults = 1
  p1 = p1
  p2 = p2
  w1 = w1
  Proxy = {p1, p2}
  Direct = {p2}
  Worker = {w1}
  PruneStreak = 1
  MaxCrashes = 1
  MaxLosses = 1
  o1 = o1
  o2 = o2
  Outbound = {o1, o2}
  Attempts = 2
  MaxInjections = 2
  MaxBreaks = 2
  Protocol = {"vless", "vmess", "trojan", "shadowsocks", "socks", "http", "hysteria", "tuic", "wireguard", "ssr"}
  Network = {"tcp", "ws", "grpc", "kcp", "xhttp", "splithttp", "h2", ""}
  TlsKind = {"", "tls", "reality", "false"}
  Cipher = {"", "aes-128-gcm", "2022-blake3"}
  MaxMissing = 2
  LinkType = {"1", "3", "5", "6", "7", "8", "10"}
  LinkNetwork = {"ws", "splithttp", ""}
  LinkTls = {"", "tls", "reality"}
  OddColumn = {"id", "remarks", "path", "requesthost"}
  MaxLines = 2
  i1 = i1
  i2 = i2
  Importer = {i1, i2}
  Window = i1
  Stem = {"", "a"}
  MaxFileLines = 2
  MaxImports = 2
  MaxImportFaults = 1
  MaxDeletes = 1
  h1 = h1
  l1 = l1
  v1 = v1
  v2 = v2
  Reporter = {h1}
  Launch = {l1}
  Watch = {v1, v2}
  SubBatchSize = 2
  FlushRetries = 1
  MaxReports = 1
  MaxHistoryFaults = 1
INVARIANTS
  BackgroundTypeOK
  RecordedWasDone
  SubscriptionsAreTrue
  TablesAreTrue
  InjectionIsTrue
  BothWaysAgree
  LinksAreReadBack
  NothingLeaks
PROPERTIES
  RemovalCompletes
  KeptIsNotRepeated
  OnlyTheUserEnables
CHECK_DEADLOCK FALSE
