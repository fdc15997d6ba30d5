SPECIFICATION ArchivesSpec
CONSTANTS
  g = g  h = h  x = x
  s1 = s1  s2 = s2  t1 = t1  t2 = t2  v1 = v1
  root = root  stray = stray  wrap = wrap  other = other
  NoFile = NoFile  Empty = Empty  Junk = Junk  Broken = Broken
  TopLevel = TopLevel
  DefaultTSA = DefaultTSA  FallbackTSA = FallbackTSA
  Path <- MCOnePath
  CapturePath <- MCCapturePath
  Content = {g}
  GoodCapture = {g}
  SubjectOf <- MCSubjectOf
  Signer = {root}
  Trusted = {root}
  NotBefore <- MCNotBefore
  NotAfter <- MCNotAfter
  Command <- MCCommand
  Sealer = {s1}
  SealOptions = {TRUE, FALSE}
  Stamper = {t1}
  Verifier = {}
  VerifyOptions <- AllOptions
  Second = 1
  MaxTime = 0
  MaxWrites = 1
  MaxNonce = 1
  MaxIssued = 1
  Output <- Outside
  ManifestName <- MCManifestName
  TokenName <- MCTokenName
  Folder = {wrap, other}
  MaxAlter = 1
INVARIANTS
  MissingMeansAbsent
CHECK_DEADLOCK FALSE
