SPECIFICATION ArchivesSpec
CONSTANTS
  g = g  h = h  x = x
  s1 = s1  s2 = s2  t1 = t1  t2 = t2  v1 = v1
  root = root  stray = stray  wrap = wrap  other = other
  NoFile = NoFile  Empty = Empty  Junk = Junk  Broken = Broken
  TopLevel = TopLevel
  DefaultTSA = DefaultTSA  FallbackTSA = FallbackTSA
  Path <- ArchivePath
  CapturePath <- MCCapturePath
  Content = {g, x}
  GoodCapture = {g}
  SubjectOf <- MCSubjectOf
  Signer = {root}
  Trusted = {root}
  NotBefore <- MCNotBefore
  NotAfter <- MCNotAfter
  Command <- MCCommand
  Sealer = {s1}
  SealOptions = {TRUE, FALSE}
  Stamper = {}
  Verifier = {}
  VerifyOptions <- AllOptions
  Second = 1
  MaxTime = 0
  MaxWrites = 0
  MaxNonce = 0
  MaxIssued = 0
  Output <- Inside
  ManifestName <- MCManifestName
  TokenName <- MCTokenName
  Folder = {wrap, other}
  MaxAlter = 1
INVARIANTS
  ArchiveVerifiesAlike
CHECK_DEADLOCK FALSE
