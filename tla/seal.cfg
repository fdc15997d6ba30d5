SPECIFICATION Spec
CONSTANTS
  g = g  h = h  x = x
  s1 = s1  s2 = s2  t1 = t1  t2 = t2  v1 = v1
  root = root  stray = stray
  NoFile = NoFile  Empty = Empty  Junk = Junk
  DefaultTSA = DefaultTSA  FallbackTSA = FallbackTSA
  Path <- MCPath
  CapturePath <- MCCapturePath
  Content = {g, h}
  GoodCapture = {g, h}
  SubjectOf <- MCSubjectOf
  Signer = {root}
  Trusted = {root}
  NotBefore <- MCNotBefore
  NotAfter <- MCNotAfter
  Command <- MCCommand
  Sealer = {s1, s2}
  SealOptions = {TRUE, FALSE}
  Stamper = {}
  Verifier = {}
  VerifyOptions <- AllOptions
  Second = 2
  MaxTime = 2
  MaxWrites = 1
  MaxNonce = 0
  MaxIssued = 0
INVARIANTS
  TypeOK
  SealCoversDirectory
  SealedAtIsLast
  RacingSealsAgree
  SameCaptureSameId
  SealInv
CHECK_DEADLOCK FALSE
