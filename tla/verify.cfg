SPECIFICATION Spec
CONSTANTS
  g = g  h = h  x = x
  s1 = s1  s2 = s2  t1 = t1  t2 = t2  v1 = v1
  root = root  stray = stray
  NoFile = NoFile  Empty = Empty  Junk = Junk
  DefaultTSA = DefaultTSA  FallbackTSA = FallbackTSA
  Path <- MCPath
  CapturePath <- MCCapturePath
  Content = {g, x}
  GoodCapture = {g}
  SubjectOf <- MCSubjectOf
  Signer = {root, stray}
  Trusted = {root}
  NotBefore <- MCNotBefore
  NotAfter <- MCNotAfter
  Command <- MCCommand
  Sealer = {s1}
  SealOptions = {TRUE, FALSE}
  Stamper = {t1}
  Verifier = {v1}
  VerifyOptions <- AllOptions
  Second = 1
  MaxTime = 0
  MaxWrites = 1
  MaxNonce = 1
  MaxIssued = 1
INVARIANTS
  VerdictIsRight
  VerdictIsExplained
  OptionsHonoured
  QuietInv
CHECK_DEADLOCK FALSE
