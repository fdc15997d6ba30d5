SPECIFICATION Spec
CONSTANTS
  g = g  h = h  x = x
  s1 = s1  s2 = s2  t1 = t1  t2 = t2  v1 = v1
  root = root  stray = stray
  NoFile = NoFile  Empty = Empty  Junk = Junk
  DefaultTSA = DefaultTSA  FallbackTSA = FallbackTSA
  Path <- MCOnePath
  CapturePath <- MCCapturePath
  Content = {g}
  GoodCapture = {g}
  SubjectOf <- MCSubjectOf
  Signer = {root, stray}
  Trusted = {root}
  NotBefore <- MCNotBefore
  NotAfter <- MCNotAfter
  Command <- MCCommand
  Sealer = {s1}
  SealOptions = {FALSE}
  Stamper = {t1, t2}
  Verifier = {}
  VerifyOptions <- AllOptions
  Second = 1
  MaxTime = 1
  MaxWrites = 1
  MaxNonce = 2
  MaxIssued = 2
INVARIANTS
  StoredTokenAnswersRequest
  StampedTokenVerifies
  StampInv
CHECK_DEADLOCK FALSE
