SPECIFICATION TokenSpec
CONSTANTS
  ca = ca  mid = mid  old = old  new = new  plain = plain
  d = d  e = e
  Cert = {ca, mid, old, new, plain}
  KeyOf <- MCKeyOf
  SkiOf <- MCKeyOf
  SerialOf <- MCSerialOf
  IssuerOf <- MCIssuerOf
  TsaCert = {old, new}
  NotBefore <- MCNotBefore
  NotAfter <- MCNotAfter
  Root = {ca}
  Digest = {d, e}
  Nonce = {1}
  NoDigest = NoDigest
  NoNonce = NoNonce
  HashAlg = {"sha1", "sha256"}
  OtherAlg = OtherAlg
  BadTime = BadTime
  OtherBytes = OtherBytes  NoBytes = NoBytes
  Options <- Asked
  MaxTime = 1
  MaxBend = 1
INVARIANTS
  AcceptedWasIssued
  IntactIsJudgedRight
  DefectIsNamed
  JudgedAsPlain
CHECK_DEADLOCK FALSE
