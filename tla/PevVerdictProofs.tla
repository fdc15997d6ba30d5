-------------------------- MODULE PevVerdictProofs --------------------------
(***************************************************************************)
(* What holds of the report of pev verify for all constants: the verdict   *)
(* and the lines agree, and the options are honoured.                      *)
(***************************************************************************)
EXTENDS PevTypeProofs

(***************************************************************************)
(* A report has no failed line if its parts have none.                     *)
(***************************************************************************)
LEMMA NoFailureAppended ==
  ASSUME NEW s \in Seq(Check), NEW c \in Check
  PROVE  Failures(Append(s, c)) = {} <=> Failures(s) = {} /\ c.status # "fail"
<1>1. /\ DOMAIN Append(s, c) = 1 .. Len(s) + 1 /\ DOMAIN s = 1 .. Len(s)
      /\ Len(s) \in Nat
      /\ \A i \in 1 .. Len(s) : Append(s, c)[i] = s[i]
      /\ Append(s, c)[Len(s) + 1] = c
  OBVIOUS
<1>2. \A i \in 1 .. Len(s) + 1 : i \in 1 .. Len(s) \/ i = Len(s) + 1
  BY <1>1
<1>3. \A i \in 1 .. Len(s) : i \in 1 .. Len(s) + 1
  BY <1>1
<1>4. Len(s) + 1 \in 1 .. Len(s) + 1
  BY <1>1
<1> HIDE DEF Check
<1> QED BY <1>1, <1>2, <1>3, <1>4 DEF Failures

LEMMA NoFailureJoined ==
  ASSUME NEW s \in Seq(Check), NEW t \in Seq(Check)
  PROVE  Failures(s \o t) = {} <=> Failures(s) = {} /\ Failures(t) = {}
<1>1. /\ DOMAIN (s \o t) = 1 .. Len(s) + Len(t)
      /\ DOMAIN s = 1 .. Len(s) /\ DOMAIN t = 1 .. Len(t)
      /\ Len(s) \in Nat /\ Len(t) \in Nat
      /\ \A i \in 1 .. Len(s) : (s \o t)[i] = s[i]
      /\ \A i \in 1 .. Len(t) : (s \o t)[Len(s) + i] = t[i]
  OBVIOUS
<1>2. ASSUME NEW i \in 1 .. Len(s) + Len(t)
      PROVE  i \in 1 .. Len(s) \/ \E j \in 1 .. Len(t) : i = Len(s) + j
  <2>1. CASE i <= Len(s)
    BY <1>1, <2>1
  <2>2. CASE i > Len(s)
    <3> DEFINE k == i - Len(s)
    <3>1. k \in 1 .. Len(t) /\ i = Len(s) + k
      BY <1>1, <2>2
    <3> HIDE DEF k
    <3> QED BY <3>1
  <2> QED BY <1>1, <2>1, <2>2
<1>3. /\ \A i \in 1 .. Len(s) : i \in 1 .. Len(s) + Len(t)
      /\ \A i \in 1 .. Len(t) : Len(s) + i \in 1 .. Len(s) + Len(t)
  BY <1>1
<1>4. ASSUME Failures(s \o t) = {}
      PROVE  Failures(s) = {} /\ Failures(t) = {}
  <2>1. \A i \in DOMAIN (s \o t) : (s \o t)[i].status # "fail"
    BY <1>4 DEF Failures
  <2>2. ASSUME NEW i \in DOMAIN s PROVE s[i].status # "fail"
    <3>1. i \in DOMAIN (s \o t) /\ (s \o t)[i] = s[i]
      BY <1>1, <1>3
    <3> QED BY <2>1, <3>1
  <2>3. ASSUME NEW i \in DOMAIN t PROVE t[i].status # "fail"
    <3>1. Len(s) + i \in DOMAIN (s \o t) /\ (s \o t)[Len(s) + i] = t[i]
      BY <1>1, <1>3
    <3> QED BY <2>1, <3>1
  <2> QED BY <2>2, <2>3 DEF Failures
<1>5. ASSUME Failures(s) = {}, Failures(t) = {}, NEW i \in DOMAIN (s \o t)
      PROVE  (s \o t)[i].status # "fail"
  <2>1. CASE i \in 1 .. Len(s)
    BY <1>1, <1>5, <2>1 DEF Failures
  <2>2. CASE \E j \in 1 .. Len(t) : i = Len(s) + j
    BY <1>1, <1>5, <2>2 DEF Failures
  <2> QED BY <1>1, <1>2, <2>1, <2>2
<1> QED BY <1>4, <1>5 DEF Failures

\* What checkTimestamp returns is what its lines say.
LEMMA TimestampExplained ==
  ASSUME NEW tsr, NEW file, NEW opts
  PROVE  TimestampOK(tsr, file, opts)
           <=> Failures(TimestampChecks(tsr, file, opts)) = {}
<1>1. \A c : Failures(<<c>>) = {} <=> c.status # "fail"
  BY DEF Failures
<1>2. \A c, d : Failures(<<c, d>>) = {} <=> c.status # "fail" /\ d.status # "fail"
  BY DEF Failures
<1>3. \A n, st : Entry(n, st).status = st
  BY DEF Entry
<1>4. CASE tsr = NoFile /\ opts.requireTimestamp
  <2>1. TimestampChecks(tsr, file, opts) = <<Entry("trusted timestamp", "fail")>>
    BY <1>4 DEF TimestampChecks
  <2> QED BY <1>1, <1>3, <1>4, <2>1 DEF TimestampOK
<1>5. CASE tsr = NoFile /\ ~opts.requireTimestamp
  <2>1. TimestampChecks(tsr, file, opts) = <<Entry("trusted timestamp", "warn")>>
    BY <1>5 DEF TimestampChecks
  <2> QED BY <1>1, <1>3, <1>5, <2>1 DEF TimestampOK
<1>6. CASE tsr # NoFile /\ TokenAccepted(tsr, file, opts)
  <2>1. PICK st \in {"pass", "warn"} :
          TimestampChecks(tsr, file, opts) = <<Entry("trusted timestamp", "pass"),
                                               Entry("timestamp authority", st)>>
    BY <1>6 DEF TimestampChecks
  <2> QED BY <1>2, <1>3, <1>6, <2>1 DEF TimestampOK
<1>7. CASE tsr # NoFile /\ ~TokenAccepted(tsr, file, opts)
  <2>1. TimestampChecks(tsr, file, opts) = <<Entry("trusted timestamp", "fail")>>
    BY <1>7 DEF TimestampChecks
  <2> QED BY <1>1, <1>3, <1>7, <2>1 DEF TimestampOK
<1> QED BY <1>4, <1>5, <1>6, <1>7

(***************************************************************************)
(* The two properties, of one run.                                         *)
(***************************************************************************)
Explained(r) ==
  r.pc \in {"artifacts", "report"} => (r.ok <=> Failures(r.checks) = {})

Honoured(r) ==
  r.pc = "report" /\ r.ok =>
    /\ r.opts.requireTimestamp => r.stamps # {}
    /\ r.opts.roots => \A t \in r.stamps : t.signer \in Trusted

LEMMA ByRun ==
  /\ VerdictIsExplained <=> \A v \in Verifier : Explained(check[v])
  /\ OptionsHonoured <=> \A v \in Verifier : Honoured(check[v])
BY DEF VerdictIsExplained, Explained, OptionsHonoured, Honoured

LEMMA ManifestJudged ==
  ASSUME TypeOK, NEW v \in Verifier,
         VerifyNoManifest(v) \/ VerifyManifest(v)
  PROVE  Explained(check'[v]) /\ Honoured(check'[v])
<1>1. \A n : /\ Failures(<<Entry(n, "fail")>>) # {}
             /\ \A m : Failures(<<Entry(n, "pass"), Entry(m, "pass")>>) = {}
  BY DEF Failures, Entry
<1>2. CASE VerifyNoManifest(v)
  <2>1. /\ check'[v].pc = "report" /\ ~check'[v].ok
        /\ check'[v].checks = <<Entry("manifest", "fail")>>
    BY <1>2 DEF VerifyNoManifest, TypeOK, VerifyType
  <2> QED BY <1>1, <2>1 DEF Explained, Honoured
<1>3. CASE VerifyManifest(v)
  <2>1. /\ check'[v].pc = "artifacts" /\ check'[v].ok
        /\ check'[v].checks = <<Entry("manifest", "pass"),
                                Entry("capture metadata", "pass")>>
    BY <1>3 DEF VerifyManifest, TypeOK, VerifyType
  <2> QED BY <1>1, <2>1 DEF Explained, Honoured
<1> QED BY <1>2, <1>3

LEMMA ArtifactJudged ==
  ASSUME TypeOK, NEW v \in Verifier, Explained(check[v]),
         NEW a \in Path, VerifyArtifact(v, a)
  PROVE  Explained(check'[v]) /\ Honoured(check'[v])
<1> DEFINE now == check[v]
           line == Judged("artifact", Matches(v, a))
<1>1. now \in Reading
  BY VerifyStates DEF TypeOK, VerifyType, VerifyArtifact
<1>2. /\ check'[v].pc = "artifacts"
      /\ check'[v].ok = (now.ok /\ Matches(v, a))
      /\ check'[v].checks = Append(now.checks, line)
  BY <1>1 DEF VerifyArtifact, TypeOK, VerifyType, Reading
<1>3. line \in Check /\ (line.status # "fail" <=> Matches(v, a))
  BY EntryCheck DEF Judged, Entry, Matches
<1>4. now.checks \in Seq(Check) /\ (now.ok <=> Failures(now.checks) = {})
  BY <1>1 DEF Reading, Explained
<1> HIDE DEF line
<1>5. Failures(Append(now.checks, line)) = {}
        <=> Failures(now.checks) = {} /\ line.status # "fail"
  BY <1>3, <1>4, NoFailureAppended
<1> QED BY <1>2, <1>3, <1>4, <1>5 DEF Explained, Honoured

LEMMA ConclusionJudged ==
  ASSUME TypeOK, NEW v \in Verifier, Explained(check[v]), VerifyConclude(v)
  PROVE  Explained(check'[v]) /\ Honoured(check'[v])
<1> DEFINE now == check[v]
           listed == NoUnlisted(now.names, now.file)
           line == Judged("no unlisted content", listed)
           last == TimestampChecks(token, now.file, now.opts)
           good == TimestampOK(token, now.file, now.opts)
           taken == token # NoFile /\ TokenAccepted(token, now.file, now.opts)
<1>1. now \in Reading
  BY VerifyStates DEF TypeOK, VerifyType, VerifyConclude
<1>2. /\ check'[v].pc = "report"
      /\ check'[v].ok = (now.ok /\ listed /\ good)
      /\ check'[v].checks = Append(now.checks, line) \o last
      /\ check'[v].opts = now.opts
      /\ check'[v].stamps = IF taken THEN {ParseResponse(token)} ELSE {}
  BY DEF VerifyConclude, TypeOK, VerifyType
<1>3. line \in Check /\ (line.status # "fail" <=> listed)
  BY EntryCheck DEF Judged, Entry, NoUnlisted
<1>4. /\ now.checks \in Seq(Check) /\ (now.ok <=> Failures(now.checks) = {})
      /\ now.opts \in VerifyOptions
  BY <1>1 DEF Reading, Explained
<1>5. last \in Seq(Check) /\ (good <=> Failures(last) = {})
  BY <1>4, TimestampChecksType, TimestampExplained
<1>6. Honoured(check'[v])
  <2>1. good => /\ now.opts.requireTimestamp => taken
                /\ now.opts.roots /\ taken => ParseResponse(token).signer \in Trusted
    BY DEF TimestampOK, TokenAccepted, TokenVerifies, ChainVerified
  <2> HIDE DEF now, listed, line, last, good, taken
  <2> QED BY <1>2, <2>1 DEF Honoured
<1> HIDE DEF line, last, listed, good
<1>7. Append(now.checks, line) \in Seq(Check)
  BY <1>3, <1>4, CheckSeq
<1>8. Failures(Append(now.checks, line)) = {}
        <=> Failures(now.checks) = {} /\ line.status # "fail"
  BY <1>3, <1>4, NoFailureAppended
<1>9. Failures(Append(now.checks, line) \o last) = {}
        <=> Failures(Append(now.checks, line)) = {} /\ Failures(last) = {}
  BY <1>5, <1>7, NoFailureJoined
<1> QED BY <1>2, <1>3, <1>4, <1>5, <1>6, <1>8, <1>9 DEF Explained

LEMMA VerdictPreserved ==
  ASSUME TypeOK, [Next]_vars, NEW v \in Verifier,
         Explained(check[v]), Honoured(check[v])
  PROVE  Explained(check'[v]) /\ Honoured(check'[v])
<1>1. CASE check'[v] = check[v]
  BY <1>1
<1>2. CASE Verifying(v)
  <2>1. CASE \E opts \in VerifyOptions : VerifyStart(v, opts)
    BY <2>1 DEF VerifyStart, TypeOK, VerifyType, Explained, Honoured
  <2>2. CASE VerifyAbort(v)
    BY <2>2 DEF VerifyAbort, VerifyKilled, TypeOK, VerifyType, Explained,
                Honoured
  <2> QED BY <1>2, <2>1, <2>2, ManifestJudged, ArtifactJudged, ConclusionJudged
             DEF Verifying, VerifyStep
<1>3. ASSUME NEW w \in Verifier \ {v}, Verifying(w)
      PROVE  check'[v] = check[v]
  BY <1>3 DEF Verifying, VerifyStart, VerifyStep, VerifyNoManifest,
              VerifyManifest, VerifyArtifact, VerifyConclude, VerifyAbort,
              TypeOK, VerifyType
<1>4. Environment \/ Authority \/ UNCHANGED vars \/ (\E s \in Sealer : Sealing(s))
        \/ (\E s \in Stamper : Stamping(s)) => check' = check
  BY DEF Environment, Authority, Sealing, Stamping, vars
<1> QED BY <1>1, <1>2, <1>3, <1>4 DEF Next

LEMMA VerdictInit ==
  ASSUME Init, NEW v \in Verifier
  PROVE  Explained(check[v]) /\ Honoured(check[v])
BY DEF Init, VerifyInit, VerifyIdle, Explained, Honoured

\* Both are inductive, given the types.
LEMMA VerdictInvariant == Spec => [](VerdictIsExplained /\ OptionsHonoured)
<1> DEFINE Both == VerdictIsExplained /\ OptionsHonoured
<1>1. Init => Both
  BY VerdictInit, ByRun
<1>2. TypeOK /\ Both /\ [Next]_vars => Both'
  <2> SUFFICES ASSUME TypeOK, Both, [Next]_vars PROVE Both'
    OBVIOUS
  <2>1. \A v \in Verifier : Explained(check'[v]) /\ Honoured(check'[v])
    BY VerdictPreserved, ByRun
  <2> QED BY <2>1 DEF VerdictIsExplained, Explained, OptionsHonoured, Honoured
<1> HIDE DEF Both
<1>3. Spec => []Both
  BY <1>1, <1>2, TypeCorrect, PTL DEF Spec
<1> QED BY <1>3 DEF Both

(***************************************************************************)
(* The verdict of verify and the lines of its report agree, at any point   *)
(* of any run (verify.Bundle and its sub-checks).                          *)
(***************************************************************************)
THEOREM VerdictExplained == Spec => []VerdictIsExplained
BY VerdictInvariant, PTL

(***************************************************************************)
(* A report that passes has what its options ask for: with                 *)
(* -require-timestamp a token, with -tsa-roots only tokens of an authority *)
(* under those roots (checkTimestamp; Token.Verify).                       *)
(***************************************************************************)
THEOREM OptionsAreHonoured == Spec => []OptionsHonoured
BY VerdictInvariant, PTL
=============================================================================
