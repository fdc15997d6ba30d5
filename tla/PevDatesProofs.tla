--------------------------- MODULE PevDatesProofs --------------------------
(***************************************************************************)
(* Pev implements DatedEvidence, for all constants; and DatedEvidence      *)
(* keeps its promise.                                                      *)
(***************************************************************************)
EXTENDS PevEvidenceProofs, PevDates

\* What is listed by what is dated, are items that existed.
LEMMA DatedItems ==
  ASSUME NEW listing \in Listing, NEW t \in Nat, Dated(listing, t)
  PROVE  Items(listing) \in SUBSET (Path \X Content) /\ D!AllExisted(Items(listing), t)
<1>1. ASSUME NEW a \in DOMAIN listing
      PROVE  /\ <<a, Bytes(listing[a])>> \in Path \X Content
             /\ \E e \in seen : e[1] = a /\ e[2] = Bytes(listing[a]) /\ e[3] <= t
  <2>1. PICK c \in Content : listing[a] = Sha256(c) /\ Existed(a, c, t)
    BY DEF Dated
  <2>2. Bytes(listing[a]) = c
    BY <2>1, BytesOfDigest
  <2>3. a \in Path
    BY DEF Listing
  <2> QED BY <2>1, <2>2, <2>3 DEF Existed
<1> QED BY <1>1 DEF Items, D!AllExisted

\* Nothing that was vouched for changes, and no report.
Untold == UNCHANGED <<issued, check>>

LEMMA UntoldLeaves ==
  ASSUME Untold
  PROVE  UNCHANGED <<Vouched, [v \in Verifier |-> Told(check[v])]>>
BY DEF Untold, Vouched, VouchedBy, Vouching, Told

LEMMA StutterImplements ==
  ASSUME Untold, UNCHANGED <<clock, seen>>
  PROVE  [D!Next]_(D!dateVars)
BY UntoldLeaves DEF D!dateVars

LEMMA EnvironmentImplements ==
  ASSUME TypeOK, Environment
  PROVE  [D!Next]_(D!dateVars)
<1>1. Untold
  BY DEF Environment, stamping, Untold
<1>2. ASSUME NEW a \in Path, NEW c \in Content \cup {NoFile}, WorkerWrite(a, c)
      PROVE  [D!Next]_(D!dateVars)
  <2>1. clock' = clock
    BY <1>2 DEF WorkerWrite
  <2>2. CASE seen' = seen
    BY <1>1, <2>1, <2>2, StutterImplements
  <2>3. CASE seen' # seen
    <3>1. c \in Content /\ seen' = seen \cup {<<a, c, clock>>}
      BY <1>2, <2>3 DEF WorkerWrite
    <3>2. D!Appear(a, c)
      BY <1>1, <2>1, <3>1, UntoldLeaves DEF D!Appear
    <3> QED BY <3>1, <3>2 DEF D!Next
  <2> QED BY <2>2, <2>3
<1>3. ASSUME \/ \E a \in Path : EditManifest(a)
             \/ \E x \in {NoFile, Junk} : DamageManifest(x)
             \/ ClearDirectory
      PROVE  UNCHANGED <<clock, seen>>
  BY <1>3 DEF EditManifest, DamageManifest, ClearDirectory
<1>4. CASE Tick
  <2>1. D!Pass
    BY <1>1, <1>4, UntoldLeaves DEF Tick, D!Pass
  <2> QED BY <2>1 DEF D!Next
<1> QED BY <1>1, <1>2, <1>3, <1>4, StutterImplements DEF Environment

\* An authority under the roots only vouches for a manifest whose digest was sent
\* to it; what others sign, and what is not a manifest, vouches for nothing.
LEMMA IssueImplements ==
  ASSUME TypeOK, EvidenceInv, Signing, UNCHANGED <<seal, check>>
  PROVE  [D!Next]_(D!dateVars)
<1> PICK t \in Token :
      /\ Signed(t)
      /\ t.signer \in Trusted =>
           /\ [digest |-> t.imprint, nonce |-> t.nonce] \in sent
           /\ t.genTime <= clock /\ clock <= SecondAfter(t.genTime)
  BY SigningSigns
<1> DEFINE file == Bytes(t.imprint)
           items == Items(ParseManifest(file).artifacts)
<1>1. issued' = issued \cup {t} /\ UNCHANGED <<clock, seen, check>>
  BY IssuingLeaves DEF Signed
<1>2. UNCHANGED [v \in Verifier |-> Told(check[v])]
  BY <1>1 DEF Told
<1>3. CASE ~(t.signer \in Trusted /\ ManifestParses(file))
  <2>1. Vouching' = Vouching
    BY <1>1, <1>3 DEF Vouching
  <2>2. Vouched' = Vouched
    BY <2>1 DEF Vouched, VouchedBy
  <2> QED BY <1>1, <1>2, <2>2 DEF D!dateVars
<1>4. CASE t.signer \in Trusted /\ ManifestParses(file)
  <2>1. Vouching' = Vouching \cup {t}
    BY <1>1, <1>4 DEF Vouching
  <2>2. VouchedBy(t) = <<items, t.genTime>>
    BY DEF VouchedBy
  <2>3. Vouched' = Vouched \cup {<<items, t.genTime>>}
    BY <2>1, <2>2 DEF Vouched, VouchedBy
  <2>4. ParseManifest(file).artifacts \in Listing
    <3>1. t.imprint \in ManifestDigest
      BY DEF Token
    <3>2. file \in ManifestFile
      BY <3>1 DEF Bytes, ManifestDigest
    <3> QED BY <1>4, <3>2 DEF ManifestFile, ManifestParses, ParseManifest, Manifest
  <2>5. Dated(ParseManifest(file).artifacts, clock) /\ clock \in Nat
    <3> DEFINE r == [digest |-> t.imprint, nonce |-> t.nonce]
    <3>1. r \in sent /\ r.digest = t.imprint
      BY <1>4
    <3>2. FileDated(Bytes(r.digest), clock)
      BY <3>1 DEF EvidenceInv, Provenance
    <3> QED BY <1>4, <3>1, <3>2 DEF FileDated, TypeOK, WorkspaceType
  <2>6. items \in SUBSET D!Item /\ D!AllExisted(items, clock)
    BY <2>4, <2>5, DatedItems DEF D!Item
  <2>7. t.genTime \in 0 .. clock /\ clock < t.genTime + Second
    BY <1>4, <2>5, SecondAssumption DEF Token, SecondAfter
  <2>8. D!Vouch(items, t.genTime)
    BY <1>1, <1>2, <2>3, <2>6, <2>7 DEF D!Vouch
  <2> QED BY <2>6, <2>7, <2>8 DEF D!Next
<1> QED BY <1>3, <1>4

\* Until it has a report, a verification tells nothing.
LEMMA VerifyingTellsNothing ==
  ASSUME TypeOK, NEW v \in Verifier, Verifying(v), ~VerifyConclude(v)
  PROVE  Told(check[v]) = {} /\ Told(check'[v]) = {}
<1>0. check \in [Verifier -> VerifyState]
  BY DEF TypeOK, VerifyType
<1>1. ASSUME NEW opts \in VerifyOptions, VerifyStart(v, opts)
      PROVE  check[v].pc = "idle" /\ check'[v].pc = "listed"
  BY <1>0, <1>1 DEF VerifyStart
<1>2. ASSUME VerifyAbort(v)
      PROVE  check[v].pc # "report" /\ check'[v].pc = "killed"
  BY <1>0, <1>2 DEF VerifyAbort, VerifyKilled
<1>3. ASSUME VerifyNoManifest(v)
      PROVE  check[v].pc = "listed" /\ check'[v].stamps = {}
  BY <1>0, <1>3 DEF VerifyNoManifest
<1>4. ASSUME VerifyManifest(v)
      PROVE  check[v].pc = "listed" /\ check'[v].pc = "artifacts"
  BY <1>0, <1>4 DEF VerifyManifest
<1>5. ASSUME NEW a \in Path, VerifyArtifact(v, a)
      PROVE  check[v].pc = "artifacts" /\ check'[v].pc = "artifacts"
  <2>1. check[v] \in Reading
    BY <1>0, <1>5, VerifyStates DEF VerifyArtifact
  <2> QED BY <1>0, <1>5, <2>1 DEF VerifyArtifact, Reading
<1> QED BY <1>1, <1>2, <1>3, <1>4, <1>5 DEF Verifying, VerifyStep, Told

\* What is told in the end is part of what the accepted token vouches for.
LEMMA ConcludeImplements ==
  ASSUME TypeOK, EvidenceInv, NEW v \in Verifier, VerifyConclude(v),
         Accounted(check[v])
  PROVE  [D!Next]_(D!dateVars)
<1> DEFINE now == check[v]
           later == check'[v]
           told == [w \in Verifier |-> Told(check[w])]
           items == Items(now.accepted)
<1>0. /\ now \in Reading /\ now.pc = "artifacts"
      /\ check \in [Verifier -> VerifyState]
  BY VerifyStates DEF VerifyConclude, TypeOK, VerifyType
<1>1. /\ later.pc = "report" /\ later.accepted = now.accepted
      /\ later.opts = now.opts
      /\ later.stamps = IF token # NoFile
                           /\ TokenAccepted(token, now.file, now.opts)
                        THEN {ParseResponse(token)} ELSE {}
      /\ \A w \in Verifier \ {v} : check'[w] = check[w]
  BY <1>0 DEF VerifyConclude
<1>2. Told(now) = {}
  BY <1>0 DEF Told
<1>3. UNCHANGED <<clock, seen, issued>>
  BY DEF VerifyConclude, workspace, stamping
<1>4. Vouched' = Vouched
  BY <1>3 DEF Vouched, VouchedBy, Vouching
<1>5. told' = [told EXCEPT ![v] = Told(later)]
  <2>1. \A w \in Verifier \ {v} : Told(check'[w]) = Told(check[w])
    BY <1>1
  <2> QED BY <2>1
<1>6. CASE later.stamps = {} \/ ~later.opts.roots
  <2>1. Told(later) = {}
    BY <1>6 DEF Told
  <2>2. told' = told
    BY <1>2, <1>5, <2>1
  <2> QED BY <1>3, <1>4, <2>2 DEF D!dateVars
<1>7. CASE later.stamps # {} /\ later.opts.roots
  <2> DEFINE t == ParseResponse(token)
  <2>1. later.stamps = {t} /\ TokenAccepted(token, now.file, now.opts)
    BY <1>1, <1>7
  <2>2. t \in issued /\ t.imprint = Sha256(now.file) /\ t.signer \in Trusted
    BY <1>1, <1>7, <2>1
       DEF EvidenceInv, Provenance, TokenAccepted, ResponseParses, TokenVerifies,
           ChainVerified
  <2>3. Bytes(t.imprint) = now.file
    BY <2>2, BytesOfDigest
  <2>4. t \in Vouching
    BY <2>2, <2>3 DEF Vouching, Accounted
  <2>5. VouchedBy(t) \in Vouched
    BY <2>4 DEF Vouched
  <2>6. VouchedBy(t) = <<Items(ParseManifest(now.file).artifacts), t.genTime>>
    BY <2>3 DEF VouchedBy
  <2>7. items \subseteq Items(ParseManifest(now.file).artifacts)
    BY DEF Accounted, Items
  <2>8. Told(later) = {<<items, t.genTime>>}
    BY <1>1, <1>7, <2>1 DEF Told
  <2>9. items \in SUBSET D!Item
    <3>1. now.accepted \in Listing
      BY <1>0 DEF Reading
    <3>2. ASSUME NEW a \in DOMAIN now.accepted
          PROVE  <<a, Bytes(now.accepted[a])>> \in Path \X Content
      BY <3>1, BytesOfDigest DEF Listing, ArtefactDigest
    <3> QED BY <3>2 DEF Items, D!Item
  <2>10. D!Report(v, VouchedBy(t), items)
    BY <1>2, <1>3, <1>4, <1>5, <2>6, <2>7, <2>8 DEF D!Report
  <2> QED BY <2>5, <2>9, <2>10 DEF D!Next
<1> QED BY <1>6, <1>7

LEMMA VerifyingImplements ==
  ASSUME TypeOK, EvidenceInv, NEW v \in Verifier, Verifying(v)
  PROVE  [D!Next]_(D!dateVars)
<1>1. CASE VerifyConclude(v)
  <2>1. Accounted(check[v])
    BY <1>1 DEF VerifyConclude, EvidenceInv
  <2> QED BY <1>1, <2>1, ConcludeImplements
<1>2. CASE ~VerifyConclude(v)
  <2>1. UNCHANGED <<clock, seen, issued>>
    BY VerifyingLeaves
  <2>2. \A w \in Verifier : Told(check'[w]) = Told(check[w])
    BY <1>2, VerifyingTellsNothing, VerifyingLeaves DEF TypeOK
  <2>3. UNCHANGED [w \in Verifier |-> Told(check[w])]
    BY <2>2
  <2>4. Vouched' = Vouched
    BY <2>1 DEF Vouched, VouchedBy, Vouching
  <2> QED BY <2>1, <2>3, <2>4 DEF D!dateVars
<1> QED BY <1>1, <1>2

LEMMA StepImplements ==
  ASSUME TypeOK, EvidenceInv, [Next]_vars
  PROVE  [D!Next]_(D!dateVars)
<1>1. CASE Authority
  <2>1. ASSUME Signing
        PROVE  [D!Next]_(D!dateVars)
    BY <1>1, <2>1, IssueImplements DEF Authority
  <2>2. ASSUME NEW x, ReplaceToken(x)
        PROVE  [D!Next]_(D!dateVars)
    BY <1>1, <2>2, ReplacingLeaves, StutterImplements DEF Authority, Untold
  <2> QED BY <1>1, <2>1, <2>2 DEF Authority
<1>2. ASSUME NEW s \in Sealer, Sealing(s)
      PROVE  [D!Next]_(D!dateVars)
  BY <1>2, SealingLeaves, StutterImplements DEF Untold
<1>3. ASSUME NEW s \in Stamper, Stamping(s)
      PROVE  [D!Next]_(D!dateVars)
  BY <1>3, StampingLeaves, StutterImplements DEF Untold
<1>4. CASE UNCHANGED vars
  BY <1>4, StutteringLeaves, StutterImplements DEF Untold
<1> QED BY <1>1, <1>2, <1>3, <1>4, EnvironmentImplements, VerifyingImplements DEF Next

LEMMA InitImplements == Init => D!Init
<1> SUFFICES ASSUME Init PROVE D!Init
  OBVIOUS
<1>1. seen \subseteq Path \X Content \X {0}
  <2>1. \A a \in Present : <<a, files[a], 0>> \in Path \X Content \X {0}
    BY DEF Init, WorkspaceInit, Present
  <2> QED BY <2>1 DEF Init, WorkspaceInit
<1>2. Vouched = {}
  BY DEF Init, StampInit, Vouched, Vouching
<1>3. [v \in Verifier |-> Told(check[v])] = [v \in Verifier |-> {}]
  BY DEF Init, VerifyInit, VerifyIdle, Told
<1> QED BY <1>1, <1>2, <1>3 DEF Init, WorkspaceInit, D!Init

(***************************************************************************)
(* The program implements what it is for: no step of any command, of the   *)
(* authority or of anybody else vouches for bytes that do not exist yet,   *)
(* tells a reader who was given roots more than was vouched for, or takes  *)
(* it back.                                                                *)
(***************************************************************************)
THEOREM DatesEvidence == Spec => ImplementsDatedEvidence
BY InitImplements, StepImplements, TypeCorrect, EvidenceInvariant, PTL
   DEF Spec, ImplementsDatedEvidence, D!Spec

\* Why DatedEvidence keeps its promise, as an inductive invariant of it.
Kept ==
  /\ clock \in Nat /\ seen \subseteq Path \X Content \X Nat
  /\ \A w \in Vouched : D!AllExisted(w[1], w[2] + Second - 1)
  /\ D!Promise

\* What existed goes on having existed.
LEMMA StillExisted ==
  ASSUME NEW items, NEW t, D!AllExisted(items, t), seen \subseteq seen'
  PROVE  D!AllExisted(items, t)'
BY DEF D!AllExisted

LEMMA KeptPreserved ==
  ASSUME Kept, [D!Next]_(D!dateVars)
  PROVE  Kept'
<1> DEFINE told == [v \in Verifier |-> Told(check[v])]
<1>0. /\ \A w \in Vouched : D!AllExisted(w[1], w[2] + Second - 1)
      /\ \A r \in Verifier :
           \A d \in told[r] : D!AllExisted(d[1], d[2] + Second - 1)
  BY DEF Kept, D!Promise
<1>1. ASSUME UNCHANGED <<Vouched, told>>, seen \subseteq seen', clock' \in Nat,
             seen' \subseteq Path \X Content \X Nat
      PROVE  Kept'
  <2>1. \A w \in Vouched' : D!AllExisted(w[1], w[2] + Second - 1)'
    BY <1>0, <1>1, StillExisted
  <2>2. \A r \in Verifier :
          \A d \in told'[r] : D!AllExisted(d[1], d[2] + Second - 1)'
    BY <1>0, <1>1, StillExisted
  <2> QED BY <1>1, <2>1, <2>2 DEF Kept, D!Promise
<1>2. ASSUME NEW items \in SUBSET D!Item, NEW t \in 0 .. clock, D!Vouch(items, t)
      PROVE  Kept'
  <2> DEFINE end == t + Second - 1
  <2>0. clock \in Nat /\ clock <= end /\ end \in Nat
    BY <1>2, SecondAssumption DEF D!Vouch, Kept
  <2>a. D!AllExisted(items, end)
    BY <1>2, <2>0 DEF D!Vouch, D!AllExisted, Kept
  <2>1. D!AllExisted(items, end)' /\ clock' = clock /\ seen' = seen
    BY <1>2, <2>a, StillExisted DEF D!Vouch
  <2>2. \A w \in Vouched : D!AllExisted(w[1], w[2] + Second - 1)'
    BY <1>0, <1>2, StillExisted DEF D!Vouch
  <2>3. \A w \in Vouched' : D!AllExisted(w[1], w[2] + Second - 1)'
    BY <1>2, <2>1, <2>2 DEF D!Vouch
  <2>4. \A r \in Verifier :
          \A d \in told'[r] : D!AllExisted(d[1], d[2] + Second - 1)'
    BY <1>0, <1>2, StillExisted DEF D!Vouch
  <2> QED BY <1>2, <2>1, <2>3, <2>4 DEF D!Vouch, Kept, D!Promise
<1>3. ASSUME NEW r \in Verifier, NEW w \in Vouched, NEW items, D!Report(r, w, items)
      PROVE  Kept'
  <2>1. UNCHANGED <<seen, clock, Vouched>>
    BY <1>3 DEF D!Report
  <2>2. D!AllExisted(items, w[2] + Second - 1)'
    BY <1>0, <1>3, <2>1 DEF D!AllExisted, D!Report
  <2>3. \A v \in Verifier : told'[v] = IF v = r THEN {<<items, w[2]>>} ELSE told[v]
    BY <1>3 DEF D!Report
  <2>4. \A v \in Verifier :
          \A d \in told'[v] : D!AllExisted(d[1], d[2] + Second - 1)'
    BY <1>0, <2>1, <2>2, <2>3 DEF D!AllExisted
  <2>5. \A y \in Vouched' : D!AllExisted(y[1], y[2] + Second - 1)'
    BY <1>0, <2>1 DEF D!AllExisted
  <2> QED BY <2>1, <2>4, <2>5 DEF Kept, D!Promise
<1>4. CASE D!Pass
  BY <1>1, <1>4 DEF D!Pass, Kept
<1>5. ASSUME NEW a \in Path, NEW c \in Content, D!Appear(a, c)
      PROVE  Kept'
  BY <1>1, <1>5 DEF D!Appear, Kept
<1>6. CASE UNCHANGED D!dateVars
  BY <1>1, <1>6 DEF D!dateVars, Kept
<1> QED BY <1>2, <1>3, <1>4, <1>5, <1>6 DEF D!Next

(***************************************************************************)
(* Hence the promise of DatedEvidence is kept by the program, by the       *)
(* abstract argument alone: time and history only grow, and a report is a  *)
(* part of something that was vouched for while it was there.              *)
(***************************************************************************)
THEOREM PromiseKept == Spec => []D!Promise
<1>1. D!Init => Kept
  BY DEF D!Init, Kept, D!Promise
<1>2. Kept => D!Promise
  BY DEF Kept
<1> QED BY <1>1, <1>2, KeptPreserved, DatesEvidence, PTL
        DEF ImplementsDatedEvidence, D!Spec
=============================================================================
