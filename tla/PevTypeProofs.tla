---------------------------- MODULE PevTypeProofs ---------------------------
(***************************************************************************)
(* What holds of Pev for all constants: type correctness, and what the     *)
(* steps of each party leave alone.                                        *)
(***************************************************************************)
EXTENDS Pev, TLAPS

(***************************************************************************)
(* Listings.                                                               *)
(***************************************************************************)

\* The listing that Seal starts from is a listing.
LEMMA NoEntryListing == NoEntry \in Listing /\ DOMAIN NoEntry = {}
BY DEF NoEntry, Listing

\* A listing with an entry more is a listing, and not an empty one.
LEMMA WithEntryListing ==
  ASSUME NEW l \in Listing, NEW a \in Path, NEW d \in ArtefactDigest
  PROVE  /\ WithEntry(l, a, d) \in Listing
         /\ DOMAIN WithEntry(l, a, d) = DOMAIN l \cup {a}
         /\ \A b \in DOMAIN WithEntry(l, a, d) :
              WithEntry(l, a, d)[b] = IF b = a THEN d ELSE l[b]
BY DEF WithEntry, Listing

\* A listing that is not the one Seal starts from has an entry.
LEMMA NonEmptyListing ==
  ASSUME NEW l \in Listing, l # NoEntry
  PROVE  DOMAIN l # {}
BY DEF NoEntry, Listing

(***************************************************************************)
(* What os.WriteFile leaves in a file: nothing if the file was removed     *)
(* meanwhile, and otherwise the value written, with or without a tail.     *)
(***************************************************************************)
FileOf(V) == [data : V, rest : Seq(V \cup {Junk})]

LEMMA OverlaysFile ==
  ASSUME NEW V, NEW x \in V, NEW old \in Sentinel \cup FileOf(V)
  PROVE  \A f \in Overlays(x, old) :
           f = NoFile \/ (f \in FileOf(V) /\ f.data = x)
<1> DEFINE Left(y) == [data |-> x, rest |-> <<y>>]
<1>1. Whole(x) \in FileOf(V) /\ Whole(x).data = x
  BY DEF Whole, FileOf
<1>2. \A y \in V \cup {Junk} : Left(y) \in FileOf(V) /\ Left(y).data = x
  BY DEF FileOf
<1> HIDE DEF Left
<1>3. CASE old = NoFile
  BY <1>3, EvidenceAssumption DEF Overlays
<1>4. CASE old = Empty
  BY <1>4, <1>1, EvidenceAssumption DEF Overlays
<1>5. CASE old = Junk
  <2>1. Overlays(x, old) = {Whole(x), Left(Junk)}
    BY <1>5, EvidenceAssumption DEF Overlays, Left
  <2> QED BY <2>1, <1>1, <1>2
<1>6. CASE old \notin Sentinel
  <2>1. old \in FileOf(V)
    BY <1>6
  <2>2. CASE old.data = x
    BY <2>1, <2>2, <1>6 DEF Overlays, Sentinel
  <2>3. CASE old.data # x
    <3>1. Range(old.rest) \subseteq V \cup {Junk}
      BY <2>1 DEF Range, FileOf
    <3>2. old.data \in V
      BY <2>1 DEF FileOf
    <3>3. Overlays(x, old)
            = {Whole(x)} \cup {Left(y) : y \in {old.data} \cup Range(old.rest)}
      BY <2>3, <1>6 DEF Overlays, Sentinel, Left
    <3> QED BY <3>1, <3>2, <3>3, <1>1, <1>2
  <2> QED BY <2>2, <2>3
<1> QED BY <1>3, <1>4, <1>5, <1>6 DEF Sentinel

LEMMA OverlaysManifest ==
  ASSUME NEW x \in Manifest, NEW old \in ManifestFile,
         NEW f \in Overlays(x, old)
  PROVE  /\ f \in ManifestFile
         /\ ManifestParses(f) => ParseManifest(f) = x
BY OverlaysFile, SentinelAssumption
   DEF ManifestFile, FileOf, ManifestParses, ParseManifest, Sentinel

LEMMA OverlaysToken ==
  ASSUME NEW x \in Token, NEW old \in TokenFile,
         NEW f \in Overlays(x, old)
  PROVE  /\ f \in TokenFile
         /\ f \notin Sentinel => f.data = x
BY OverlaysFile, TokenSentinelAssumption DEF TokenFile, FileOf, Sentinel

\* The second that an instant is in begins before it, and ends after it.
LEMMA TruncateBounds ==
  ASSUME NEW t \in Nat
  PROVE  /\ Truncate(t) \in Nat
         /\ Truncate(t) <= t /\ t <= SecondAfter(Truncate(t))
BY SecondAssumption DEF Truncate, SecondAfter

(***************************************************************************)
(* Type correctness, party by party.                                       *)
(***************************************************************************)
LEMMA EnvironmentType ==
  ASSUME TypeOK, Environment
  PROVE  TypeOK'
<1> USE DEF TypeOK
<1>1. SealType' /\ StampType' /\ VerifyType'
  BY DEF Environment, SealType, StampType, VerifyType, stamping
<1>2. ASSUME NEW a \in Path, NEW c \in Content \cup {NoFile}, WorkerWrite(a, c)
      PROVE  WorkspaceType'
  BY <1>2 DEF WorkspaceType, WorkerWrite, WrittenFromOutside
<1>3. ASSUME NEW a \in Path, EditManifest(a)
      PROVE  WorkspaceType'
  <2> DEFINE m == ParseManifest(manifest)
             l == WithEntry(m.artifacts, a, Sha256(files[a]))
  <2>1. m \in Manifest /\ Sha256(files[a]) \in ArtefactDigest
    BY <1>3 DEF EditManifest, WorkspaceType, ManifestFile, ManifestParses,
                ParseManifest, ArtefactDigest
  <2>2. l \in Listing /\ DOMAIN l # {}
    <3>1. m.artifacts \in Listing
      BY <2>1 DEF Manifest
    <3>2. l \in Listing /\ DOMAIN l = DOMAIN m.artifacts \cup {a}
      BY <2>1, <3>1, WithEntryListing
    <3> QED BY <3>2
  <2>3. [m EXCEPT !.artifacts = l] \in Manifest
    BY <2>1, <2>2 DEF Manifest
  <2>4. manifest' = Whole([m EXCEPT !.artifacts = l])
    BY <1>3 DEF EditManifest
  <2>5. manifest' \in ManifestFile
    BY <2>3, <2>4 DEF Whole, ManifestFile
  <2> QED BY <1>3, <2>5 DEF WorkspaceType, EditManifest, WrittenFromOutside
<1>4. ASSUME NEW x \in {NoFile, Junk}, DamageManifest(x)
      PROVE  WorkspaceType'
  BY <1>4 DEF WorkspaceType, DamageManifest, WrittenFromOutside, ManifestFile,
              Sentinel
<1>5. ASSUME ClearDirectory
      PROVE  WorkspaceType'
  BY <1>5 DEF WorkspaceType, ClearDirectory, WrittenFromOutside, ManifestFile,
              TokenFile, Sentinel
<1>6. ASSUME Tick
      PROVE  WorkspaceType'
  BY <1>6 DEF WorkspaceType, Tick
<1> QED BY <1>1, <1>2, <1>3, <1>4, <1>5, <1>6 DEF Environment

LEMMA SealingType ==
  ASSUME TypeOK, NEW s \in Sealer, Sealing(s)
  PROVE  TypeOK'
<1> USE DEF TypeOK
<1>1. StampType' /\ VerifyType'
  BY DEF Sealing, StampType, VerifyType, stamping
<1>2. s \in Command
  BY CommandAssumption
<1>3. ASSUME NEW external \in SealOptions, SealStart(s, external)
      PROVE  WorkspaceType' /\ SealType'
  <2> PICK c \in GoodCapture :
        seal' = [seal EXCEPT ![s] =
          [pc |-> "list", capture |-> ParseCapture(c), external |-> external]]
    BY <1>3 DEF SealStart
  <2>1. SealType'
    BY <1>3, SealOptionsAssumption DEF SealType, SealState, Capture
  <2>2. WorkspaceType'
    BY <1>3, <1>2 DEF SealStart, WorkspaceType, Begins
  <2> QED BY <2>1, <2>2
<1>4. ASSUME SealList(s)
      PROVE  WorkspaceType' /\ SealType'
  <2>1. seal[s] \in [pc : {"list"}, capture : Capture, external : BOOLEAN]
    BY <1>4 DEF SealList, SealType, SealState, SealIdle, SealFailed
  <2>2. SealType'
    BY <1>4, <2>1, NoEntryListing DEF SealList, SealType, SealState, Present
  <2> QED BY <1>4, <2>2 DEF SealList, WorkspaceType, workspace
<1> DEFINE Hashing == [pc : {"hash"}, capture : Capture, external : BOOLEAN,
                       todo : SUBSET Path, artifacts : Listing]
<1>5. ASSUME NEW a \in Path, SealHash(s, a)
      PROVE  WorkspaceType' /\ SealType'
  <2> DEFINE l == WithEntry(seal[s].artifacts, a, Sha256(files[a]))
  <2>1. seal[s] \in Hashing
    BY <1>5 DEF SealHash, SealType, SealState, SealIdle, SealFailed
  <2>3. Sha256(files[a]) \in ArtefactDigest
    BY <1>5 DEF SealHash, WorkspaceType, ArtefactDigest
  <2>4. l \in Listing
    BY <2>1, <2>3, WithEntryListing
  <2>5. seal' = [seal EXCEPT ![s] = [seal[s] EXCEPT !.todo = @ \ {a},
                                                    !.artifacts = l]]
    BY <1>5 DEF SealHash, SealType
  <2>6. [seal[s] EXCEPT !.todo = @ \ {a}, !.artifacts = l] \in Hashing
    BY <2>1, <2>4
  <2>7. SealType'
    BY <2>5, <2>6 DEF SealType, SealState
  <2> QED BY <1>5, <2>7 DEF SealHash, WorkspaceType, workspace
<1>6. ASSUME \/ \E a \in Path : SealVanished(s, a)
             \/ SealNothing(s) \/ SealAbort(s)
      PROVE  WorkspaceType' /\ SealType'
  BY <1>6 DEF SealVanished, SealNothing, SealAbort, SealFails, SealType,
              SealState, WorkspaceType, workspace
<1>7. ASSUME SealTruncate(s)
      PROVE  WorkspaceType' /\ SealType'
  <2>1. seal[s] \in Hashing /\ DOMAIN seal[s].artifacts # {}
    BY <1>7, NonEmptyListing
       DEF SealTruncate, ManifestOpened, SealType, SealState, SealIdle, SealFailed
  <2>a. Truncate(clock) \in Nat
    BY TruncateBounds DEF WorkspaceType
  <2>2. SealType'
    BY <1>7, <2>1, <2>a DEF SealTruncate, ManifestOpened, SealType, SealState,
                            Manifest
  <2>3. WorkspaceType'
    BY <1>7, <1>2 DEF SealTruncate, ManifestOpened, WorkspaceType, WrittenBy,
                      ManifestFile, Sentinel
  <2> QED BY <2>2, <2>3
<1>8. ASSUME SealWrite(s)
      PROVE  WorkspaceType' /\ SealType'
  <2>1. seal[s] \in [pc : {"write", "sealed"}, manifest : Manifest,
                     external : BOOLEAN]
    BY <1>8 DEF SealWrite, SealType, SealState, SealIdle, SealFailed
  <2>2. manifest' \in ManifestFile
    BY <1>8, <2>1, OverlaysManifest DEF SealWrite, WorkspaceType
  <2>3. SealType'
    BY <1>8, <2>1 DEF SealWrite, SealType, SealState
  <2>4. WorkspaceType'
    BY <1>8, <1>2, <2>2 DEF SealWrite, WorkspaceType, WrittenBy
  <2> QED BY <2>3, <2>4
<1>9. ASSUME SealShortWrite(s)
      PROVE  WorkspaceType' /\ SealType'
  BY <1>9, <1>2 DEF SealShortWrite, SealFails, SealType, SealState,
                    WorkspaceType, WrittenBy, ManifestFile, Sentinel
<1> QED BY <1>1, <1>3, <1>4, <1>5, <1>6, <1>7, <1>8, <1>9
           DEF Sealing, SealStep
\* An answer holds a token, and one that is sound only if it was issued.
LEMMA ReplyToken ==
  ASSUME StampType, NEW t \in Reply
  PROVE  t \in Token /\ (t.cms => t \in issued)
BY DEF Reply, StampType, Token

\* What a run that is asking, or writing, keeps.
AskRecord == [pc : {"ask"}, digest : ManifestDigest, nonce : Nat,
           askedAt : Nat, tried : SUBSET {DefaultTSA, FallbackTSA}]

StoreRecord == [pc : {"write", "stamped"}, digest : ManifestDigest,
            nonce : Nat, askedAt : Nat, token : Token,
            tried : SUBSET {DefaultTSA, FallbackTSA}]

LEMMA StampStates ==
  ASSUME NEW r \in StampState
  PROVE  /\ r.pc = "ask" => r \in AskRecord
         /\ r.pc \in {"write", "stamped"} => r \in StoreRecord
<1>1. CASE r = StampIdle
  BY <1>1 DEF StampIdle
<1>2. CASE r \in AskRecord
  BY <1>2 DEF AskRecord
<1>3. CASE r \in StoreRecord
  BY <1>3 DEF StoreRecord
<1>4. CASE r \in [pc : {"failed"},
                 cause : {"unreachable", "no usable token", "killed"},
                 tried : SUBSET {DefaultTSA, FallbackTSA}]
  BY <1>4
<1> QED BY <1>1, <1>2, <1>3, <1>4 DEF StampState, AskRecord, StoreRecord

LEMMA StampingType ==
  ASSUME TypeOK, NEW s \in Stamper, Stamping(s)
  PROVE  TypeOK'
<1> USE DEF TypeOK
<1>1. SealType' /\ VerifyType'
  BY DEF Stamping, SealType, VerifyType
<1>2. s \in Command
  BY CommandAssumption
<1>0. stamp[s] \in StampState
  BY DEF StampType
<1>3. stamp[s].pc = "ask" => stamp[s] \in AskRecord
  BY <1>0, StampStates
<1>4. stamp[s].pc \in {"write", "stamped"} => stamp[s] \in StoreRecord
  BY <1>0, StampStates
<1>5. ASSUME StampAsk(s)
      PROVE  WorkspaceType' /\ StampType'
  <2>1. Sha256(manifest) \in ManifestDigest
    BY <1>5 DEF StampAsk, WorkspaceType, Sha256, ManifestDigest
  <2>2. stamp' \in [Stamper -> StampState]
    BY <1>5, <2>1 DEF StampAsk, StampType, StampState, WorkspaceType
  <2>3. sent' \subseteq Request
    BY <1>5, <2>1 DEF StampAsk, StampType, Request
  <2> QED BY <1>5, <1>2, <2>2, <2>3 DEF StampAsk, StampType, WorkspaceType, Begins
<1>6. ASSUME NEW t \in Reply, StampStore(s, t)
      PROVE  WorkspaceType' /\ StampType'
  <2>1. t \in Token
    BY ReplyToken
  <2>2. stamp' \in [Stamper -> StampState]
    BY <1>6, <1>3, <2>1 DEF StampStore, TokenOpened, StampType, StampState,
           AskRecord, StoreRecord
  <2> QED BY <1>6, <1>2, <2>2 DEF StampStore, TokenOpened, StampType, WorkspaceType,
                                 WrittenBy, TokenFile, Sentinel
<1>7. ASSUME \/ \E t \in Reply : StampRefuse(s, t)
             \/ StampDenied(s) \/ StampUnreachable(s) \/ StampAbort(s)
      PROVE  WorkspaceType' /\ StampType'
  <2>1. PICK why \in {"unreachable", "no usable token", "killed"} :
          StampFails(s, why)
    BY <1>7 DEF StampRefuse, StampDenied, StampUnreachable, StampAbort
  <2>2. stamp[s].pc \in {"ask", "write"}
    BY <1>7 DEF StampRefuse, StampDenied, StampUnreachable, StampAbort
  <2>3. stamp[s].tried \in SUBSET {DefaultTSA, FallbackTSA}
    BY <2>2, <1>3, <1>4 DEF AskRecord, StoreRecord
  <2> DEFINE r == [pc |-> "failed", cause |-> why, tried |-> stamp[s].tried]
  <2>5. r \in StampState
    BY <2>3 DEF StampState
  <2>4. stamp' \in [Stamper -> StampState]
    BY <2>1, <2>5 DEF StampFails, StampType
  <2> QED BY <1>7, <2>4 DEF StampRefuse, StampDenied, StampUnreachable,
               StampAbort, StampType, WorkspaceType, workspace
<1>8. ASSUME StampWrite(s)
      PROVE  WorkspaceType' /\ StampType'
  <2>1. stamp[s] \in StoreRecord
    BY <1>8, <1>4 DEF StampWrite
  <2>2. token' \in TokenFile
    BY <1>8, <2>1, OverlaysToken DEF StampWrite, WorkspaceType, StoreRecord
  <2>3. stamp' = [stamp EXCEPT ![s] = [stamp[s] EXCEPT !.pc = "stamped"]]
    BY <1>8 DEF StampWrite, StampType
  <2>4. [stamp[s] EXCEPT !.pc = "stamped"] \in StoreRecord
    BY <2>1 DEF StoreRecord
  <2>5. stamp' \in [Stamper -> StampState]
    BY <2>3, <2>4 DEF StampType, StampState, StoreRecord
  <2> QED BY <1>8, <1>2, <2>2, <2>5 DEF StampWrite, StampType, WorkspaceType,
                                       WrittenBy
<1>9. ASSUME StampShortWrite(s)
      PROVE  WorkspaceType' /\ StampType'
  <2>1. stamp' \in [Stamper -> StampState]
    BY <1>9, <1>4 DEF StampShortWrite, StampFails, StampType, StampState,
           AskRecord, StoreRecord
  <2> QED BY <1>9, <1>2, <2>1 DEF StampShortWrite, StampType, WorkspaceType,
                                 WrittenBy, TokenFile, Sentinel
<1> QED BY <1>1, <1>5, <1>6, <1>7, <1>8, <1>9 DEF Stamping, StampStep

(***************************************************************************)
(* Whoever signs signs a token; an authority under the roots does so for a *)
(* request that was sent, and under the second that it is.                 *)
(***************************************************************************)
LEMMA SigningSigns ==
  ASSUME TypeOK, Signing
  PROVE  \E y \in Token :
           /\ Signed(y)
           /\ y.signer \in Trusted =>
                /\ [digest |-> y.imprint, nonce |-> y.nonce] \in sent
                /\ y.genTime <= clock /\ clock <= SecondAfter(y.genTime)
<1> USE DEF TypeOK
<1> PICK signer \in Signer, t \in 0 .. MaxTime :
      SelfStamp(signer, t) \/ \E r \in sent : TsaIssue(r, signer, t)
  BY DEF Signing
<1> DEFINE y(d, n) == [imprint |-> d, nonce |-> n, genTime |-> t,
                       signer |-> signer, cms |-> TRUE]
<1>1. \A d \in ManifestDigest, n \in Nat : y(d, n) \in Token
  <2>1. t \in Nat
    BY WorkspaceAssumption
  <2> QED BY <2>1 DEF Token
<1>2. CASE SelfStamp(signer, t)
  <2>1. Sha256(manifest) \in ManifestDigest
    BY <1>2 DEF SelfStamp, WorkspaceType, Sha256, ManifestDigest
  <2>2. Signed(y(Sha256(manifest), MaxNonce)) /\ signer \notin Trusted
    BY <1>2 DEF SelfStamp
  <2> QED BY <1>1, <2>1, <2>2, BoundAssumption
<1>3. ASSUME NEW r \in sent, TsaIssue(r, signer, t)
      PROVE  \E z \in Token :
               /\ Signed(z)
               /\ z.signer \in Trusted =>
                    /\ [digest |-> z.imprint, nonce |-> z.nonce] \in sent
                    /\ z.genTime <= clock /\ clock <= SecondAfter(z.genTime)
  <2>1. r \in Request
    BY DEF StampType
  <2>2. /\ r.digest \in ManifestDigest /\ r.nonce \in Nat
        /\ [digest |-> r.digest, nonce |-> r.nonce] = r
    BY <2>1 DEF Request
  <2>3. Signed(y(r.digest, r.nonce)) /\ t \in GenTimes(signer)
    BY <1>3 DEF TsaIssue
  <2>4. signer \in Trusted => t <= clock /\ clock <= SecondAfter(t)
    <3>1. clock \in Nat
      BY DEF WorkspaceType
    <3>2. /\ Truncate(clock) \in Nat
          /\ Truncate(clock) <= clock /\ clock <= SecondAfter(Truncate(clock))
      BY <3>1, TruncateBounds
    <3> QED BY <2>3, <3>1, <3>2, SecondAssumption DEF GenTimes, SecondAfter
  <2> QED BY <1>1, <2>2, <2>3, <2>4
<1> QED BY <1>2, <1>3

LEMMA AuthorityType ==
  ASSUME TypeOK, Authority
  PROVE  TypeOK'
<1> USE DEF TypeOK
<1>1. SealType' /\ VerifyType'
  BY DEF Authority, SealType, VerifyType
<1>2. ASSUME NEW t, Signed(t), t \in Token
      PROVE  WorkspaceType' /\ StampType'
  BY <1>2 DEF Signed, StampType, WorkspaceType, workspace
<1>3. ASSUME NEW x \in {NoFile, Junk} \cup {Whole(t) : t \in issued},
             ReplaceToken(x)
      PROVE  WorkspaceType' /\ StampType'
  <2>1. x \in TokenFile
    <3>1. CASE x \in {NoFile, Junk}
      BY <3>1 DEF TokenFile, Sentinel
    <3>2. ASSUME NEW t \in issued PROVE Whole(t) \in TokenFile
      <4>1. t \in Token
        BY DEF StampType
      <4> QED BY <4>1 DEF Whole, TokenFile
    <3> QED BY <3>1, <3>2
  <2> QED BY <1>3, <2>1 DEF ReplaceToken, WrittenFromOutside, StampType,
                           WorkspaceType, stamping
<1> QED BY <1>1, <1>2, <1>3, SigningSigns DEF Authority

\* The lines of a report.
LEMMA EntryCheck ==
  /\ Entry("manifest", "pass") \in Check
  /\ Entry("manifest", "fail") \in Check
  /\ Entry("capture metadata", "pass") \in Check
  /\ \A b \in BOOLEAN : Judged("artifact", b) \in Check
  /\ \A b \in BOOLEAN : Judged("no unlisted content", b) \in Check
BY DEF Entry, Judged, Check, Status

LEMMA CheckSeq ==
  /\ \A c \in Check : <<c>> \in Seq(Check)
  /\ \A c \in Check, d \in Check : <<c, d>> \in Seq(Check)
  /\ \A s \in Seq(Check), c \in Check : Append(s, c) \in Seq(Check)
  /\ \A s \in Seq(Check), t \in Seq(Check) : s \o t \in Seq(Check)
OBVIOUS

LEMMA TimestampChecksType ==
  ASSUME NEW tsr, NEW file, NEW opts \in VerifyOptions
  PROVE  TimestampChecks(tsr, file, opts) \in Seq(Check)
<1>1. \A st \in Status : /\ Entry("trusted timestamp", st) \in Check
                         /\ Entry("timestamp authority", st) \in Check
  BY DEF Entry, Check
<1>2. "pass" \in Status /\ "fail" \in Status /\ "warn" \in Status
  BY DEF Status
<1>3. \/ \E st \in Status : TimestampChecks(tsr, file, opts)
                            = <<Entry("trusted timestamp", st)>>
      \/ \E st \in Status : TimestampChecks(tsr, file, opts)
                            = <<Entry("trusted timestamp", "pass"),
                                Entry("timestamp authority", st)>>
  BY <1>2 DEF TimestampChecks
<1> QED BY <1>1, <1>2, <1>3, CheckSeq
(***************************************************************************)
(* What a verification that is reading artefacts keeps, and its report.    *)
(***************************************************************************)
Reading == [pc : {"artifacts"}, opts : VerifyOptions, names : SUBSET Path,
            file : ManifestFile, todo : SUBSET Path, ok : BOOLEAN,
            checks : Seq(Check), accepted : Listing]

Reported == [pc : {"report"}, opts : VerifyOptions, file : ManifestFile,
             ok : BOOLEAN, checks : Seq(Check), accepted : Listing,
             stamps : SUBSET Token]

LEMMA VerifyStates ==
  ASSUME NEW r \in VerifyState
  PROVE  /\ r.pc = "listed" =>
              r \in [pc : {"listed"}, opts : VerifyOptions, names : SUBSET Path]
         /\ r.pc = "artifacts" => r \in Reading
         /\ r.pc = "report" => r \in Reported
<1>1. CASE r \in {VerifyIdle, VerifyKilled}
  BY <1>1 DEF VerifyIdle, VerifyKilled
<1>2. CASE r \in [pc : {"listed"}, opts : VerifyOptions, names : SUBSET Path]
  BY <1>2
<1>3. CASE r \in Reading
  BY <1>3 DEF Reading
<1>4. CASE r \in Reported
  BY <1>4 DEF Reported
<1> QED BY <1>1, <1>2, <1>3, <1>4 DEF VerifyState, Reading, Reported

LEMMA VerifyingType ==
  ASSUME TypeOK, NEW v \in Verifier, Verifying(v)
  PROVE  TypeOK'
<1> USE DEF TypeOK
<1>1. SealType' /\ StampType'
  BY DEF Verifying, SealType, StampType, VerifyStart, VerifyStep, VerifyAbort,
         VerifyNoManifest, VerifyManifest, VerifyArtifact, VerifyConclude,
         stamping
<1>2. v \in Command
  BY CommandAssumption
<1>3. check[v] \in VerifyState
  BY DEF VerifyType
<1>4. ASSUME NEW opts \in VerifyOptions, VerifyStart(v, opts)
      PROVE  WorkspaceType' /\ VerifyType'
  BY <1>2, <1>4 DEF VerifyStart, VerifyType, VerifyState, WorkspaceType, Begins,
                    Present
<1>5. ASSUME VerifyNoManifest(v)
      PROVE  WorkspaceType' /\ VerifyType'
  <2> DEFINE r == [pc |-> "report", opts |-> check[v].opts, file |-> manifest,
                   ok |-> FALSE, checks |-> <<Entry("manifest", "fail")>>,
                   accepted |-> NoEntry, stamps |-> {}]
  <2>1. check[v].opts \in VerifyOptions
    BY <1>3, <1>5, VerifyStates DEF VerifyNoManifest
  <2>2. r \in Reported
    BY <2>1, EntryCheck, CheckSeq, NoEntryListing DEF Reported, WorkspaceType
  <2>3. check' = [check EXCEPT ![v] = r]
    BY <1>5 DEF VerifyNoManifest
  <2> QED BY <1>5, <2>2, <2>3 DEF VerifyNoManifest, VerifyType, VerifyState,
                                 WorkspaceType, workspace, Reported
<1>6. ASSUME VerifyManifest(v)
      PROVE  WorkspaceType' /\ VerifyType'
  <2> DEFINE todo == DOMAIN ParseManifest(manifest).artifacts
             checks == <<Entry("manifest", "pass"),
                         Entry("capture metadata", "pass")>>
             r == [pc |-> "artifacts", opts |-> check[v].opts,
                   names |-> check[v].names, file |-> manifest, todo |-> todo,
                   ok |-> TRUE, accepted |-> NoEntry, checks |-> checks]
  <2>1. check[v].opts \in VerifyOptions /\ check[v].names \in SUBSET Path
    BY <1>3, <1>6, VerifyStates DEF VerifyManifest
  <2>2. ParseManifest(manifest) \in Manifest
    BY <1>6 DEF VerifyManifest, WorkspaceType, ManifestFile, ManifestParses,
                ParseManifest
  <2>3. todo \in SUBSET Path
    BY <2>2 DEF Manifest, Listing
  <2>4. checks \in Seq(Check)
    BY EntryCheck, CheckSeq
  <2>5. r \in Reading
    BY <2>1, <2>3, <2>4, NoEntryListing DEF Reading, WorkspaceType
  <2>6. check' = [check EXCEPT ![v] = r]
    BY <1>6 DEF VerifyManifest
  <2> HIDE DEF r
  <2>7. VerifyType'
    BY <2>5, <2>6 DEF VerifyType, VerifyState, Reading
  <2> QED BY <1>6, <2>7 DEF VerifyManifest, WorkspaceType, workspace
<1>7. ASSUME NEW a \in Path, VerifyArtifact(v, a)
      PROVE  WorkspaceType' /\ VerifyType'
  <2> DEFINE now == check[v]
             accepted == IF Matches(v, a)
                         THEN WithEntry(now.accepted, a, Sha256(files[a]))
                         ELSE now.accepted
             r == [now EXCEPT
                     !.todo = now.todo \ {a},
                     !.ok = now.ok /\ Matches(v, a),
                     !.checks = Append(now.checks, Judged("artifact", Matches(v, a))),
                     !.accepted = accepted]
  <2>1. now \in Reading
    BY <1>3, <1>7, VerifyStates DEF VerifyArtifact
  <2>2. accepted \in Listing
    <3>1. CASE Matches(v, a)
      <4>1. Sha256(files[a]) \in ArtefactDigest
        BY <3>1 DEF Matches, WorkspaceType, ArtefactDigest
      <4>2. now.accepted \in Listing
        BY <2>1 DEF Reading
      <4> QED BY <3>1, <4>1, <4>2, WithEntryListing
    <3>2. CASE ~Matches(v, a)
      BY <3>2, <2>1 DEF Reading
    <3> QED BY <3>1, <3>2
  <2>3. Matches(v, a) \in BOOLEAN
    BY DEF Matches
  <2>4. Append(now.checks, Judged("artifact", Matches(v, a))) \in Seq(Check)
    <3>1. now.checks \in Seq(Check)
      BY <2>1 DEF Reading
    <3>2. Judged("artifact", Matches(v, a)) \in Check
      BY <2>3, EntryCheck
    <3> QED BY <3>1, <3>2, CheckSeq
  <2>5. r \in Reading
    BY <2>1, <2>2, <2>3, <2>4 DEF Reading
  <2>6. check' = [check EXCEPT ![v] = r]
    BY <1>7 DEF VerifyArtifact, VerifyType
  <2> QED BY <1>7, <2>5, <2>6 DEF VerifyArtifact, VerifyType, VerifyState,
                                 WorkspaceType, workspace, Reading
<1>8. ASSUME VerifyConclude(v)
      PROVE  WorkspaceType' /\ VerifyType'
  <2> DEFINE now == check[v]
             listed == NoUnlisted(now.names, now.file)
             accepted == token # NoFile /\ TokenAccepted(token, now.file, now.opts)
             stamps == IF accepted THEN {ParseResponse(token)} ELSE {}
             checks == Append(now.checks, Judged("no unlisted content", listed))
                         \o TimestampChecks(token, now.file, now.opts)
             ok == now.ok /\ listed /\ TimestampOK(token, now.file, now.opts)
             r == [pc |-> "report", opts |-> now.opts, file |-> now.file,
                   ok |-> ok, checks |-> checks, accepted |-> now.accepted,
                   stamps |-> stamps]
  <2>1. now \in Reading
    BY <1>3, <1>8, VerifyStates DEF VerifyConclude
  <2>2. now.opts \in VerifyOptions /\ now.checks \in Seq(Check)
    BY <2>1 DEF Reading
  <2>3. listed \in BOOLEAN
    BY DEF NoUnlisted
  <2>4. checks \in Seq(Check)
    <3>1. Judged("no unlisted content", listed) \in Check
      BY <2>3, EntryCheck
    <3>2. Append(now.checks, Judged("no unlisted content", listed)) \in Seq(Check)
      BY <2>2, <3>1, CheckSeq
    <3>3. TimestampChecks(token, now.file, now.opts) \in Seq(Check)
      BY <2>2, TimestampChecksType
    <3> QED BY <3>2, <3>3, CheckSeq
  <2>5. stamps \subseteq Token
    <3>1. accepted => ParseResponse(token) \in Token
      BY DEF TokenAccepted, ResponseParses, ParseResponse, WorkspaceType, TokenFile
    <3> QED BY <3>1
  <2>6. ok \in BOOLEAN
    <3>1. now.ok \in BOOLEAN
      BY <2>1 DEF Reading
    <3> QED BY <3>1
  <2>7. r \in Reported
    BY <2>1, <2>4, <2>5, <2>6 DEF Reading, Reported
  <2>8. check' = [check EXCEPT ![v] = r]
    BY <1>8 DEF VerifyConclude
  <2> HIDE DEF r
  <2>9. VerifyType'
    BY <2>7, <2>8 DEF VerifyType, VerifyState, Reported
  <2> QED BY <1>8, <2>9 DEF VerifyConclude, WorkspaceType, workspace
<1>9. ASSUME VerifyAbort(v)
      PROVE  WorkspaceType' /\ VerifyType'
  BY <1>9 DEF VerifyAbort, VerifyType, VerifyState, WorkspaceType, workspace
<1> QED BY <1>1, <1>4, <1>5, <1>6, <1>7, <1>8, <1>9 DEF Verifying, VerifyStep

LEMMA InitType == Init => TypeOK
BY DEF Init, TypeOK, WorkspaceInit, SealInit, StampInit, VerifyInit,
       WorkspaceType, SealType, StampType, VerifyType, ManifestFile, TokenFile,
       Sentinel, Present, SealState, StampState, VerifyState

LEMMA StutterType == TypeOK /\ UNCHANGED vars => TypeOK'
BY DEF TypeOK, WorkspaceType, SealType, StampType, VerifyType, vars, workspace,
       stamping

(***************************************************************************)
(* Every variable keeps its type, for any number of runs and any bounds.   *)
(***************************************************************************)
THEOREM TypeCorrect == Spec => []TypeOK
<1>1. TypeOK /\ [Next]_vars => TypeOK'
  BY EnvironmentType, SealingType, StampingType, AuthorityType, VerifyingType,
     StutterType DEF Next
<1> QED BY <1>1, InitType, PTL DEF Spec

(***************************************************************************)
(* What the steps of each party leave alone.                               *)
(***************************************************************************)
LEMMA SealingLeaves ==
  ASSUME NEW s \in Sealer, Sealing(s)
  PROVE  /\ UNCHANGED <<files, token, clock, seen, stamp, sent, issued, nextNonce,
                        check>>
         /\ SealType => \A p \in Sealer \ {s} : seal'[p] = seal[p]
         /\ SealWrite(s) \/ manifest' = manifest \/ manifest' \in Sentinel
BY DEF Sealing, SealStart, SealStep, SealList, SealHash, SealVanished, SealNothing,
       SealTruncate, ManifestOpened, SealWrite, SealShortWrite, SealAbort,
       SealFails, SealType, workspace, stamping, Sentinel

LEMMA StampingLeaves ==
  ASSUME NEW s \in Stamper, Stamping(s)
  PROVE  /\ UNCHANGED <<files, manifest, clock, seen, issued, seal, check>>
         /\ StampAsk(s) \/ UNCHANGED <<sent, nextNonce>>
         /\ StampType => \A p \in Stamper \ {s} : stamp'[p] = stamp[p]
         /\ StampWrite(s) \/ token' = token \/ token' \in Sentinel
BY DEF Stamping, StampAsk, StampStep, StampStore, TokenOpened, StampRefuse,
       StampDenied, StampUnreachable, StampWrite, StampShortWrite, StampAbort,
       StampFails, StampType, workspace, Sentinel

LEMMA VerifyingLeaves ==
  ASSUME NEW v \in Verifier, Verifying(v)
  PROVE  /\ UNCHANGED <<files, manifest, token, clock, seen, stamp, sent, issued,
                        nextNonce, seal>>
         /\ VerifyType => \A w \in Verifier \ {v} : check'[w] = check[w]
BY DEF Verifying, VerifyStart, VerifyStep, VerifyNoManifest, VerifyManifest,
       VerifyArtifact, VerifyConclude, VerifyAbort, VerifyType, workspace, stamping

LEMMA IssuingLeaves ==
  ASSUME NEW t, Signed(t)
  PROVE  UNCHANGED <<files, manifest, token, clock, seen, stamp, sent, nextNonce>>
BY DEF Signed, workspace

LEMMA ReplacingLeaves ==
  ASSUME NEW x, ReplaceToken(x)
  PROVE  UNCHANGED <<files, manifest, clock, seen, stamp, sent, issued, nextNonce>>
BY DEF ReplaceToken, stamping

LEMMA StutteringLeaves ==
  ASSUME UNCHANGED vars
  PROVE  UNCHANGED <<files, manifest, token, clock, seen, seal, stamp, sent, issued,
                     nextNonce, check>>
BY DEF vars, workspace, stamping
=============================================================================
