--------------------------- MODULE PevQuietProofs ---------------------------
(***************************************************************************)
(* What holds, for all constants, of a run of pev that nobody disturbed,   *)
(* and of seals that only disturb each other.                              *)
(***************************************************************************)
EXTENDS PevTypeProofs

(***************************************************************************)
(* Whoever writes to the directory disturbs every other run.               *)
(***************************************************************************)
LEMMA OutsideDisturbs ==
  ASSUME TypeOK, WrittenFromOutside
  PROVE  calm' = {} /\ writes' # 0
BY DEF WrittenFromOutside, TypeOK, WorkspaceType

LEMMA SealDisturbs ==
  ASSUME NEW s \in Sealer, Sealing(s)
  PROVE  /\ writes' = writes
         /\ \/ UNCHANGED <<files, manifest, token>> /\ calm' \subseteq calm \cup {s}
            \/ calm' = calm \cap {s}
BY DEF Sealing, SealStart, SealStep, SealList, SealHash, SealVanished, SealNothing,
       SealTruncate, ManifestOpened, SealWrite, SealShortWrite, SealAbort,
       workspace, Begins, WrittenBy

LEMMA StampDisturbs ==
  ASSUME NEW s \in Stamper, Stamping(s)
  PROVE  /\ writes' = writes
         /\ \/ UNCHANGED <<files, manifest, token>> /\ calm' \subseteq calm \cup {s}
            \/ calm' = calm \cap {s}
BY DEF Stamping, StampAsk, StampStep, StampStore, TokenOpened, StampRefuse,
       StampDenied, StampUnreachable, StampWrite, StampShortWrite, StampAbort,
       workspace, Begins, WrittenBy

LEMMA VerifyDisturbsNobody ==
  ASSUME NEW v \in Verifier, Verifying(v)
  PROVE  /\ writes' = writes
         /\ UNCHANGED <<files, manifest, token>>
         /\ calm' \subseteq calm \cup {v}
BY DEF Verifying, VerifyStart, VerifyStep, VerifyNoManifest, VerifyManifest,
       VerifyArtifact, VerifyConclude, VerifyAbort, workspace, Begins

LEMMA OthersDisturb ==
  ASSUME TypeOK,
         Environment \/ Authority \/ UNCHANGED vars
  PROVE  /\ UNCHANGED <<seal, check>>
         /\ stamp' = stamp
         /\ writes' = 0 \/ calm' # {}
              => writes' = writes /\ UNCHANGED <<files, manifest, token, calm>>
<1>1. CASE Environment
  <2>1. UNCHANGED <<seal, check>> /\ stamp' = stamp
    BY <1>1 DEF Environment, stamping
  <2>2. ASSUME NEW a, NEW c,
               \/ WorkerWrite(a, c) \/ EditManifest(a)
               \/ DamageManifest(c) \/ ClearDirectory
        PROVE  calm' = {} /\ writes' # 0
    BY <2>2, OutsideDisturbs
       DEF WorkerWrite, EditManifest, DamageManifest, ClearDirectory
  <2>3. ASSUME Tick
        PROVE  UNCHANGED <<files, manifest, token, writes, calm>>
    BY <2>3 DEF Tick
  <2> QED BY <1>1, <2>1, <2>2, <2>3 DEF Environment
<1>2. CASE Authority
  <2>1. ASSUME Signing
        PROVE  UNCHANGED <<files, manifest, token, writes, calm, stamp>>
    BY <2>1, SigningSigns DEF Signed, workspace
  <2>2. ASSUME NEW x, ReplaceToken(x)
        PROVE  calm' = {} /\ writes' # 0 /\ stamp' = stamp
    BY <2>2, OutsideDisturbs DEF ReplaceToken, stamping
  <2> QED BY <1>2, <2>1, <2>2 DEF Authority
<1>3. CASE UNCHANGED vars
  BY <1>3 DEF vars, workspace, stamping
<1> QED BY <1>1, <1>2, <1>3

Acts(x) ==
  \/ x \in Sealer /\ Sealing(x)
  \/ x \in Stamper /\ Stamping(x)
  \/ x \in Verifier /\ Verifying(x)

LEMMA Undisturbed ==
  ASSUME TypeOK, [Next]_vars, NEW x \in Command, ~Acts(x)
  PROVE  /\ x \in Sealer => seal'[x] = seal[x]
         /\ x \in Stamper => stamp'[x] = stamp[x]
         /\ x \in Verifier => check'[x] = check[x]
         /\ x \in calm' => x \in calm /\ UNCHANGED <<files, manifest, token>>
         /\ writes' = 0 => writes = 0 /\ files' = files
<1> USE DEF TypeOK
<1>1. CASE Environment \/ Authority \/ UNCHANGED vars
  BY <1>1, OthersDisturb
<1>2. ASSUME NEW s \in Sealer, Sealing(s)
      PROVE  /\ x # s
             /\ UNCHANGED <<files, stamp, check, writes>>
             /\ x \in Sealer => seal'[x] = seal[x]
             /\ x \in calm' => x \in calm /\ UNCHANGED <<manifest, token>>
  BY <1>2, SealDisturbs, SealingLeaves DEF Acts
<1>3. ASSUME NEW s \in Stamper, Stamping(s)
      PROVE  /\ x # s
             /\ UNCHANGED <<files, seal, check, writes>>
             /\ x \in Stamper => stamp'[x] = stamp[x]
             /\ x \in calm' => x \in calm /\ UNCHANGED <<manifest, token>>
  BY <1>3, StampDisturbs, StampingLeaves DEF Acts, StampType
<1>4. ASSUME NEW v \in Verifier, Verifying(v)
      PROVE  /\ x # v
             /\ UNCHANGED <<files, seal, stamp, writes, manifest, token>>
             /\ x \in Verifier => check'[x] = check[x]
             /\ x \in calm' => x \in calm
  BY <1>4, VerifyDisturbsNobody, VerifyingLeaves DEF Acts
<1> QED BY <1>1, <1>2, <1>3, <1>4 DEF Next

(***************************************************************************)
(* Sealing.                                                                *)
(***************************************************************************)
LEMMA SealQuietLater ==
  ASSUME TypeOK, [Next]_vars, NEW s \in Sealer, SealQuiet(s), ~Sealing(s)
  PROVE  SealQuiet(s)'
<1>1. s \in Command /\ ~Acts(s)
  BY CommandAssumption DEF Acts
<1>2. /\ seal'[s] = seal[s]
      /\ s \in calm' => s \in calm /\ UNCHANGED <<files, manifest>>
      /\ writes' = 0 => writes = 0 /\ files' = files
  BY <1>1, Undisturbed
<1>3. ASSUME files' = files, ReadingHolds(s) PROVE ReadingHolds(s)'
  BY <1>2, <1>3 DEF ReadingHolds, Directory, Present
<1> QED BY <1>2, <1>3 DEF SealQuiet


\* What a hashing run, or one that writes, has after its step.
LEMMA SealHashed ==
  ASSUME TypeOK, NEW s \in Sealer, NEW a \in Path, SealHash(s, a)
  PROVE  /\ seal'[s].pc = "hash" /\ seal'[s].capture = seal[s].capture
         /\ seal'[s].external = seal[s].external
         /\ seal'[s].todo = seal[s].todo \ {a}
         /\ seal'[s].artifacts = WithEntry(seal[s].artifacts, a, Sha256(files[a]))
<1>1. seal \in [Sealer -> SealState]
  BY DEF TypeOK, SealType
<1>2. seal[s] \in [pc : {"hash"}, capture : Capture, external : BOOLEAN,
                   todo : SUBSET Path, artifacts : Listing]
  BY <1>1 DEF SealHash, SealState, SealIdle, SealFailed
<1> QED BY <1>1, <1>2 DEF SealHash

LEMMA SealWritten ==
  ASSUME TypeOK, NEW s \in Sealer, SealWrite(s)
  PROVE  /\ seal[s].manifest \in Manifest
         /\ seal'[s].pc = "sealed" /\ seal'[s].manifest = seal[s].manifest
         /\ seal'[s].external = seal[s].external
<1>1. seal \in [Sealer -> SealState]
  BY DEF TypeOK, SealType
<1>2. seal[s] \in [pc : {"write", "sealed"}, manifest : Manifest,
                   external : BOOLEAN]
  BY <1>1 DEF SealWrite, SealState, SealIdle, SealFailed
<1> QED BY <1>1, <1>2 DEF SealWrite

LEMMA ReadingStarts ==
  ASSUME TypeOK, NEW s \in Sealer, NEW external \in SealOptions, SealStart(s, external)
  PROVE  ReadingHolds(s)' /\ seal'[s].pc = "list"
<1>1. PICK c \in GoodCapture :
        /\ external \/ c = files[CapturePath]
        /\ seal' = [seal EXCEPT ![s] =
             [pc |-> "list", capture |-> ParseCapture(c), external |-> external]]
  BY DEF SealStart
<1>2. seal'[s] = [pc |-> "list", capture |-> ParseCapture(c), external |-> external]
  BY <1>1 DEF TypeOK, SealType
<1>3. files' = files
  BY DEF SealStart
<1> QED BY <1>1, <1>2, <1>3 DEF ReadingHolds

LEMMA ReadingGoesOn ==
  ASSUME TypeOK, NEW s \in Sealer, ReadingHolds(s),
         \/ SealStep(s) \/ SealShortWrite(s) \/ SealAbort(s)
  PROVE  ReadingHolds(s)'
<1>1. seal \in [Sealer -> SealState] /\ files' = files
  BY DEF TypeOK, SealType, SealStep, SealList, SealHash, SealVanished, SealNothing,
         SealTruncate, ManifestOpened, SealWrite, SealShortWrite, SealAbort,
         workspace
<1>2. CASE SealList(s)
  <2>1. seal'[s] = [pc |-> "hash", capture |-> seal[s].capture,
                    external |-> seal[s].external,
                    todo |-> Present, artifacts |-> NoEntry]
    BY <1>1, <1>2 DEF SealList
  <2>2. NoEntry = [a \in Present \ Present |-> Sha256(files[a])]
    BY DEF NoEntry
  <2> QED BY <1>1, <1>2, <2>1, <2>2 DEF SealList, ReadingHolds, Present
<1>3. ASSUME NEW a \in Path, SealHash(s, a)
      PROVE  ReadingHolds(s)'
  <2> DEFINE now == seal[s]
  <2>1. /\ now.pc = "hash" /\ a \in now.todo /\ a \in Present
        /\ now.todo \subseteq Present
        /\ now.artifacts = [b \in Present \ now.todo |-> Sha256(files[b])]
    BY <1>3 DEF SealHash, NextOf, ReadingHolds, Present
  <2>2. /\ seal'[s].pc = "hash" /\ seal'[s].capture = now.capture
        /\ seal'[s].external = now.external /\ seal'[s].todo = now.todo \ {a}
        /\ seal'[s].artifacts = WithEntry(now.artifacts, a, Sha256(files[a]))
    BY <1>1, <1>3, SealHashed DEF SealHash
  <2>3. Present \ (now.todo \ {a}) = (Present \ now.todo) \cup {a}
    BY <2>1
  <2>4. WithEntry(now.artifacts, a, Sha256(files[a]))
          = [b \in Present \ (now.todo \ {a}) |-> Sha256(files[b])]
    BY <2>1, <2>3 DEF WithEntry
  <2> QED BY <1>1, <2>1, <2>2, <2>4 DEF ReadingHolds, Present
<1>4. CASE SealTruncate(s)
  <2>1. /\ seal[s].pc = "hash" /\ seal[s].todo = {}
        /\ seal[s].artifacts = Directory
    BY <1>4 DEF SealTruncate, ReadingHolds, Directory
  <2>2. seal'[s] = [pc |-> "write", external |-> seal[s].external,
                    manifest |-> [sealedAt |-> Truncate(clock),
                                  capture |-> seal[s].capture,
                                  artifacts |-> seal[s].artifacts]]
    BY <1>1, <1>4 DEF SealTruncate, ManifestOpened
  <2> QED BY <1>1, <2>1, <2>2 DEF ReadingHolds, Directory, Present
<1>5. CASE SealWrite(s)
  <2>1. /\ seal[s].pc = "write" /\ seal'[s].pc = "sealed"
        /\ seal'[s].manifest = seal[s].manifest
        /\ seal'[s].external = seal[s].external
    BY <1>1, <1>5, SealWritten DEF SealWrite
  <2> QED BY <1>1, <2>1 DEF ReadingHolds, Directory, Present
<1>6. CASE seal'[s] = SealFailed
  BY <1>6 DEF ReadingHolds, SealFailed
<1>7. (\E a \in Path : SealVanished(s, a)) \/ SealNothing(s) \/ SealShortWrite(s)
        \/ SealAbort(s) => seal'[s] = SealFailed
  BY <1>1 DEF SealVanished, SealNothing, SealShortWrite, SealAbort, SealFails
<1> QED BY <1>2, <1>3, <1>4, <1>5, <1>6, <1>7 DEF SealStep


LEMMA SealQuietStep ==
  ASSUME TypeOK, NEW s \in Sealer, SealQuiet(s), Sealing(s)
  PROVE  SealQuiet(s)'
<1>0. seal \in [Sealer -> SealState]
  BY DEF TypeOK, SealType
<1>1. CASE \E external \in SealOptions : SealStart(s, external)
  BY <1>1, ReadingStarts DEF SealQuiet
<1>2. CASE SealStep(s) \/ SealShortWrite(s) \/ SealAbort(s)
  <2>1. writes' = writes /\ calm' \subseteq calm
    BY <1>2 DEF SealStep, SealList, SealHash, SealVanished, SealNothing,
                SealTruncate, ManifestOpened, SealWrite, SealShortWrite,
                SealAbort, workspace, WrittenBy
  <2>2. writes' = 0 \/ s \in calm' => ReadingHolds(s)'
    BY <1>2, <2>1, ReadingGoesOn DEF SealQuiet
  <2>3. CASE SealTruncate(s)
    <3>1. manifest' = Empty /\ seal'[s].pc = "write"
      BY <1>0, <2>3 DEF SealTruncate, ManifestOpened
    <3> QED BY <2>2, <3>1 DEF SealQuiet
  <2>4. CASE SealWrite(s)
    <3>1. seal'[s].pc = "sealed" /\ seal'[s].manifest = seal[s].manifest
      BY <2>4, SealWritten
    <3>2. s \in calm' => manifest' = Whole(seal[s].manifest)
      BY <2>1, <2>4, EvidenceAssumption DEF SealWrite, SealQuiet, Overlays
    <3> QED BY <2>2, <3>1, <3>2 DEF SealQuiet
  <2>5. CASE seal'[s] = SealFailed \/ seal'[s].pc = "hash"
    BY <2>2, <2>5 DEF SealQuiet, SealFailed
  <2>6. \/ SealTruncate(s) \/ SealWrite(s)
        \/ seal'[s] = SealFailed \/ seal'[s].pc = "hash"
    <3>1. CASE SealList(s)
      BY <1>0, <3>1 DEF SealList
    <3>2. CASE \E a \in Path : SealHash(s, a)
      BY <3>2, SealHashed
    <3>3. CASE \/ \E a \in Path : SealVanished(s, a)
               \/ SealNothing(s) \/ SealShortWrite(s) \/ SealAbort(s)
      BY <1>0, <3>3 DEF SealVanished, SealNothing, SealShortWrite, SealAbort,
                        SealFails
    <3> QED BY <1>2, <3>1, <3>2, <3>3 DEF SealStep
  <2> QED BY <2>3, <2>4, <2>5, <2>6
<1> QED BY <1>1, <1>2 DEF Sealing

\* Only a seal puts a manifest in the file, as long as nobody else writes.
LEMMA RacingSealsStep ==
  ASSUME TypeOK, [Next]_vars, RacingSealsAgree,
         \A s \in Sealer : SealQuiet(s)
  PROVE  RacingSealsAgree'
<1>1. CASE files' = files /\ manifest' = manifest /\ (writes' = 0 => writes = 0)
  BY <1>1 DEF RacingSealsAgree, ManifestParses, ParseManifest, Directory, Present
<1>2. CASE writes' # 0
  BY <1>2 DEF RacingSealsAgree
<1>3. CASE manifest' \in Sentinel
  BY <1>3 DEF RacingSealsAgree, ManifestParses
<1>4. ASSUME NEW s \in Sealer, SealWrite(s)
      PROVE  RacingSealsAgree'
  <2>1. files' = files /\ writes' = writes
    BY <1>4 DEF SealWrite, WrittenBy
  <2>2. CASE writes = 0
    <3>1. seal[s].manifest.artifacts = Directory
      BY <1>4, <2>2 DEF SealWrite, SealQuiet, ReadingHolds
    <3>2. manifest \in Sentinel \cup FileOf(Manifest)
      BY DEF TypeOK, WorkspaceType, ManifestFile, FileOf
    <3>3. manifest' = NoFile \/ manifest'.data = seal[s].manifest
      <4>1. seal[s].manifest \in Manifest
        BY <1>4, SealWritten
      <4>2. \A f \in Overlays(seal[s].manifest, manifest) :
              f = NoFile \/ f.data = seal[s].manifest
        BY <3>2, <4>1, OverlaysFile
      <4>3. manifest' \in Overlays(seal[s].manifest, manifest)
        BY <1>4 DEF SealWrite
      <4> QED BY <4>2, <4>3
    <3>4. CASE manifest' = NoFile
      BY <1>3, <3>4 DEF Sentinel
    <3>5. CASE manifest'.data = seal[s].manifest
      <4>1. Directory' = Directory
        BY <2>1 DEF Directory, Present
      <4>2. ParseManifest(manifest)' = seal[s].manifest
        BY <3>5 DEF ParseManifest
      <4> QED BY <3>1, <4>1, <4>2 DEF RacingSealsAgree
    <3> QED BY <3>3, <3>4, <3>5
  <2> QED BY <1>2, <2>1, <2>2
<1>5. CASE Environment \/ Authority \/ UNCHANGED vars
  BY <1>1, <1>2, <1>5, OthersDisturb
<1>6. ASSUME NEW s \in Sealer, Sealing(s)
      PROVE  RacingSealsAgree'
  BY <1>1, <1>3, <1>4, <1>6, SealingLeaves, SealDisturbs
<1>7. CASE \/ \E s \in Stamper : Stamping(s)
           \/ \E v \in Verifier : Verifying(v)
  BY <1>1, <1>7, StampingLeaves, VerifyingLeaves, StampDisturbs,
     VerifyDisturbsNobody
<1> QED BY <1>5, <1>6, <1>7 DEF Next

(***************************************************************************)
(* Stamping.                                                               *)
(***************************************************************************)
LEMMA StampQuietLater ==
  ASSUME TypeOK, [Next]_vars, NEW s \in Stamper, StampQuiet(s), ~Stamping(s)
  PROVE  StampQuiet(s)'
<1>1. s \in Command /\ ~Acts(s)
  BY CommandAssumption DEF Acts
<1>2. /\ stamp'[s] = stamp[s]
      /\ s \in calm' => s \in calm /\ UNCHANGED <<manifest, token>>
  BY <1>1, Undisturbed
<1> QED BY <1>2 DEF StampQuiet

LEMMA StampQuietStep ==
  ASSUME TypeOK, NEW s \in Stamper, StampQuiet(s), Stamping(s)
  PROVE  StampQuiet(s)'
<1>0. stamp \in [Stamper -> StampState] /\ stamp[s] \in StampState
  BY DEF TypeOK, StampType
<1>1. CASE StampAsk(s)
  <2>1. /\ stamp'[s].pc = "ask" /\ stamp'[s].digest = Sha256(manifest)
        /\ manifest' = manifest
    BY <1>0, <1>1 DEF StampAsk
  <2> QED BY <2>1 DEF StampQuiet
<1>2. ASSUME ~StampAsk(s)
      PROVE  manifest' = manifest /\ calm' \subseteq calm
  BY <1>2 DEF Stamping, StampStep, StampStore, TokenOpened, StampRefuse,
              StampDenied, StampUnreachable, StampWrite, StampShortWrite,
              StampAbort, workspace, WrittenBy
<1>3. ASSUME NEW t \in Reply, StampStore(s, t)
      PROVE  StampQuiet(s)'
  <2>1. /\ stamp'[s].pc = "write" /\ stamp'[s].digest = stamp[s].digest
        /\ stamp'[s].token = t /\ token' = Empty /\ stamp[s].pc = "ask"
    BY <1>0, <1>3 DEF StampStore, TokenOpened
  <2>2. TokenVerifies(t, stamp[s].digest, {}, FALSE)
    BY <1>3 DEF StampStore, Acceptable, TokenVerifies
  <2>3. ~StampAsk(s)
    BY <2>1 DEF StampAsk
  <2> QED BY <1>2, <2>1, <2>2, <2>3 DEF StampQuiet
<1>4. CASE StampWrite(s)
  <2>1. stamp[s] \in StoreRecord /\ stamp[s].pc = "write"
    BY <1>0, <1>4, StampStates DEF StampWrite
  <2>2. stamp' = [stamp EXCEPT ![s] = [stamp[s] EXCEPT !.pc = "stamped"]]
    BY <1>0, <1>4 DEF StampWrite
  <2>3. /\ stamp'[s].pc = "stamped" /\ stamp'[s].digest = stamp[s].digest
        /\ stamp'[s].token = stamp[s].token
    BY <1>0, <2>1, <2>2 DEF StoreRecord
  <2>4. manifest' = manifest /\ calm' \subseteq calm
    BY <1>2, <2>1 DEF StampAsk
  <2>5. s \in calm' => token' = Whole(stamp[s].token)
    BY <1>4, <2>1, <2>4, EvidenceAssumption DEF StampWrite, StampQuiet, Overlays
  <2> QED BY <2>1, <2>3, <2>4, <2>5 DEF StampQuiet
<1>5. ASSUME NEW why, StampFails(s, why)
      PROVE  StampQuiet(s)'
  BY <1>0, <1>5 DEF StampFails, StampQuiet
<1> QED BY <1>1, <1>3, <1>4, <1>5
        DEF Stamping, StampStep, StampRefuse, StampDenied, StampUnreachable,
            StampShortWrite, StampAbort

(***************************************************************************)
(* Verifying.                                                              *)
(***************************************************************************)

\* A listing is that of the directory if its entries match and none is missing.
LEMMA ListsDirectory ==
  ASSUME NEW listed \in Listing
  PROVE  listed = Directory <=>
           /\ Present \subseteq DOMAIN listed
           /\ \A a \in DOMAIN listed :
                files[a] # NoFile /\ Sha256(files[a]) = listed[a]
<1>0. DOMAIN listed \subseteq Path /\ listed = [a \in DOMAIN listed |-> listed[a]]
  BY DEF Listing
<1>1. ASSUME listed = Directory
      PROVE  /\ Present \subseteq DOMAIN listed
             /\ \A a \in DOMAIN listed :
                  files[a] # NoFile /\ Sha256(files[a]) = listed[a]
  <2>1. DOMAIN listed = Present
    BY <1>1 DEF Directory
  <2>2. \A a \in Present : listed[a] = Sha256(files[a]) /\ files[a] # NoFile
    BY <1>1 DEF Directory, Present
  <2> QED BY <2>1, <2>2
<1>2. ASSUME Present \subseteq DOMAIN listed,
             \A a \in DOMAIN listed :
               files[a] # NoFile /\ Sha256(files[a]) = listed[a]
      PROVE  listed = Directory
  <2>1. DOMAIN listed = Present
    BY <1>0, <1>2 DEF Present
  <2>2. \A a \in Present : listed[a] = Sha256(files[a])
    BY <1>2
  <2>3. listed = [a \in Present |-> Sha256(files[a])]
    BY <1>0, <2>1, <2>2
  <2> QED BY <2>3 DEF Directory
<1> QED BY <1>1, <1>2

LEMMA VerifyQuietLater ==
  ASSUME TypeOK, [Next]_vars, NEW v \in Verifier, VerifyQuiet(v), ~Verifying(v)
  PROVE  VerifyQuiet(v)'
<1>1. v \in Command /\ ~Acts(v)
  BY CommandAssumption DEF Acts
<1>2. /\ check'[v] = check[v]
      /\ v \in calm' => v \in calm /\ UNCHANGED <<files, manifest, token>>
  BY <1>1, Undisturbed
<1>3. SUFFICES ASSUME v \in calm'
               PROVE  VerifyQuiet(v)'
  BY DEF VerifyQuiet
<1>4. /\ Present' = Present /\ ParseManifest(manifest)' = ParseManifest(manifest)
      /\ ManifestParses(manifest)' = ManifestParses(manifest)
      /\ \A a : Matches(v, a)' = Matches(v, a)
      /\ Intact(check[v].opts)' = Intact(check[v].opts)
  BY <1>2, <1>3 DEF Present, ParseManifest, ManifestParses, Matches, Intact,
     Directory, TimestampOK, TokenAccepted
<1> QED BY <1>2, <1>3, <1>4 DEF VerifyQuiet

\* A verification only ends in a report once it has read all it lists.
LEMMA ConcludedRight ==
  ASSUME TypeOK, NEW v \in Verifier, v \in calm, VerifyQuiet(v), VerifyConclude(v)
  PROVE  (check[v].pc = "report" /\ (check[v].ok <=> Intact(check[v].opts)))'
<1> DEFINE now == check[v]
           listed == ParseManifest(manifest).artifacts
<1>1. now \in Reading
  BY VerifyStates DEF TypeOK, VerifyType, VerifyConclude
<1>2. /\ now.names = Present /\ now.file = manifest /\ ManifestParses(manifest)
      /\ now.todo = {}
      /\ now.ok <=> \A a \in DOMAIN listed : Matches(v, a)
  BY DEF VerifyConclude, VerifyQuiet
<1>3. listed \in Listing
  BY <1>2 DEF TypeOK, WorkspaceType, ManifestFile, ManifestParses, ParseManifest,
              Manifest
<1>4. /\ check'[v].pc = "report" /\ check'[v].opts = now.opts
      /\ check'[v].ok <=> /\ now.ok /\ NoUnlisted(now.names, now.file)
                          /\ TimestampOK(token, now.file, now.opts)
  BY DEF TypeOK, VerifyType, VerifyConclude
<1>5. now.ok <=> \A a \in DOMAIN listed :
                   files[a] # NoFile /\ Sha256(files[a]) = listed[a]
  BY <1>2 DEF Matches
<1>6. now.ok /\ NoUnlisted(now.names, now.file) <=> listed = Directory
  BY <1>2, <1>3, <1>5, ListsDirectory DEF NoUnlisted
<1>7. Intact(now.opts) <=> listed = Directory /\ TimestampOK(token, manifest, now.opts)
  BY <1>2 DEF Intact
<1>8. Intact(check[v].opts)' <=> Intact(now.opts)
  <2>1. UNCHANGED <<files, manifest, token>>
    BY DEF VerifyConclude, workspace
  <2>2. /\ ManifestParses(manifest)' = ManifestParses(manifest)
        /\ ParseManifest(manifest)' = ParseManifest(manifest)
        /\ Directory' = Directory
    BY <2>1 DEF ManifestParses, ParseManifest, Directory, Present
  <2>3. TimestampOK(token, manifest, check[v].opts)'
          = TimestampOK(token, manifest, now.opts)
    BY <1>4, <2>1
  <2> QED BY <2>2, <2>3 DEF Intact
<1> QED BY <1>2, <1>4, <1>6, <1>7, <1>8

LEMMA VerifyQuietStep ==
  ASSUME TypeOK, NEW v \in Verifier, VerifyQuiet(v), Verifying(v)
  PROVE  VerifyQuiet(v)'
<1>0. /\ check \in [Verifier -> VerifyState] /\ check[v] \in VerifyState
      /\ UNCHANGED <<files, manifest, token>>
  BY VerifyingLeaves DEF TypeOK, VerifyType
<1>1. Present' = Present
  BY <1>0 DEF Present
<1>2. ASSUME NEW opts \in VerifyOptions, VerifyStart(v, opts)
      PROVE  VerifyQuiet(v)'
  <2>1. check'[v] = [pc |-> "listed", opts |-> opts, names |-> Present]
    BY <1>0, <1>2 DEF VerifyStart
  <2> QED BY <1>1, <2>1 DEF VerifyQuiet
<1>3. CASE VerifyNoManifest(v)
  <2>1. /\ check'[v].pc = "report" /\ check'[v].ok = FALSE
        /\ ~ManifestParses(manifest)
    BY <1>0, <1>3 DEF VerifyNoManifest
  <2>2. ~ManifestParses(manifest)'
    BY <1>0, <2>1 DEF ManifestParses
  <2> QED BY <2>1, <2>2 DEF VerifyQuiet, Intact
<1>4. CASE VerifyManifest(v)
  <2> DEFINE todo == DOMAIN ParseManifest(manifest).artifacts
  <2>1. /\ check'[v].pc = "artifacts" /\ check'[v].file = manifest
        /\ check'[v].todo = todo /\ check'[v].ok = TRUE
        /\ check'[v].names = check[v].names /\ check[v].pc = "listed"
        /\ ManifestParses(manifest) /\ calm' = calm
    BY <1>0, <1>4 DEF VerifyManifest, workspace
  <2>2. ManifestParses(manifest)' /\ todo' = todo
    BY <1>0, <2>1 DEF ManifestParses, ParseManifest
  <2> QED BY <1>0, <1>1, <2>1, <2>2 DEF VerifyQuiet
<1>5. ASSUME NEW a \in Path, VerifyArtifact(v, a)
      PROVE  VerifyQuiet(v)'
  <2> DEFINE now == check[v]
             listed == ParseManifest(manifest).artifacts
  <2>1. now \in Reading
    BY <1>0, <1>5, VerifyStates DEF VerifyArtifact
  <2>2. /\ check'[v].pc = "artifacts" /\ check'[v].names = now.names
        /\ check'[v].file = now.file /\ check'[v].todo = now.todo \ {a}
        /\ check'[v].ok = (now.ok /\ Matches(v, a))
        /\ now.pc = "artifacts" /\ a \in now.todo /\ calm' = calm
    BY <1>0, <1>5, <2>1 DEF VerifyArtifact, workspace, Reading
  <2>3. \A b : Matches(v, b)' <=> Matches(v, b)
    BY <1>0, <2>2 DEF Matches
  <2>4. ManifestParses(manifest)' = ManifestParses(manifest) /\ listed' = listed
    BY <1>0 DEF ManifestParses, ParseManifest
  <2>5. SUFFICES ASSUME v \in calm
                 PROVE  VerifyQuiet(v)'
    BY <2>2 DEF VerifyQuiet
  <2>6. /\ now.names = Present /\ now.file = manifest /\ ManifestParses(manifest)
        /\ now.todo \subseteq DOMAIN listed
        /\ now.ok <=> \A b \in DOMAIN listed \ now.todo : Matches(v, b)
    BY <2>2, <2>5 DEF VerifyQuiet
  <2>7. DOMAIN listed \ (now.todo \ {a}) = (DOMAIN listed \ now.todo) \cup {a}
    BY <2>2, <2>6
  <2>8. check'[v].ok <=> \A b \in DOMAIN listed \ (now.todo \ {a}) : Matches(v, b)'
    BY <2>2, <2>3, <2>6, <2>7
  <2> HIDE DEF now, listed
  <2> QED BY <1>0, <1>1, <2>2, <2>4, <2>6, <2>8 DEF VerifyQuiet, now, listed
<1>6. CASE VerifyConclude(v)
  <2>1. calm' = calm /\ check'[v].pc = "report"
    BY <1>0, <1>6 DEF VerifyConclude, workspace
  <2>2. CASE v \in calm
    BY <1>6, <2>1, <2>2, ConcludedRight DEF VerifyQuiet
  <2> QED BY <2>1, <2>2 DEF VerifyQuiet
<1>7. CASE VerifyAbort(v)
  BY <1>0, <1>7 DEF VerifyAbort, VerifyKilled, VerifyQuiet
<1> QED BY <1>2, <1>3, <1>4, <1>5, <1>6, <1>7 DEF Verifying, VerifyStep

(***************************************************************************)
(* The inductive invariant, and what it is for.                            *)
(***************************************************************************)
LEMMA QuietInit == Init => QuietInv
<1>1. ASSUME Init
      PROVE  /\ calm = {} /\ manifest = NoFile
             /\ \A s \in Sealer : seal[s].pc = "idle"
  BY <1>1 DEF Init, WorkspaceInit, SealInit, SealIdle
<1> QED BY <1>1 DEF QuietInv, SealQuiet, ReadingHolds, StampQuiet, VerifyQuiet,
                    RacingSealsAgree, ManifestParses, Sentinel

LEMMA QuietStep == TypeOK /\ QuietInv /\ [Next]_vars => QuietInv'
<1> SUFFICES ASSUME TypeOK, QuietInv, [Next]_vars
             PROVE  QuietInv'
  OBVIOUS
<1>1. ASSUME NEW s \in Sealer PROVE SealQuiet(s)'
  BY SealQuietLater, SealQuietStep DEF QuietInv
<1>2. ASSUME NEW s \in Stamper PROVE StampQuiet(s)'
  BY StampQuietLater, StampQuietStep DEF QuietInv
<1>3. ASSUME NEW v \in Verifier PROVE VerifyQuiet(v)'
  BY VerifyQuietLater, VerifyQuietStep DEF QuietInv
<1>4. RacingSealsAgree'
  BY RacingSealsStep DEF QuietInv
<1> QED BY <1>1, <1>2, <1>3, <1>4 DEF QuietInv

(***************************************************************************)
(* What a run that nobody disturbed has in memory is still what is on disk,*)
(* for any directory, any number of runs and any writes before it.         *)
(***************************************************************************)
THEOREM QuietInvariant == Spec => []QuietInv
<1>1. QED
  BY TypeCorrect, QuietInit, QuietStep, PTL DEF Spec

(***************************************************************************)
(* A seal that was not disturbed covers the directory.                     *)
(***************************************************************************)
THEOREM SealCovers == Spec => []SealCoversDirectory
<1>1. QuietInv => SealCoversDirectory
  BY DEF QuietInv, SealQuiet, ReadingHolds, SealCoversDirectory
<1> QED BY <1>1, QuietInvariant, PTL

(***************************************************************************)
(* Seals that only race each other leave no manifest that lists anything   *)
(* but what is in the directory, whatever their number and interleaving.   *)
(***************************************************************************)
THEOREM RacingSeals == Spec => []RacingSealsAgree
<1>1. QuietInv => RacingSealsAgree
  BY DEF QuietInv
<1> QED BY <1>1, QuietInvariant, PTL

(***************************************************************************)
(* Seals of the same capture give their bundles the same identifier,       *)
(* whenever they run and however they race (bundleID).                     *)
(***************************************************************************)
THEOREM SameId == Spec => []SameCaptureSameId
<1>1. QuietInv => SameCaptureSameId
  <2> SUFFICES ASSUME QuietInv, NEW s \in Sealer, NEW p \in Sealer, writes = 0,
                      seal[s].pc = "sealed", seal[p].pc = "sealed",
                      \/ ~seal[s].external /\ ~seal[p].external
                      \/ SubjectOf[seal[s].manifest.capture[2]]
                           = SubjectOf[seal[p].manifest.capture[2]]
               PROVE  BundleID(seal[s].manifest) = BundleID(seal[p].manifest)
    BY DEF SameCaptureSameId
  <2>1. ReadingHolds(s) /\ ReadingHolds(p)
    BY DEF QuietInv, SealQuiet
  <2>2. seal[s].manifest.artifacts = seal[p].manifest.artifacts
    BY <2>1 DEF ReadingHolds
  <2>3. SubjectOf[seal[s].manifest.capture[2]] = SubjectOf[seal[p].manifest.capture[2]]
    BY <2>1 DEF ReadingHolds
  <2> QED  BY <2>2, <2>3 DEF BundleID
<1> QED BY <1>1, QuietInvariant, PTL

(***************************************************************************)
(* What a stamp that was not disturbed stored is accepted by the next      *)
(* verification of the manifest on disk.                                   *)
(***************************************************************************)
THEOREM StampVerifies == Spec => []StampedTokenVerifies
<1>1. TypeOK /\ QuietInv => StampedTokenVerifies
  <2> SUFFICES ASSUME TypeOK, QuietInv, NEW s \in Stamper, s \in calm,
                      stamp[s].pc = "stamped"
               PROVE  /\ ResponseParses(token)
                      /\ TokenVerifies(ParseResponse(token), Sha256(manifest),
                                       {}, FALSE)
    BY DEF StampedTokenVerifies
  <2>1. /\ token = Whole(stamp[s].token) /\ stamp[s].digest = Sha256(manifest)
        /\ TokenVerifies(stamp[s].token, stamp[s].digest, {}, FALSE)
    BY DEF QuietInv, StampQuiet
  <2>2. stamp[s].token \in Token
    BY StampStates DEF TypeOK, StampType, StoreRecord
  <2>3. token \notin Sentinel
    <3>1. Whole(stamp[s].token) \in [data : Token, rest : Seq(Token \cup {Junk})]
      BY <2>2 DEF Whole
    <3> QED BY <2>1, <3>1, TokenSentinelAssumption
  <2>4. ResponseParses(token) /\ ParseResponse(token) = stamp[s].token
    BY <2>1, <2>3 DEF ResponseParses, ParseResponse, Whole
  <2> QED BY <2>1, <2>4
<1> QED BY <1>1, TypeCorrect, QuietInvariant, PTL

(***************************************************************************)
(* The report of a verification that was not disturbed passes exactly when *)
(* the bundle is intact.                                                   *)
(***************************************************************************)
THEOREM VerdictRight == Spec => []VerdictIsRight
<1>1. QuietInv => VerdictIsRight
  BY DEF QuietInv, VerifyQuiet, VerdictIsRight
<1> QED BY <1>1, QuietInvariant, PTL

=============================================================================
