-------------------------- MODULE PevEvidenceProofs -------------------------
(***************************************************************************)
(* What holds of Pev for all constants: when a manifest was sealed, what   *)
(* request a stored token answers, and what an accepted timestamp proves.  *)
(***************************************************************************)
EXTENDS PevTypeProofs

(***************************************************************************)
(* The history only grows, and time does not go back: what existed by some *)
(* time, existed by every later one.                                       *)
(***************************************************************************)
LEMMA Monotone ==
  ASSUME TypeOK, [Next]_vars
  PROVE  /\ seen \subseteq seen' /\ sent \subseteq sent' /\ issued \subseteq issued'
         /\ clock \in Nat /\ clock' \in Nat /\ clock <= clock'
<1>1. clock \in Nat
  BY DEF TypeOK, WorkspaceType
<1>2. CASE Environment
  <2>1. UNCHANGED <<sent, issued>>
    BY <1>2 DEF Environment, stamping
  <2>2. ASSUME NEW a, NEW c, WorkerWrite(a, c)
        PROVE  seen \subseteq seen' /\ clock' = clock
    BY <2>2 DEF WorkerWrite
  <2>3. ASSUME NEW a, EditManifest(a) \/ DamageManifest(a) \/ ClearDirectory
        PROVE  UNCHANGED <<seen, clock>>
    BY <2>3 DEF EditManifest, DamageManifest, ClearDirectory
  <2>4. ASSUME Tick
        PROVE  seen' = seen /\ clock' = clock + 1
    BY <2>4 DEF Tick
  <2> QED BY <1>1, <1>2, <2>1, <2>2, <2>3, <2>4 DEF Environment
<1>3. CASE Authority
  <2>1. ASSUME Signing
        PROVE  UNCHANGED <<seen, sent, clock>> /\ issued \subseteq issued'
    BY <2>1, SigningSigns DEF Signed, workspace
  <2>2. ASSUME NEW x, ReplaceToken(x)
        PROVE  UNCHANGED <<seen, sent, issued, clock>>
    BY <2>2 DEF ReplaceToken, stamping
  <2> QED BY <1>1, <1>3, <2>1, <2>2 DEF Authority
<1>4. ASSUME NEW s \in Sealer, Sealing(s)
      PROVE  UNCHANGED <<seen, sent, issued, clock>>
  BY <1>4, SealingLeaves
<1>5. ASSUME NEW s \in Stamper, Stamping(s)
      PROVE  /\ UNCHANGED <<seen, issued, clock>>
             /\ sent \subseteq sent'
  BY <1>5, StampingLeaves DEF StampAsk
<1>6. ASSUME NEW v \in Verifier, Verifying(v)
      PROVE  UNCHANGED <<seen, sent, issued, clock>>
  BY <1>6, VerifyingLeaves
<1>7. CASE UNCHANGED vars
  BY <1>1, <1>7 DEF vars, workspace, stamping
<1> QED BY <1>1, <1>2, <1>3, <1>4, <1>5, <1>6, <1>7 DEF Next

ExistedIn(h, a, c, t) == \E e \in h : e[1] = a /\ e[2] = c /\ e[3] <= t

DatedIn(h, l, t) ==
  \A a \in DOMAIN l : \E c \in Content : l[a] = Sha256(c) /\ ExistedIn(h, a, c, t)

LEMMA ExistedLater ==
  ASSUME NEW h \in SUBSET (Path \X Content \X Nat), NEW k, h \subseteq k,
         NEW t \in Nat, NEW u \in Nat, t <= u, NEW a, NEW c,
         ExistedIn(h, a, c, t)
  PROVE  ExistedIn(k, a, c, u)
BY DEF ExistedIn

LEMMA DatedLater ==
  ASSUME NEW h \in SUBSET (Path \X Content \X Nat), NEW k, h \subseteq k,
         NEW t \in Nat, NEW u \in Nat, t <= u, NEW l,
         DatedIn(h, l, t)
  PROVE  DatedIn(k, l, u)
BY ExistedLater DEF DatedIn

\* The same operators, with the history as the parameter.
LEMMA WithHistory ==
  /\ \A a, c, t : Existed(a, c, t) <=> ExistedIn(seen, a, c, t)
  /\ \A l, t : Dated(l, t) <=> DatedIn(seen, l, t)
BY DEF Existed, ExistedIn, Dated, DatedIn

(***************************************************************************)
(* Sealing.  The invariant speaks of files, the history, the clock and the *)
(* seals: only the environment and the seals themselves touch those.       *)
(***************************************************************************)
LEMMA HistoryPreserved ==
  ASSUME TypeOK, [Next]_vars, HistoryIsPast, FilesAreSeen
  PROVE  HistoryIsPast' /\ FilesAreSeen'
<1> USE DEF HistoryIsPast, FilesAreSeen
<1>0. /\ clock \in Nat /\ seen \subseteq Path \X Content \X Nat
      /\ files \in [Path -> Content \cup {NoFile}]
  BY DEF TypeOK, WorkspaceType
<1>1. ASSUME NEW a \in Path, NEW c \in Content \cup {NoFile}, WorkerWrite(a, c)
      PROVE  HistoryIsPast' /\ FilesAreSeen'
  <2>1. clock' = clock /\ files' = [files EXCEPT ![a] = c]
    BY <1>1 DEF WorkerWrite
  <2>2. CASE c = NoFile \/ Existed(a, c, clock)
    <3>1. seen' = seen
      BY <1>1, <2>2 DEF WorkerWrite
    <3>2. ASSUME NEW b \in Path, files'[b] # NoFile
          PROVE  Existed(b, files'[b], clock)
      BY <1>0, <2>1, <2>2, <3>2 DEF Present
    <3> QED BY <2>1, <3>1, <3>2 DEF Present, Existed
  <2>3. CASE ~(c = NoFile \/ Existed(a, c, clock))
    <3>1. seen' = seen \cup {<<a, c, clock>>}
      BY <1>1, <2>3 DEF WorkerWrite
    <3>2. HistoryIsPast'
      BY <1>0, <2>1, <3>1
    <3>3. ASSUME NEW b \in Path, files'[b] # NoFile
          PROVE  \E e \in seen' : e[1] = b /\ e[2] = files'[b] /\ e[3] <= clock
      <4>1. CASE b = a
        <5> DEFINE e == <<a, c, clock>>
        <5>1. e \in seen' /\ e[1] = b /\ e[2] = files'[b] /\ e[3] <= clock
          BY <1>0, <2>1, <3>1, <4>1
        <5> HIDE DEF e
        <5> QED BY <5>1
      <4>2. CASE b # a
        <5>1. files'[b] = files[b] /\ b \in Present
          BY <1>0, <2>1, <3>3, <4>2 DEF Present
        <5> QED BY <3>1, <5>1 DEF Existed
      <4> QED BY <4>1, <4>2
    <3> QED BY <2>1, <3>2, <3>3 DEF Present, Existed
  <2> QED BY <2>2, <2>3
<1>2. CASE Tick
  <2>1. clock' = clock + 1 /\ UNCHANGED <<files, seen>>
    BY <1>2 DEF Tick
  <2> QED BY <1>0, <2>1 DEF Present, Existed
<1>3. CASE UNCHANGED <<files, seen, clock>>
  BY <1>3 DEF Present, Existed
<1>4. CASE ClearDirectory
  BY <1>0, <1>4 DEF ClearDirectory, Present, Existed
<1>5. \/ \E a \in Path, c \in Content \cup {NoFile} : WorkerWrite(a, c)
      \/ Tick
      \/ ClearDirectory
      \/ UNCHANGED <<files, seen, clock>>
  <2>1. CASE Environment
    BY <2>1 DEF Environment, EditManifest, DamageManifest
  <2>2. CASE Authority
    BY <2>2, SigningSigns DEF Authority, Signed, ReplaceToken, workspace
  <2>3. ASSUME NEW s \in Sealer, Sealing(s)
        PROVE  UNCHANGED <<files, seen, clock>>
    BY <2>3, SealingLeaves
  <2>4. ASSUME NEW s \in Stamper, Stamping(s)
        PROVE  UNCHANGED <<files, seen, clock>>
    BY <2>4, StampingLeaves
  <2>5. ASSUME NEW v \in Verifier, Verifying(v)
        PROVE  UNCHANGED <<files, seen, clock>>
    BY <2>5, VerifyingLeaves
  <2>6. CASE UNCHANGED vars
    BY <2>6, StutteringLeaves
  <2> QED BY <2>1, <2>2, <2>3, <2>4, <2>5, <2>6 DEF Next
<1> QED BY <1>1, <1>2, <1>3, <1>4, <1>5

\* What SealInv says of one run, with the history and the time as parameters.
CaptureIn(h, capture, t) ==
  \E c \in GoodCapture :
    capture = ParseCapture(c) /\ ExistedIn(h, CapturePath, c, t)

SealOne(h, now, r) ==
  /\ r.pc \in {"list", "hash"} /\ ~r.external => CaptureIn(h, r.capture, now)
  /\ r.pc = "hash" => DatedIn(h, r.artifacts, now)
  /\ r.pc \in {"write", "sealed"} =>
       /\ r.manifest.sealedAt <= now /\ DatedIn(h, r.manifest.artifacts, now)
       /\ DatedIn(h, r.manifest.artifacts, SecondAfter(r.manifest.sealedAt))
       /\ ~r.external =>
            CaptureIn(h, r.manifest.capture, SecondAfter(r.manifest.sealedAt))

\* The end of a second that is written down is an instant.
LEMMA SecondAfterNat == \A t \in Nat : SecondAfter(t) \in Nat
BY SecondAssumption DEF SecondAfter

LEMMA CaptureLater ==
  ASSUME NEW h \in SUBSET (Path \X Content \X Nat), NEW k, h \subseteq k,
         NEW t \in Nat, NEW u \in Nat, t <= u, NEW c, CaptureIn(h, c, t)
  PROVE  CaptureIn(k, c, u)
BY ExistedLater DEF CaptureIn

LEMMA SealInvByRun ==
  SealInv <=> /\ HistoryIsPast /\ FilesAreSeen
              /\ \A s \in Sealer : SealOne(seen, clock, seal[s])
BY DEF SealInv, SealedAtIsLast, SealOne, CaptureRead, CaptureIn, Existed, ExistedIn,
       Dated, DatedIn

LEMMA SealOneLater ==
  ASSUME NEW h \in SUBSET (Path \X Content \X Nat), NEW k, h \subseteq k,
         NEW t \in Nat, NEW u \in Nat, t <= u,
         NEW r \in SealState, SealOne(h, t, r)
  PROVE  SealOne(k, u, r)
<1>1. \A c : CaptureIn(h, c, t) => CaptureIn(k, c, u)
  BY CaptureLater
<1>2. CASE r.pc \in {"list", "hash"}
  BY <1>1, <1>2, DatedLater DEF SealOne
<1>3. CASE r.pc \in {"write", "sealed"}
  <2>1. r.manifest.sealedAt \in Nat
    BY <1>3 DEF SealState, SealIdle, SealFailed, Manifest
  <2> DEFINE end == SecondAfter(r.manifest.sealedAt)
  <2>2. end \in Nat
    BY <2>1, SecondAfterNat
  <2> HIDE DEF end
  <2>3. /\ \A c : CaptureIn(h, c, end) => CaptureIn(k, c, end)
        /\ \A l : DatedIn(h, l, end) => DatedIn(k, l, end)
        /\ \A l : DatedIn(h, l, t) => DatedIn(k, l, u)
    BY <2>2, CaptureLater, DatedLater
  <2> QED BY <1>3, <2>1, <2>3 DEF SealOne, end
<1> QED BY <1>2, <1>3 DEF SealOne

\* A step of the run s itself.
LEMMA SealOneStep ==
  ASSUME TypeOK, SealInv, NEW s \in Sealer, Sealing(s)
  PROVE  SealOne(seen, clock, seal'[s])
<1>0. /\ SealOne(seen, clock, seal[s]) /\ FilesAreSeen
      /\ seal \in [Sealer -> SealState] /\ clock \in Nat
  BY SealInvByRun DEF TypeOK, SealType, WorkspaceType
<1>1. ASSUME NEW external \in SealOptions, SealStart(s, external)
      PROVE  SealOne(seen, clock, seal'[s])
  <2> PICK c \in GoodCapture :
        /\ external \/ c = files[CapturePath]
        /\ seal' = [seal EXCEPT ![s] =
             [pc |-> "list", capture |-> ParseCapture(c), external |-> external]]
    BY <1>1 DEF SealStart
  <2>1. ~external => ExistedIn(seen, CapturePath, c, clock)
    BY <1>0, EvidenceAssumption
       DEF FilesAreSeen, Present, Existed, ExistedIn, Sentinel
  <2> QED BY <1>0, <2>1 DEF SealOne, CaptureIn
<1>2. ASSUME SealList(s)
      PROVE  SealOne(seen, clock, seal'[s])
  <2>1. DatedIn(seen, NoEntry, clock)
    BY DEF DatedIn, NoEntry
  <2> QED BY <1>0, <1>2, <2>1 DEF SealList, SealOne
<1>3. ASSUME NEW a \in Path, SealHash(s, a)
      PROVE  SealOne(seen, clock, seal'[s])
  <2> DEFINE l == WithEntry(seal[s].artifacts, a, Sha256(files[a]))
  <2>1. /\ seal'[s].pc = "hash" /\ seal'[s].capture = seal[s].capture
        /\ seal'[s].external = seal[s].external /\ seal'[s].artifacts = l
    <3>1. seal[s] \in [pc : {"hash"}, capture : Capture, external : BOOLEAN,
                       todo : SUBSET Path, artifacts : Listing]
      BY <1>0, <1>3 DEF SealHash, SealState, SealIdle, SealFailed
    <3> QED BY <1>0, <1>3, <3>1 DEF SealHash
  <2>2. files[a] \in Content /\ ExistedIn(seen, a, files[a], clock)
    BY <1>0, <1>3 DEF SealHash, TypeOK, WorkspaceType, FilesAreSeen, Present,
                      Existed, ExistedIn
  <2>3. DatedIn(seen, seal[s].artifacts, clock)
    BY <1>0, <1>3 DEF SealHash, SealOne
  <2>4. DatedIn(seen, l, clock)
    BY <2>2, <2>3 DEF DatedIn, WithEntry
  <2> QED BY <1>0, <1>3, <2>1, <2>4 DEF SealHash, SealOne
<1>4. ASSUME seal' = [seal EXCEPT ![s] = SealFailed]
      PROVE  SealOne(seen, clock, seal'[s])
  BY <1>0, <1>4 DEF SealOne, SealFailed
<1>5. ASSUME SealTruncate(s)
      PROVE  SealOne(seen, clock, seal'[s])
  <2> DEFINE at == Truncate(clock)
             end == SecondAfter(at)
             m == [sealedAt |-> at, capture |-> seal[s].capture,
                   artifacts |-> seal[s].artifacts]
  <2>1. seal'[s] = [pc |-> "write", external |-> seal[s].external, manifest |-> m]
    BY <1>0, <1>5 DEF SealTruncate, ManifestOpened
  <2>2. seal[s].pc = "hash"
    BY <1>5 DEF SealTruncate, ManifestOpened
  <2>3. at \in Nat /\ at <= clock /\ end \in Nat /\ clock <= end
    BY <1>0, TruncateBounds, SecondAfterNat
  <2>4. /\ DatedIn(seen, seal[s].artifacts, clock)
        /\ ~seal[s].external => CaptureIn(seen, seal[s].capture, clock)
    BY <1>0, <2>2 DEF SealOne
  <2>5. seen \in SUBSET (Path \X Content \X Nat)
    BY DEF TypeOK, WorkspaceType
  <2> HIDE DEF at
  <2>6. /\ DatedIn(seen, seal[s].artifacts, end)
        /\ ~seal[s].external => CaptureIn(seen, seal[s].capture, end)
    BY <1>0, <2>3, <2>4, <2>5, DatedLater, CaptureLater
  <2> QED BY <2>1, <2>3, <2>4, <2>6 DEF SealOne
<1>6. ASSUME SealWrite(s)
      PROVE  SealOne(seen, clock, seal'[s])
  <2>1. seal[s] \in [pc : {"write", "sealed"}, manifest : Manifest,
                     external : BOOLEAN]
    BY <1>0, <1>6 DEF SealWrite, SealState, SealIdle, SealFailed
  <2>2. /\ seal'[s].pc = "sealed" /\ seal'[s].manifest = seal[s].manifest
        /\ seal'[s].external = seal[s].external
    BY <1>0, <1>6, <2>1 DEF SealWrite
  <2> QED BY <1>0, <1>6, <2>2 DEF SealWrite, SealOne
<1> QED BY <1>1, <1>2, <1>3, <1>4, <1>5, <1>6
           DEF Sealing, SealStep, SealVanished, SealNothing, SealShortWrite,
               SealAbort, SealFails

LEMMA SealInvPreserved ==
  ASSUME TypeOK, SealInv, [Next]_vars
  PROVE  SealInv'
<1>1. HistoryIsPast' /\ FilesAreSeen'
  BY HistoryPreserved DEF SealInv
<1>2. /\ seen \in SUBSET (Path \X Content \X Nat) /\ seen \subseteq seen'
      /\ clock \in Nat /\ clock' \in Nat /\ clock <= clock'
  BY Monotone DEF TypeOK, WorkspaceType
<1>3. ASSUME NEW s \in Sealer
      PROVE  SealOne(seen', clock', seal'[s])
  <2>1. seal[s] \in SealState /\ SealOne(seen, clock, seal[s])
    BY SealInvByRun DEF TypeOK, SealType
  <2>2. CASE seal'[s] = seal[s]
    BY <1>2, <2>1, <2>2, SealOneLater
  <2>3. CASE Sealing(s)
    <3>1. UNCHANGED <<seen, clock>>
      BY <2>3, SealingLeaves
    <3> QED BY <2>3, <3>1, SealOneStep
  <2>4. ASSUME NEW p \in Sealer \ {s}, Sealing(p)
        PROVE  seal'[s] = seal[s]
    BY <2>4, SealingLeaves DEF TypeOK
  <2>5. ASSUME \/ Environment \/ Authority
               \/ \E p \in Stamper : Stamping(p)
               \/ \E v \in Verifier : Verifying(v)
               \/ UNCHANGED vars
        PROVE  seal'[s] = seal[s]
    BY <2>5 DEF Environment, Authority, Stamping, Verifying, vars
  <2> QED BY <2>2, <2>3, <2>4, <2>5 DEF Next
<1>4. (\A s \in Sealer : SealOne(seen, clock, seal[s]))'
  BY <1>3
<1> QED BY <1>1, <1>4, SealInvByRun, PTL

LEMMA SealInvInit == Init => SealInv
<1> SUFFICES ASSUME Init PROVE SealInv
  OBVIOUS
<1>1. seen = {<<a, files[a], 0>> : a \in Present} /\ clock = 0
  BY DEF Init, WorkspaceInit
<1>2. HistoryIsPast
  BY <1>1 DEF HistoryIsPast
<1>3. ASSUME NEW a \in Present
      PROVE  Existed(a, files[a], clock)
  <2> DEFINE e == <<a, files[a], 0>>
  <2>1. e \in seen /\ e[1] = a /\ e[2] = files[a] /\ e[3] <= clock
    BY <1>1
  <2> HIDE DEF e
  <2> QED BY <2>1 DEF Existed
<1>4. \A s \in Sealer : seal[s].pc = "idle"
  BY DEF Init, SealInit, SealIdle
<1> QED BY <1>2, <1>3, <1>4 DEF SealInv, SealedAtIsLast, FilesAreSeen

(***************************************************************************)
(* What a manifest lists existed before the second that its sealed_at      *)
(* names was over, whatever runs and whatever writes: Seal takes the time  *)
(* after it has hashed the last file, and cuts it to the second.           *)
(***************************************************************************)
THEOREM SealedLast == Spec => []SealedAtIsLast
<1>1. SealInv => SealedAtIsLast
  BY DEF SealInv
<1> QED BY <1>1, SealInvInit, SealInvPreserved, TypeCorrect, PTL DEF Spec

(***************************************************************************)
(* Stamping.                                                               *)
(***************************************************************************)

\* What StampInv says of one run.
StampOne(r, out, signed, now) ==
  /\ r.pc \in {"ask", "write", "stamped"} =>
       /\ [digest |-> r.digest, nonce |-> r.nonce] \in out
       /\ r.askedAt <= now
       /\ \A t \in signed : t.signer \in Trusted /\ t.nonce = r.nonce =>
                             r.askedAt <= SecondAfter(t.genTime)
  /\ r.pc \in {"write", "stamped"} =>
       /\ r.token \in signed
       /\ r.token.imprint = r.digest /\ r.token.nonce = r.nonce

LEMMA StampInvByRun ==
  StampInv <=> /\ NoncesAreFresh /\ IssuedOnRequest
               /\ \A p \in Stamper : StampOne(stamp[p], sent, issued, clock)
BY DEF StampInv, StampOne

\* Another run sends a request: its nonce is not one of ours.
LEMMA StampInvAsk ==
  ASSUME TypeOK, StampInv, NEW s \in Stamper, StampAsk(s)
  PROVE  StampInv'
<1> DEFINE q == [digest |-> Sha256(manifest), nonce |-> nextNonce]
           r == [pc |-> "ask", digest |-> Sha256(manifest), nonce |-> nextNonce,
                 askedAt |-> clock, tried |-> {DefaultTSA}]
<1>1. /\ sent' = sent \cup {q} /\ nextNonce' = nextNonce + 1
      /\ UNCHANGED <<issued, clock>>
      /\ stamp' = [stamp EXCEPT ![s] = r]
  BY DEF StampAsk
<1>2. /\ nextNonce \in Nat /\ clock \in Nat
      /\ \A p \in sent : p.nonce \in Nat /\ p.nonce < nextNonce
      /\ stamp \in [Stamper -> StampState]
  BY DEF TypeOK, StampType, WorkspaceType, Request, StampInv, NoncesAreFresh
<1>3. NoncesAreFresh'
  <2>1. \A p \in sent' : p.nonce < nextNonce'
    BY <1>1, <1>2
  <2>2. \A p \in sent', o \in sent' : p.nonce = o.nonce => p = o
    BY <1>1, <1>2 DEF StampInv, NoncesAreFresh
  <2> QED BY <2>1, <2>2 DEF NoncesAreFresh
<1>4. IssuedOnRequest'
  BY <1>1 DEF StampInv, IssuedOnRequest
<1>5. ASSUME NEW t \in issued, t.signer \in Trusted
      PROVE  t.nonce # nextNonce
  <2>1. [digest |-> t.imprint, nonce |-> t.nonce] \in sent
    BY <1>5 DEF StampInv, IssuedOnRequest
  <2>2. [digest |-> t.imprint, nonce |-> t.nonce].nonce < nextNonce
    BY <2>1, <1>2
  <2> QED BY <2>2, <1>2
<1>6. ASSUME NEW p \in Stamper
      PROVE  StampOne(stamp'[p], sent', issued', clock')
  <2>1. CASE p = s
    <3>1. stamp'[p] = r
      BY <1>1, <1>2, <2>1
    <3> QED BY <1>1, <1>2, <1>5, <3>1 DEF StampOne
  <2>2. CASE p # s
    <3>1. stamp'[p] = stamp[p]
      BY <1>1, <1>2, <2>2
    <3> QED BY <1>1, <3>1, StampInvByRun DEF StampOne
  <2> QED BY <2>1, <2>2
<1> QED BY <1>3, <1>4, <1>6 DEF StampInv, StampOne

\* An authority under the roots answers a request that is out, under the present
\* second; of what others sign nothing is claimed.
LEMMA StampInvIssue ==
  ASSUME TypeOK, StampInv, Signing
  PROVE  StampInv'
<1> PICK t \in Token :
      /\ Signed(t)
      /\ t.signer \in Trusted =>
           /\ [digest |-> t.imprint, nonce |-> t.nonce] \in sent
           /\ t.genTime <= clock /\ clock <= SecondAfter(t.genTime)
  BY SigningSigns
<1>1. /\ issued' = issued \cup {t}
      /\ UNCHANGED <<sent, nextNonce, clock, stamp>>
  BY DEF Signed, workspace
<1>2. clock \in Nat /\ t.genTime \in Nat /\ SecondAfter(t.genTime) \in Nat
  BY SecondAfterNat DEF TypeOK, WorkspaceType, Token
<1>3. NoncesAreFresh'
  BY <1>1 DEF StampInv, NoncesAreFresh
<1>4. IssuedOnRequest'
  BY <1>1 DEF StampInv, IssuedOnRequest
<1>5. ASSUME NEW p \in Stamper
      PROVE  StampOne(stamp'[p], sent', issued', clock')
  <2>1. stamp[p] \in StampState /\ StampOne(stamp[p], sent, issued, clock)
    BY StampInvByRun DEF TypeOK, StampType
  <2>2. stamp[p].pc \in {"ask", "write", "stamped"} => stamp[p].askedAt \in Nat
    BY <2>1, StampStates DEF AskRecord, StoreRecord
  <2>3. ASSUME stamp[p].pc \in {"ask", "write", "stamped"}, t.signer \in Trusted
        PROVE  stamp[p].askedAt <= SecondAfter(t.genTime)
    BY <1>2, <2>1, <2>2, <2>3 DEF StampOne
  <2> QED BY <1>1, <2>1, <2>3 DEF StampOne
<1> QED BY <1>3, <1>4, <1>5 DEF StampInv, StampOne

\* A sound answer is a token that was issued.
LEMMA AcceptableIssued ==
  ASSUME TypeOK, NEW s \in Stamper, NEW t \in Reply, Acceptable(s, t)
  PROVE  t \in issued /\ t.nonce = stamp[s].nonce /\ t.imprint = stamp[s].digest
BY ReplyToken DEF TypeOK, Acceptable, TokenVerifies

\* The other steps of a run leave the requests and the tokens alone.
LEMMA StampInvStep ==
  ASSUME TypeOK, StampInv, NEW s \in Stamper, Stamping(s), ~StampAsk(s)
  PROVE  StampInv'
<1>0. /\ StampOne(stamp[s], sent, issued, clock)
      /\ stamp \in [Stamper -> StampState]
  BY StampInvByRun DEF TypeOK, StampType
<1>1. UNCHANGED <<sent, issued, nextNonce, clock>>
  BY StampingLeaves
<1>2. ASSUME NEW t \in Reply, StampStore(s, t)
      PROVE  /\ StampOne(stamp'[s], sent, issued, clock)
             /\ \A p \in Stamper \ {s} : stamp'[p] = stamp[p]
  <2>1. t \in issued /\ t.nonce = stamp[s].nonce /\ t.imprint = stamp[s].digest
    BY <1>2, AcceptableIssued DEF StampStore, TokenOpened
  <2> QED BY <1>0, <1>2, <2>1 DEF StampStore, TokenOpened, StampOne
<1>3. ASSUME NEW why, StampFails(s, why)
      PROVE  /\ StampOne(stamp'[s], sent, issued, clock)
             /\ \A p \in Stamper \ {s} : stamp'[p] = stamp[p]
  BY <1>0, <1>3 DEF StampFails, StampOne
<1>4. ASSUME StampWrite(s)
      PROVE  /\ StampOne(stamp'[s], sent, issued, clock)
             /\ \A p \in Stamper \ {s} : stamp'[p] = stamp[p]
  <2>1. stamp[s] \in StoreRecord
    BY <1>0, <1>4, StampStates DEF StampWrite
  <2>2. stamp' = [stamp EXCEPT ![s] = [stamp[s] EXCEPT !.pc = "stamped"]]
    BY <1>0, <1>4 DEF StampWrite
  <2>3. /\ stamp'[s] = [stamp[s] EXCEPT !.pc = "stamped"]
        /\ \A p \in Stamper \ {s} : stamp'[p] = stamp[p]
    BY <1>0, <2>2
  <2>4. /\ stamp'[s].digest = stamp[s].digest /\ stamp'[s].nonce = stamp[s].nonce
        /\ stamp'[s].askedAt = stamp[s].askedAt
        /\ stamp'[s].token = stamp[s].token
    BY <2>1, <2>3 DEF StoreRecord
  <2> QED BY <1>0, <1>4, <2>3, <2>4 DEF StampWrite, StampOne
<1>5. /\ StampOne(stamp'[s], sent, issued, clock)
      /\ \A p \in Stamper \ {s} : stamp'[p] = stamp[p]
  BY <1>2, <1>3, <1>4 DEF Stamping, StampStep, StampRefuse, StampDenied,
                          StampUnreachable, StampShortWrite, StampAbort
<1>6. ASSUME NEW p \in Stamper
      PROVE  StampOne(stamp'[p], sent', issued', clock')
  BY <1>1, <1>5, StampInvByRun
<1>7. NoncesAreFresh' /\ IssuedOnRequest'
  BY <1>1 DEF StampInv, NoncesAreFresh, IssuedOnRequest
<1> QED BY <1>6, <1>7 DEF StampInv, StampOne

LEMMA StampInvPreserved ==
  ASSUME TypeOK, StampInv, [Next]_vars
  PROVE  StampInv'
<1>1. CASE UNCHANGED <<stamp, sent, issued, nextNonce>>
  <2>1. clock \in Nat /\ clock' \in Nat /\ clock <= clock'
    BY Monotone
  <2>2. NoncesAreFresh'
    BY <1>1 DEF StampInv, NoncesAreFresh
  <2>3. issued \subseteq Token
    BY DEF TypeOK, StampType
  <2>4. IssuedOnRequest'
    <3>1. ASSUME NEW t \in issued, t.signer \in Trusted
          PROVE  /\ t.genTime <= clock'
                 /\ [digest |-> t.imprint, nonce |-> t.nonce] \in sent
      <4>1. /\ t.genTime \in Nat /\ t.genTime <= clock
            /\ [digest |-> t.imprint, nonce |-> t.nonce] \in sent
        BY <2>3, <3>1 DEF StampInv, IssuedOnRequest, Token
      <4> QED BY <2>1, <4>1
    <3> QED BY <1>1, <3>1 DEF IssuedOnRequest
  <2>5. ASSUME NEW p \in Stamper
        PROVE  StampOne(stamp'[p], sent', issued', clock')
    <3>1. stamp[p] \in StampState /\ StampOne(stamp[p], sent, issued, clock)
      BY StampInvByRun DEF TypeOK, StampType
    <3>2. stamp[p].pc \in {"ask", "write", "stamped"} => stamp[p].askedAt \in Nat
      BY <3>1, StampStates DEF AskRecord, StoreRecord
    <3> QED BY <1>1, <2>1, <3>1, <3>2 DEF StampOne
  <2> QED BY <2>2, <2>4, <2>5 DEF StampInv, StampOne
<1>2. ASSUME NEW s \in Stamper, Stamping(s)
      PROVE  StampInv'
  BY <1>2, StampInvAsk, StampInvStep
<1>3. CASE Authority
  <2>1. ASSUME NEW x, ReplaceToken(x)
        PROVE  UNCHANGED <<stamp, sent, issued, nextNonce>>
    BY <2>1 DEF ReplaceToken, stamping
  <2> QED BY <1>1, <1>3, <2>1, StampInvIssue DEF Authority
<1>4. ASSUME \/ Environment \/ UNCHANGED vars
             \/ \E s \in Sealer : Sealing(s)
             \/ \E v \in Verifier : Verifying(v)
      PROVE  UNCHANGED <<stamp, sent, issued, nextNonce>>
  <2>1. ASSUME NEW v \in Verifier, Verifying(v)
        PROVE  UNCHANGED <<stamp, sent, issued, nextNonce>>
    BY <2>1, VerifyingLeaves
  <2> QED BY <1>4, <2>1 DEF Environment, Sealing, vars, stamping
<1> QED BY <1>1, <1>2, <1>3, <1>4 DEF Next

LEMMA StampInvInit == Init => StampInv
BY DEF Init, StampInit, StampIdle, StampInv, NoncesAreFresh, IssuedOnRequest

(***************************************************************************)
(* Whatever the network delivers, a token that stamp goes on to store was  *)
(* signed as it stands for the digest this run read, under its nonce, and  *)
(* if an authority under the roots signed it, in the second of the request *)
(* or later (runStamp, "never write a token we have not verified against   *)
(* our own request"; the nonce and imprint checks of Token.Verify).        *)
(***************************************************************************)
THEOREM StoredTokenIsAnswer == Spec => []StoredTokenAnswersRequest
<1>1. StampInv => StoredTokenAnswersRequest
  <2> SUFFICES ASSUME StampInv, NEW s \in Stamper,
                      stamp[s].pc \in {"write", "stamped"}
               PROVE  LET t == stamp[s].token
                      IN  /\ t \in issued
                          /\ t.imprint = stamp[s].digest /\ t.nonce = stamp[s].nonce
                          /\ t.signer \in Trusted =>
                               /\ stamp[s].askedAt <= SecondAfter(t.genTime)
                               /\ t.genTime <= clock
    BY DEF StoredTokenAnswersRequest
  <2> DEFINE t == stamp[s].token
  <2>1. /\ t \in issued
        /\ t.imprint = stamp[s].digest /\ t.nonce = stamp[s].nonce
    BY DEF StampInv
  <2>2. ASSUME t.signer \in Trusted
        PROVE  stamp[s].askedAt <= SecondAfter(t.genTime) /\ t.genTime <= clock
    BY <2>1, <2>2 DEF StampInv, IssuedOnRequest
  <2> QED BY <2>1, <2>2
<1> QED BY <1>1, StampInvInit, StampInvPreserved, TypeCorrect, PTL DEF Spec

(***************************************************************************)
(* Evidence.                                                               *)
(***************************************************************************)

\* FileDated and Provenance, with the history as a parameter.
FileIn(h, file, t) ==
  ManifestParses(file) => DatedIn(h, ParseManifest(file).artifacts, t)

LEMMA FileLater ==
  ASSUME NEW h \in SUBSET (Path \X Content \X Nat), NEW k, h \subseteq k,
         NEW t \in Nat, NEW u \in Nat, t <= u, NEW file, FileIn(h, file, t)
  PROVE  FileIn(k, file, u)
BY DatedLater DEF FileIn

ProvenanceIn(h, now, file, out, signed, tsr) ==
  /\ FileIn(h, file, now)
  /\ \A r \in out : FileIn(h, Bytes(r.digest), now)
  /\ \A t \in signed : t.signer \in Trusted =>
       FileIn(h, Bytes(t.imprint), SecondAfter(t.genTime))
  /\ tsr \notin Sentinel => ParseResponse(tsr) \in signed

LEMMA ProvenanceWithHistory ==
  Provenance <=> ProvenanceIn(seen, clock, manifest, sent, issued, token)
BY DEF Provenance, ProvenanceIn, FileDated, FileIn, Dated, DatedIn, Existed,
       ExistedIn

\* Time passes and more is seen.
LEMMA ProvenanceLater ==
  ASSUME NEW h \in SUBSET (Path \X Content \X Nat), NEW k, h \subseteq k,
         NEW t \in Nat, NEW u \in Nat, t <= u, NEW file, NEW out,
         NEW signed \in SUBSET Token, NEW tsr,
         ProvenanceIn(h, t, file, out, signed, tsr)
  PROVE  ProvenanceIn(k, u, file, out, signed, tsr)
<1>1. FileIn(k, file, u)
  BY FileLater DEF ProvenanceIn
<1>2. ASSUME NEW r \in out PROVE FileIn(k, Bytes(r.digest), u)
  BY FileLater DEF ProvenanceIn
<1>3. ASSUME NEW x \in signed, x.signer \in Trusted
      PROVE  FileIn(k, Bytes(x.imprint), SecondAfter(x.genTime))
  <2>1. /\ SecondAfter(x.genTime) \in Nat
        /\ FileIn(h, Bytes(x.imprint), SecondAfter(x.genTime))
    BY <1>3, SecondAfterNat DEF ProvenanceIn, Token
  <2> QED BY <2>1, FileLater
<1> QED BY <1>1, <1>2, <1>3 DEF ProvenanceIn

\* The digest of bytes is of those bytes.
LEMMA BytesOfDigest == \A b : Bytes(Sha256(b)) = b
BY DEF Bytes, Sha256

(***************************************************************************)
(* What a step can put in manifest.json: what was there, the manifest of a *)
(* seal, an edit that lists an artefact as it is, or nothing that decodes. *)
(***************************************************************************)
LEMMA ManifestStays ==
  ASSUME TypeOK, SealInv, Provenance, [Next]_vars
  PROVE  FileIn(seen', manifest', clock')
<1>1. /\ seen \in SUBSET (Path \X Content \X Nat) /\ seen \subseteq seen'
      /\ clock \in Nat /\ clock' \in Nat /\ clock <= clock'
  BY Monotone DEF TypeOK, WorkspaceType
<1>2. FileIn(seen, manifest, clock)
  BY ProvenanceWithHistory DEF ProvenanceIn
<1>3. CASE manifest' = manifest
  BY <1>1, <1>2, <1>3, FileLater
<1>4. CASE manifest' \in Sentinel
  BY <1>4 DEF FileIn, ManifestParses
<1>5. ASSUME NEW a \in Path, EditManifest(a)
      PROVE  FileIn(seen', manifest', clock')
  <2> DEFINE m == ParseManifest(manifest)
             l == WithEntry(m.artifacts, a, Sha256(files[a]))
  <2>1. ParseManifest(manifest').artifacts = l
    <3>1. m \in Manifest
      BY <1>5 DEF EditManifest, TypeOK, WorkspaceType, ManifestFile,
                  ManifestParses, ParseManifest
    <3>2. manifest' = Whole([m EXCEPT !.artifacts = l])
      BY <1>5 DEF EditManifest
    <3> QED BY <3>1, <3>2 DEF Whole, ParseManifest, Manifest
  <2>2. DatedIn(seen, m.artifacts, clock)
    BY <1>2, <1>5 DEF FileIn, EditManifest
  <2>3. files[a] \in Content /\ ExistedIn(seen, a, files[a], clock)
    BY <1>5 DEF EditManifest, TypeOK, WorkspaceType, SealInv, FilesAreSeen,
                Present, Existed, ExistedIn
  <2>4. DatedIn(seen, l, clock)
    BY <2>2, <2>3 DEF DatedIn, WithEntry
  <2>5. UNCHANGED <<seen, clock>>
    BY <1>5 DEF EditManifest
  <2> QED BY <2>1, <2>4, <2>5 DEF FileIn
<1>6. ASSUME NEW s \in Sealer, SealWrite(s)
      PROVE  FileIn(seen', manifest', clock')
  <2>1. /\ seal[s] \in [pc : {"write", "sealed"}, manifest : Manifest,
                        external : BOOLEAN]
        /\ SealOne(seen, clock, seal[s])
    BY <1>6, SealInvByRun
       DEF SealWrite, TypeOK, SealType, SealState, SealIdle, SealFailed
  <2> DEFINE m == seal[s].manifest
  <2>2. m \in Manifest
    BY <2>1
  <2>3. DatedIn(seen, m.artifacts, clock)
    BY <1>6, <2>1 DEF SealWrite, SealOne
  <2>4. ManifestParses(manifest') => ParseManifest(manifest') = m
    BY <1>6, <2>2, OverlaysManifest DEF SealWrite, TypeOK, WorkspaceType
  <2>5. UNCHANGED <<seen, clock>>
    BY <1>6 DEF SealWrite
  <2> QED BY <2>3, <2>4, <2>5 DEF FileIn
<1>7. \/ manifest' = manifest
      \/ manifest' \in Sentinel
      \/ \E a \in Path : EditManifest(a)
      \/ \E s \in Sealer : SealWrite(s)
  <2>1. CASE Environment
    BY <2>1 DEF Environment, WorkerWrite, DamageManifest, ClearDirectory, Tick,
                Sentinel
  <2>2. CASE Authority
    BY <2>2, SigningSigns DEF Authority, Signed, ReplaceToken, workspace
  <2>3. ASSUME NEW s \in Sealer, Sealing(s), ~SealWrite(s)
        PROVE  manifest' = manifest \/ manifest' \in Sentinel
    BY <2>3, SealingLeaves
  <2>4. ASSUME NEW s \in Stamper, Stamping(s)
        PROVE  manifest' = manifest
    BY <2>4, StampingLeaves
  <2>5. ASSUME NEW v \in Verifier, Verifying(v)
        PROVE  manifest' = manifest
    BY <2>5, VerifyingLeaves
  <2>6. CASE UNCHANGED vars
    BY <2>6, StutteringLeaves
  <2> QED BY <2>1, <2>2, <2>3, <2>4, <2>5, <2>6 DEF Next
<1> QED BY <1>3, <1>4, <1>5, <1>6, <1>7

(***************************************************************************)
(* What a step can put in timestamp.tsr: a token that was signed, or       *)
(* nothing that decodes.                                                   *)
(***************************************************************************)
LEMMA TokenStays ==
  ASSUME TypeOK, StampInv, Provenance, [Next]_vars
  PROVE  token' \notin Sentinel => ParseResponse(token') \in issued'
<1>1. issued \subseteq issued'
  BY Monotone
<1>2. CASE token' = token \/ token' \in Sentinel
  BY <1>1, <1>2 DEF Provenance
<1>3. ASSUME NEW t \in issued, ReplaceToken(Whole(t))
      PROVE  ParseResponse(token') \in issued
  BY <1>3 DEF ReplaceToken, Whole, ParseResponse
<1>4. ASSUME NEW s \in Stamper, StampWrite(s)
      PROVE  token' \notin Sentinel => ParseResponse(token') \in issued
  <2>1. stamp[s].token \in issued
    BY <1>4 DEF StampWrite, StampInv
  <2>2. stamp[s].token \in Token
    BY <2>1 DEF TypeOK, StampType
  <2> QED BY <1>4, <2>1, <2>2, OverlaysToken
             DEF StampWrite, TypeOK, WorkspaceType, ParseResponse
<1>5. \/ token' = token \/ token' \in Sentinel
      \/ \E t \in issued : ReplaceToken(Whole(t))
      \/ \E s \in Stamper : StampWrite(s)
  <2>1. CASE Environment
    BY <2>1 DEF Environment, WorkerWrite, EditManifest, DamageManifest,
                ClearDirectory, Tick, Sentinel
  <2>2. CASE Authority
    <3>1. ASSUME NEW x \in {NoFile, Junk}, ReplaceToken(x)
          PROVE  token' \in Sentinel
      BY <3>1 DEF ReplaceToken, Sentinel
    <3>2. ASSUME Signing
          PROVE  token' = token
      BY <3>2, SigningSigns DEF Signed, workspace
    <3> QED BY <2>2, <3>1, <3>2 DEF Authority
  <2>3. ASSUME NEW s \in Sealer, Sealing(s)
        PROVE  token' = token
    BY <2>3, SealingLeaves
  <2>4. ASSUME NEW s \in Stamper, Stamping(s), ~StampWrite(s)
        PROVE  token' = token \/ token' \in Sentinel
    BY <2>4, StampingLeaves
  <2>5. ASSUME NEW v \in Verifier, Verifying(v)
        PROVE  token' = token
    BY <2>5, VerifyingLeaves
  <2>6. CASE UNCHANGED vars
    BY <2>6, StutteringLeaves
  <2> QED BY <2>1, <2>2, <2>3, <2>4, <2>5, <2>6 DEF Next
<1> QED BY <1>1, <1>2, <1>3, <1>4, <1>5

(***************************************************************************)
(* A request that goes out is for the manifest there is, and an authority  *)
(* under the roots vouches for a request that went out.                    *)
(***************************************************************************)
LEMMA RequestsStay ==
  ASSUME TypeOK, Provenance, [Next]_vars
  PROVE  /\ \A r \in sent' : FileIn(seen', Bytes(r.digest), clock')
         /\ \A t \in issued' : t.signer \in Trusted =>
              FileIn(seen', Bytes(t.imprint), SecondAfter(t.genTime))
<1>1. /\ seen \in SUBSET (Path \X Content \X Nat) /\ seen \subseteq seen'
      /\ clock \in Nat /\ clock' \in Nat /\ clock <= clock'
      /\ issued \in SUBSET Token
  BY Monotone DEF TypeOK, WorkspaceType, StampType
<1>2. ProvenanceIn(seen, clock, manifest, sent, issued, token)
  BY ProvenanceWithHistory
<1>3. /\ \A r \in sent : FileIn(seen', Bytes(r.digest), clock')
      /\ \A t \in issued : t.signer \in Trusted =>
           FileIn(seen', Bytes(t.imprint), SecondAfter(t.genTime))
  <2>1. ProvenanceIn(seen', clock', manifest, sent, issued, token)
    BY <1>1, <1>2, ProvenanceLater
  <2> QED BY <2>1 DEF ProvenanceIn
<1>4. CASE UNCHANGED <<sent, issued>>
  BY <1>3, <1>4
<1>5. ASSUME NEW s \in Stamper, StampAsk(s)
      PROVE  /\ \A r \in sent' : FileIn(seen', Bytes(r.digest), clock')
             /\ issued' = issued
  <2> DEFINE q == [digest |-> Sha256(manifest), nonce |-> nextNonce]
  <2>1. sent' = sent \cup {q} /\ UNCHANGED <<seen, clock, issued>>
    BY <1>5 DEF StampAsk
  <2>2. FileIn(seen, Bytes(q.digest), clock)
    BY <1>2, BytesOfDigest DEF ProvenanceIn
  <2> QED BY <1>3, <2>1, <2>2
<1>6. ASSUME Signing
      PROVE  /\ sent' = sent
             /\ \A t \in issued' : t.signer \in Trusted =>
                  FileIn(seen', Bytes(t.imprint), SecondAfter(t.genTime))
  <2> PICK t \in Token :
        /\ Signed(t)
        /\ t.signer \in Trusted =>
             /\ [digest |-> t.imprint, nonce |-> t.nonce] \in sent
             /\ t.genTime <= clock /\ clock <= SecondAfter(t.genTime)
    BY <1>6, SigningSigns
  <2>1. issued' = issued \cup {t} /\ UNCHANGED <<seen, clock, sent>>
    BY DEF Signed, workspace
  <2>2. ASSUME t.signer \in Trusted
        PROVE  FileIn(seen, Bytes(t.imprint), SecondAfter(t.genTime))
    <3>1. FileIn(seen, Bytes(t.imprint), clock)
      BY <1>2, <2>2 DEF ProvenanceIn
    <3>2. SecondAfter(t.genTime) \in Nat
      BY SecondAfterNat DEF Token
    <3> QED BY <1>1, <2>2, <3>1, <3>2, FileLater
  <2> QED BY <1>3, <2>1, <2>2
<1>7. \/ UNCHANGED <<sent, issued>>
      \/ \E s \in Stamper : StampAsk(s)
      \/ Signing
  <2>1. ASSUME \/ Environment \/ UNCHANGED vars
               \/ \E s \in Sealer : Sealing(s)
        PROVE  UNCHANGED <<sent, issued>>
    BY <2>1 DEF Environment, Sealing, vars, stamping
  <2>2. ASSUME NEW x, ReplaceToken(x)
        PROVE  UNCHANGED <<sent, issued>>
    BY <2>2 DEF ReplaceToken, stamping
  <2>3. ASSUME NEW s \in Stamper, Stamping(s), ~StampAsk(s)
        PROVE  UNCHANGED <<sent, issued>>
    BY <2>3, StampingLeaves
  <2>4. ASSUME NEW v \in Verifier, Verifying(v)
        PROVE  UNCHANGED <<sent, issued>>
    BY <2>4, VerifyingLeaves
  <2> QED BY <2>1, <2>2, <2>3, <2>4 DEF Next, Authority
<1> QED BY <1>3, <1>4, <1>5, <1>6, <1>7

LEMMA ProvenancePreserved ==
  ASSUME TypeOK, SealInv, StampInv, Provenance, [Next]_vars
  PROVE  Provenance'
<1>1. ProvenanceIn(seen', clock', manifest', sent', issued', token')
  BY ManifestStays, TokenStays, RequestsStay DEF ProvenanceIn
<1> QED BY <1>1 DEF Provenance, ProvenanceIn, FileDated, FileIn, Dated, DatedIn,
                   Existed, ExistedIn

(***************************************************************************)
(* Verifying: what EvidenceInv says of one run, with the history and the   *)
(* tokens issued as parameters.                                            *)
(***************************************************************************)
VerifyOne(h, signed, r) ==
  /\ r.pc = "artifacts" => Accounted(r)
  /\ r.pc = "report" =>
       /\ \A t \in r.stamps :
            /\ t \in signed /\ t.imprint = Sha256(r.file)
            /\ r.opts.roots => DatedIn(h, r.accepted, SecondAfter(t.genTime))
       /\ r.ok => r.accepted = ParseManifest(r.file).artifacts

LEMMA EvidenceInvByRun ==
  EvidenceInv <=> /\ Provenance
                  /\ \A v \in Verifier : VerifyOne(seen, issued, check[v])
BY DEF EvidenceInv, EvidenceDated, VerifyOne, Dated, DatedIn, Existed, ExistedIn

LEMMA VerifyOneLater ==
  ASSUME NEW h \in SUBSET (Path \X Content \X Nat), NEW k, h \subseteq k,
         NEW signed \in SUBSET Token, NEW more, signed \subseteq more,
         NEW r, VerifyOne(h, signed, r)
  PROVE  VerifyOne(k, more, r)
<1>1. ASSUME r.pc = "report", NEW t \in r.stamps
      PROVE  /\ t \in more /\ t.imprint = Sha256(r.file)
             /\ r.opts.roots => DatedIn(k, r.accepted, SecondAfter(t.genTime))
  <2>1. /\ t \in signed /\ t.imprint = Sha256(r.file)
        /\ r.opts.roots => DatedIn(h, r.accepted, SecondAfter(t.genTime))
    BY <1>1 DEF VerifyOne
  <2>2. SecondAfter(t.genTime) \in Nat
    BY <2>1, SecondAfterNat DEF Token
  <2> QED BY <2>1, <2>2, DatedLater
<1> QED BY <1>1 DEF VerifyOne

\* An entry of the manifest is read: it is accepted, or the report fails.
LEMMA ArtifactAccounted ==
  ASSUME TypeOK, NEW v \in Verifier, NEW a \in Path, VerifyArtifact(v, a),
         Accounted(check[v])
  PROVE  Accounted(check'[v])
<1> DEFINE now == check[v]
           later == check'[v]
           listed == ParseManifest(now.file).artifacts
<1>0. now \in Reading /\ a \in now.todo
  BY VerifyStates DEF VerifyArtifact, TypeOK, VerifyType
<1>1. /\ later.file = now.file /\ later.todo = now.todo \ {a}
      /\ later.ok = (now.ok /\ Matches(v, a))
      /\ later.accepted = IF Matches(v, a)
                          THEN WithEntry(now.accepted, a, Sha256(files[a]))
                          ELSE now.accepted
  BY <1>0 DEF VerifyArtifact, TypeOK, VerifyType, Reading
<1>2. CASE Matches(v, a)
  <2>1. Sha256(files[a]) = listed[a] /\ a \in DOMAIN listed
    BY <1>0, <1>2 DEF Matches, Accounted
  <2>2. /\ DOMAIN later.accepted = DOMAIN now.accepted \cup {a}
        /\ \A b \in DOMAIN later.accepted : later.accepted[b] = listed[b]
    BY <1>1, <1>2, <2>1 DEF WithEntry, Accounted
  <2> QED BY <1>0, <1>1, <1>2, <2>1, <2>2 DEF Accounted
<1>3. CASE ~Matches(v, a)
  BY <1>0, <1>1, <1>3 DEF Accounted
<1> QED BY <1>2, <1>3

\* What a token that verify accepts proves about the artefacts it accepted.
LEMMA ConcludedIsDated ==
  ASSUME TypeOK, Provenance, NEW v \in Verifier, VerifyConclude(v),
         Accounted(check[v])
  PROVE  VerifyOne(seen, issued, check'[v])
<1> DEFINE now == check[v]
           later == check'[v]
           listed == ParseManifest(now.file).artifacts
<1>0. now \in Reading /\ now.todo = {}
  BY VerifyStates DEF VerifyConclude, TypeOK, VerifyType
<1>1. /\ later.pc = "report" /\ later.file = now.file /\ later.opts = now.opts
      /\ later.accepted = now.accepted
      /\ later.ok => now.ok
      /\ later.stamps = IF token # NoFile
                           /\ TokenAccepted(token, now.file, now.opts)
                        THEN {ParseResponse(token)} ELSE {}
  BY DEF VerifyConclude, TypeOK, VerifyType
<1>2. ASSUME NEW t \in later.stamps
      PROVE  /\ t \in issued /\ t.imprint = Sha256(later.file)
             /\ later.opts.roots =>
                  DatedIn(seen, later.accepted, SecondAfter(t.genTime))
  <2>1. t = ParseResponse(token) /\ TokenAccepted(token, now.file, now.opts)
    BY <1>1, <1>2
  <2>2. t \in issued /\ t.imprint = Sha256(now.file)
    BY <2>1 DEF TokenAccepted, ResponseParses, TokenVerifies, Provenance
  <2>3. ASSUME now.opts.roots
        PROVE  DatedIn(seen, later.accepted, SecondAfter(t.genTime))
    <3>1. t.signer \in Trusted
      BY <2>1, <2>3 DEF TokenAccepted, TokenVerifies, ChainVerified
    <3>2. FileIn(seen, now.file, SecondAfter(t.genTime))
      BY <2>2, <3>1, ProvenanceWithHistory, BytesOfDigest DEF ProvenanceIn
    <3>3. DatedIn(seen, listed, SecondAfter(t.genTime))
      BY <3>2 DEF FileIn, Accounted
    <3> QED BY <1>1, <3>3 DEF Accounted, DatedIn
  <2> QED BY <1>1, <2>2, <2>3
<1>3. ASSUME later.ok
      PROVE  later.accepted = listed
  <2>1. /\ now.accepted \in Listing /\ listed \in Listing
        /\ DOMAIN now.accepted = DOMAIN listed
        /\ \A a \in DOMAIN listed : now.accepted[a] = listed[a]
    BY <1>0, <1>1, <1>3 DEF Accounted, Reading, ManifestFile, ManifestParses,
                            ParseManifest, Manifest
  <2> QED BY <1>1, <2>1 DEF Listing
<1> QED BY <1>1, <1>2, <1>3 DEF VerifyOne

LEMMA VerifyOneStep ==
  ASSUME TypeOK, EvidenceInv, NEW v \in Verifier, Verifying(v)
  PROVE  VerifyOne(seen, issued, check'[v])
<1>0. VerifyOne(seen, issued, check[v]) /\ check \in [Verifier -> VerifyState]
  BY EvidenceInvByRun DEF TypeOK, VerifyType
<1>1. ASSUME \/ \E opts \in VerifyOptions : VerifyStart(v, opts)
             \/ VerifyAbort(v) \/ VerifyNoManifest(v)
      PROVE  VerifyOne(seen, issued, check'[v])
  <2>1. ASSUME NEW opts \in VerifyOptions, VerifyStart(v, opts)
        PROVE  check'[v].pc = "listed"
    BY <1>0, <2>1 DEF VerifyStart
  <2>2. ASSUME VerifyAbort(v)
        PROVE  check'[v].pc = "killed"
    BY <1>0, <2>2 DEF VerifyAbort, VerifyKilled
  <2>3. ASSUME VerifyNoManifest(v)
        PROVE  /\ check'[v].pc = "report" /\ check'[v].stamps = {}
               /\ ~check'[v].ok
    BY <1>0, <2>3 DEF VerifyNoManifest
  <2> QED BY <1>1, <2>1, <2>2, <2>3 DEF VerifyOne
<1>2. ASSUME VerifyManifest(v)
      PROVE  VerifyOne(seen, issued, check'[v])
  <2>1. /\ check'[v].pc = "artifacts" /\ check'[v].file = manifest
        /\ check'[v].todo = DOMAIN ParseManifest(manifest).artifacts
        /\ check'[v].accepted = NoEntry
        /\ ManifestParses(manifest)
    BY <1>0, <1>2 DEF VerifyManifest
  <2> QED BY <2>1, NoEntryListing DEF VerifyOne, Accounted
<1>3. ASSUME NEW a \in Path, VerifyArtifact(v, a)
      PROVE  VerifyOne(seen, issued, check'[v])
  <2>1. Accounted(check'[v])
    BY <1>0, <1>3, ArtifactAccounted DEF VerifyArtifact, VerifyOne
  <2>2. check'[v].pc = "artifacts"
    <3>1. check[v] \in Reading
      BY <1>0, <1>3, VerifyStates DEF VerifyArtifact
    <3> QED BY <1>0, <1>3, <3>1 DEF VerifyArtifact, Reading
  <2> QED BY <2>1, <2>2 DEF VerifyOne
<1>4. ASSUME VerifyConclude(v)
      PROVE  VerifyOne(seen, issued, check'[v])
  BY <1>0, <1>4, ConcludedIsDated DEF VerifyConclude, VerifyOne, EvidenceInv
<1> QED BY <1>1, <1>2, <1>3, <1>4 DEF Verifying, VerifyStep

LEMMA EvidenceInvPreserved ==
  ASSUME TypeOK, SealInv, StampInv, EvidenceInv, [Next]_vars
  PROVE  EvidenceInv'
<1>1. Provenance'
  BY ProvenancePreserved DEF EvidenceInv
<1>2. /\ seen \in SUBSET (Path \X Content \X Nat) /\ seen \subseteq seen'
      /\ issued \in SUBSET Token /\ issued \subseteq issued'
  BY Monotone DEF TypeOK, WorkspaceType, StampType
<1>3. ASSUME NEW v \in Verifier
      PROVE  VerifyOne(seen', issued', check'[v])
  <2>1. VerifyOne(seen, issued, check[v])
    BY EvidenceInvByRun
  <2>2. CASE check'[v] = check[v]
    BY <1>2, <2>1, <2>2, VerifyOneLater
  <2>3. CASE Verifying(v)
    <3>1. UNCHANGED <<seen, issued>>
      BY <2>3, VerifyingLeaves
    <3> QED BY <2>3, <3>1, VerifyOneStep
  <2>4. ASSUME NEW w \in Verifier \ {v}, Verifying(w)
        PROVE  check'[v] = check[v]
    BY <2>4, VerifyingLeaves DEF TypeOK
  <2>5. ASSUME \/ Environment \/ Authority \/ UNCHANGED vars
               \/ \E s \in Sealer : Sealing(s)
               \/ \E s \in Stamper : Stamping(s)
        PROVE  check'[v] = check[v]
    BY <2>5 DEF Environment, Authority, Sealing, Stamping, vars
  <2> QED BY <2>2, <2>3, <2>4, <2>5 DEF Next
<1> QED BY <1>1, <1>3 DEF EvidenceInv, EvidenceDated, VerifyOne, Dated, DatedIn,
                         Existed, ExistedIn

LEMMA EvidenceInvInit == Init => EvidenceInv
BY DEF Init, WorkspaceInit, StampInit, VerifyInit, VerifyIdle, EvidenceInv,
       Provenance, FileDated, ManifestParses, Sentinel, EvidenceDated

(***************************************************************************)
(* However the directory was written before and during the check, a        *)
(* timestamp that a report accepts was signed for the manifest it judges,  *)
(* and under -tsa-roots what the report accepted existed, with these bytes *)
(* and at this path, less than a second after the time the authority       *)
(* vouches for; a report that passes accepted every artefact listed.       *)
(***************************************************************************)
THEOREM TimestampProves == Spec => []EvidenceDated
<1>1. EvidenceInv => EvidenceDated
  BY DEF EvidenceInv
<1> QED BY <1>1, SealInvInit, SealInvPreserved, StampInvInit, StampInvPreserved,
           EvidenceInvInit, EvidenceInvPreserved, TypeCorrect, PTL DEF Spec

(***************************************************************************)
(* The invariants behind these results: what a seal read existed by now,   *)
(* a nonce names one request, and digests and tokens of authorities under  *)
(* the roots come from manifests that only list what existed (SealInv,     *)
(* StampInv, EvidenceInv).                                                 *)
(***************************************************************************)
THEOREM SealInvariant == Spec => []SealInv
BY SealInvInit, SealInvPreserved, TypeCorrect, PTL DEF Spec

\* See SealInvariant.
THEOREM StampInvariant == Spec => []StampInv
BY StampInvInit, StampInvPreserved, TypeCorrect, PTL DEF Spec

\* See SealInvariant.
THEOREM EvidenceInvariant == Spec => []EvidenceInv
BY SealInvInit, SealInvPreserved, StampInvInit, StampInvPreserved,
   EvidenceInvInit, EvidenceInvPreserved, TypeCorrect, PTL DEF Spec
=============================================================================
