--------------------------------- MODULE Pev --------------------------------
(***************************************************************************)
(* The whole program: any number of runs of pev seal, pev stamp and pev    *)
(* verify on one bundle directory, the capture worker, a hand that edits   *)
(* the bundle, timestamping authorities and whoever else signs, and time.  *)
(***************************************************************************)
EXTENDS Seal, Verify

vars == <<workspace, seal, stamping, check>>

ASSUME CommandAssumption ==
  /\ Command = Sealer \cup Stamper \cup Verifier
  /\ Sealer \cap Stamper = {} /\ Sealer \cap Verifier = {}
  /\ Stamper \cap Verifier = {}

Init == WorkspaceInit /\ SealInit /\ StampInit /\ VerifyInit

\* What other parties do to the directory, and time.
Environment ==
  /\ \/ \E a \in Path, c \in Content \cup {NoFile} : WorkerWrite(a, c)
     \/ \E a \in Path : EditManifest(a)
     \/ \E x \in {NoFile, Junk} : DamageManifest(x)
     \/ ClearDirectory \/ Tick
  /\ UNCHANGED <<seal, stamping, check>>

Sealing(s) ==
  /\ \/ \E external \in SealOptions : SealStart(s, external)
     \/ SealStep(s) \/ SealShortWrite(s) \/ SealAbort(s)
  /\ UNCHANGED <<stamping, check>>

Stamping(s) ==
  /\ StampAsk(s) \/ StampStep(s) \/ StampShortWrite(s) \/ StampAbort(s)
  /\ UNCHANGED <<seal, check>>

Signing ==
  \E signer \in Signer, t \in 0 .. MaxTime :
    SelfStamp(signer, t) \/ \E r \in sent : TsaIssue(r, signer, t)

Authority ==
  /\ \/ Signing
     \/ \E x \in {NoFile, Junk} \cup {Whole(t) : t \in issued} : ReplaceToken(x)
  /\ UNCHANGED <<seal, check>>

Verifying(v) ==
  /\ \/ \E opts \in VerifyOptions : VerifyStart(v, opts)
     \/ VerifyStep(v) \/ VerifyAbort(v)
  /\ UNCHANGED seal

Next ==
  \/ Environment \/ Authority
  \/ \E s \in Sealer : Sealing(s)
  \/ \E s \in Stamper : Stamping(s)
  \/ \E v \in Verifier : Verifying(v)

Spec == Init /\ [][Next]_vars

(***************************************************************************)
(* A run that can go on does go on, and a request that gets no answer      *)
(* times out.  Nothing is assumed of the authority, nor of users.          *)
(***************************************************************************)
Progress(s) ==
  /\ StampUnreachable(s) \/ StampWrite(s)
  /\ UNCHANGED <<seal, check>>

Fairness ==
  /\ \A s \in Sealer : WF_vars(SealStep(s) /\ UNCHANGED <<stamping, check>>)
  /\ \A s \in Stamper : WF_vars(Progress(s))
  /\ \A v \in Verifier : WF_vars(VerifyStep(v) /\ UNCHANGED seal)

FairSpec == Spec /\ Fairness

-----------------------------------------------------------------------------
\* Every variable has its type.
TypeOK == WorkspaceType /\ SealType /\ StampType /\ VerifyType

(***************************************************************************)
(* docs/bundle-format.md says of timestamp.tsr: "Written after the         *)
(* manifest", over its sha256.  After an undisturbed seal, a token that is *)
(* there is over the manifest that is there.                               *)
(***************************************************************************)
TokenFollowsManifest ==
  \A s \in Sealer \cap calm :
    seal[s].pc = "sealed" /\ ResponseParses(token) =>
      ParseResponse(token).imprint = Sha256(manifest)

(***************************************************************************)
(* No run hangs on what others do: a seal gets to the end of its manifest  *)
(* and a verify to its report whatever others write meanwhile, and a stamp *)
(* ends even when the authority never answers (the timeout of              *)
(* Client.Stamp).  What seal -zip packs after that is in Archive.          *)
(***************************************************************************)
CommandsEnd ==
  /\ \A s \in Sealer : seal[s].pc = "list" ~> seal[s].pc \in {"sealed", "failed"}
  /\ \A s \in Stamper :
       stamp[s].pc = "ask" ~> stamp[s].pc \in {"stamped", "failed"}
  /\ \A v \in Verifier :
       check[v].pc = "listed" ~> check[v].pc \in {"report", "killed"}

(***************************************************************************)
(* Why EvidenceDated holds, as an inductive invariant.  A manifest only    *)
(* lists bytes that already existed, so the manifest a digest was taken of *)
(* did, so what an authority under the roots vouches for did when it was   *)
(* asked; and only tokens that were signed get into timestamp.tsr.         *)
(***************************************************************************)
\* The bytes that a digest is of.
Bytes(digest) == digest[2]

FileDated(file, t) ==
  ManifestParses(file) => Dated(ParseManifest(file).artifacts, t)

Provenance ==
  /\ FileDated(manifest, clock)
  /\ \A r \in sent : FileDated(Bytes(r.digest), clock)
  /\ \A t \in issued : t.signer \in Trusted =>
       FileDated(Bytes(t.imprint), SecondAfter(t.genTime))
  /\ token \notin Sentinel => ParseResponse(token) \in issued

\* A verification that is reading artefacts has accounted for each it has read.
Accounted(r) ==
  LET listed == ParseManifest(r.file).artifacts
  IN  /\ ManifestParses(r.file)
      /\ r.todo \subseteq DOMAIN listed
      /\ DOMAIN r.accepted \subseteq DOMAIN listed
      /\ \A a \in DOMAIN r.accepted : r.accepted[a] = listed[a]
      /\ r.ok => DOMAIN listed = DOMAIN r.accepted \cup r.todo

EvidenceInv ==
  /\ Provenance
  /\ \A v \in Verifier : check[v].pc = "artifacts" => Accounted(check[v])
  /\ EvidenceDated

(***************************************************************************)
(* Why SealCoversDirectory, RacingSealsAgree, StampedTokenVerifies and     *)
(* VerdictIsRight hold, as an inductive invariant: what a run that nobody  *)
(* disturbed has in memory is still what is on disk.                       *)
(***************************************************************************)
\* What seal read of the artefacts: only writes from outside can undo it.
ReadingHolds(s) ==
  /\ seal[s].pc \in {"list", "hash"} /\ ~seal[s].external =>
       seal[s].capture = ParseCapture(files[CapturePath])
  /\ seal[s].pc = "hash" =>
       /\ seal[s].todo \subseteq Present
       /\ seal[s].artifacts
            = [a \in Present \ seal[s].todo |-> Sha256(files[a])]
  /\ seal[s].pc \in {"write", "sealed"} =>
       /\ seal[s].manifest.artifacts = Directory
       /\ ~seal[s].external =>
            seal[s].manifest.capture = ParseCapture(files[CapturePath])

SealQuiet(s) ==
  /\ writes = 0 \/ s \in calm => ReadingHolds(s)
  /\ s \in calm =>
       /\ seal[s].pc = "write" => manifest = Empty
       /\ seal[s].pc = "sealed" => manifest = Whole(seal[s].manifest)

StampQuiet(s) ==
  s \in calm =>
    /\ stamp[s].pc \in {"ask", "write", "stamped"} =>
         stamp[s].digest = Sha256(manifest)
    /\ stamp[s].pc \in {"write", "stamped"} =>
         TokenVerifies(stamp[s].token, stamp[s].digest, {}, FALSE)
    /\ stamp[s].pc = "write" => token = Empty
    /\ stamp[s].pc = "stamped" => token = Whole(stamp[s].token)

VerifyQuiet(v) ==
  v \in calm =>
    /\ check[v].pc \in {"listed", "artifacts"} => check[v].names = Present
    /\ check[v].pc = "artifacts" =>
         LET listed == ParseManifest(manifest).artifacts
         IN  /\ check[v].file = manifest /\ ManifestParses(manifest)
             /\ check[v].todo \subseteq DOMAIN listed
             /\ check[v].ok <=> \A a \in DOMAIN listed \ check[v].todo :
                                 Matches(v, a)
    /\ check[v].pc = "report" => (check[v].ok <=> Intact(check[v].opts))

QuietInv ==
  /\ \A s \in Sealer : SealQuiet(s)
  /\ \A s \in Stamper : StampQuiet(s)
  /\ \A v \in Verifier : VerifyQuiet(v)
  /\ RacingSealsAgree
=============================================================================
