-------------------------------- MODULE Seal --------------------------------
(***************************************************************************)
(* pev seal: read the capture metadata, list the directory, hash the files *)
(* one by one, and write the manifest over the old one.  Nothing stops the *)
(* worker, or another pev, from writing between any two of these steps.    *)
(***************************************************************************)
EXTENDS Workspace

CONSTANTS
  Sealer,       \* the runs of pev seal, each from its start to its end
  SealOptions,  \* whether they are given a capture record with -capture FILE
  SubjectOf     \* the final URL and the start time in a capture file

ASSUME SealOptionsAssumption == SealOptions \subseteq BOOLEAN

VARIABLE seal            \* what each of them is doing

SealIdle == [pc |-> "idle"]

SealFailed == [pc |-> "failed"]

\* capture: the metadata in memory; external: it came from -capture FILE, and
\* not from capture.json; todo: listed and not hashed yet.
SealState ==
  {SealIdle, SealFailed}
  \cup [pc : {"list"}, capture : Capture, external : BOOLEAN]
  \cup [pc : {"hash"}, capture : Capture, external : BOOLEAN,
        todo : SUBSET Path, artifacts : Listing]
  \cup [pc : {"write", "sealed"}, manifest : Manifest, external : BOOLEAN]

SealType == seal \in [Sealer -> SealState]

SealInit == seal = [s \in Sealer |-> SealIdle]

\* Mutant: the time of the seal goes into the identifier.
BundleIDOfSeal(m) == <<SubjectOf[m.capture[2]], m.artifacts, m.sealedAt>>

\* bundleID: a digest of the page, the start time and the artefacts in order.
BundleID(m) == <<SubjectOf[m.capture[2]], m.artifacts>>

SealFails(s) == seal' = [seal EXCEPT ![s] = SealFailed]

\* Mutant: the capture metadata is not taken from capture.json.
SealStartAnyCapture(s, external) ==
  /\ seal[s].pc = "idle"
  /\ \E c \in GoodCapture :
       seal' = [seal EXCEPT ![s] =
         [pc |-> "list", capture |-> ParseCapture(c), external |-> external]]
  /\ Begins(s)
  /\ UNCHANGED <<files, manifest, token, clock, seen>>

(***************************************************************************)
(* runSeal reads and decodes the capture metadata.  A file given with      *)
(* -capture is outside of the directory: any usable record.  When the      *)
(* record cannot be read or is not usable the run ends here, having done   *)
(* nothing.                                                                *)
(***************************************************************************)
SealStart(s, external) ==
  /\ seal[s].pc = "idle"
  /\ \E c \in GoodCapture :
       /\ external \/ c = files[CapturePath]
       /\ seal' = [seal EXCEPT ![s] =
            [pc |-> "list", capture |-> ParseCapture(c), external |-> external]]
  /\ Begins(s)
  /\ UNCHANGED <<files, manifest, token, clock, seen>>

\* Mutant: the walk takes capture.json for a reserved name.
SealListNoCapture(s) ==
  /\ seal[s].pc = "list"
  /\ seal' = [seal EXCEPT ![s] =
       [pc |-> "hash", capture |-> seal[s].capture, external |-> seal[s].external,
        todo |-> Present \ {CapturePath}, artifacts |-> NoEntry]]
  /\ UNCHANGED workspace

\* WalkDir reads the names in the directory.
SealList(s) ==
  /\ seal[s].pc = "list"
  /\ seal' = [seal EXCEPT ![s] =
       [pc |-> "hash", capture |-> seal[s].capture, external |-> seal[s].external,
        todo |-> Present, artifacts |-> NoEntry]]
  /\ UNCHANGED workspace

\* a is the next file of the walk.
NextOf(todo, a) == a \in todo /\ \A b \in todo : a <= b

\* It is opened and hashed as it is now.
SealHash(s, a) ==
  /\ seal[s].pc = "hash" /\ NextOf(seal[s].todo, a)
  /\ files[a] # NoFile
  /\ seal' = [seal EXCEPT
       ![s].todo = @ \ {a},
       ![s].artifacts = WithEntry(@, a, Sha256(files[a]))]
  /\ UNCHANGED workspace

\* It was removed since it was listed: seal gives up.
SealVanished(s, a) ==
  /\ seal[s].pc = "hash" /\ NextOf(seal[s].todo, a)
  /\ files[a] = NoFile
  /\ SealFails(s)
  /\ UNCHANGED workspace

\* No artefact at all: seal refuses to write an empty manifest.
SealNothing(s) ==
  /\ seal[s].pc = "hash" /\ seal[s].todo = {} /\ seal[s].artifacts = NoEntry
  /\ SealFails(s)
  /\ UNCHANGED workspace

\* What SealTruncate does once it has decided to, sealed_at being t.
ManifestOpened(s, t) ==
  /\ seal' = [seal EXCEPT ![s] =
       [pc |-> "write", external |-> seal[s].external,
        manifest |-> [sealedAt |-> t, capture |-> seal[s].capture,
                      artifacts |-> seal[s].artifacts]]]
  /\ manifest' = Empty
  /\ WrittenBy(s)
  /\ UNCHANGED <<files, token, clock, seen>>

\* Mutant: sealed_at is cut to more than a second.
SealTruncateCoarse(s) ==
  /\ seal[s].pc = "hash" /\ seal[s].todo = {} /\ seal[s].artifacts # NoEntry
  /\ ManifestOpened(s, clock - (clock % (2 * Second)))

\* Mutant: an empty listing is written.
SealTruncateEmpty(s) ==
  /\ seal[s].pc = "hash" /\ seal[s].todo = {}
  /\ ManifestOpened(s, Truncate(clock))

\* Mutant: the walk stops early and what it has is written.
SealTruncateEarly(s) ==
  /\ seal[s].pc = "hash" /\ seal[s].artifacts # NoEntry
  /\ ManifestOpened(s, Truncate(clock))

\* The manifest is built, under the present time cut to the second, and
\* os.WriteFile opens the file, emptying it.
SealTruncate(s) ==
  /\ seal[s].pc = "hash" /\ seal[s].todo = {} /\ seal[s].artifacts # NoEntry
  /\ ManifestOpened(s, Truncate(clock))

\* os.WriteFile puts the encoded manifest in.
SealWrite(s) ==
  /\ seal[s].pc = "write"
  /\ manifest' \in Overlays(seal[s].manifest, manifest)
  /\ seal' = [seal EXCEPT ![s].pc = "sealed"]
  /\ WrittenBy(s)
  /\ UNCHANGED <<files, token, clock, seen>>

\* The disk is full, or the run is killed in the middle of the write.
SealShortWrite(s) ==
  /\ seal[s].pc = "write" /\ manifest # NoFile
  /\ manifest' = Junk
  /\ SealFails(s)
  /\ WrittenBy(s)
  /\ UNCHANGED <<files, token, clock, seen>>

\* The run is killed, or an operation on a file fails.
SealAbort(s) ==
  /\ seal[s].pc \in {"list", "hash", "write"}
  /\ SealFails(s)
  /\ UNCHANGED workspace

SealStep(s) ==
  \/ SealList(s)
  \/ \E a \in Path : SealHash(s, a) \/ SealVanished(s, a)
  \/ SealNothing(s) \/ SealTruncate(s) \/ SealWrite(s)

-----------------------------------------------------------------------------
(***************************************************************************)
(* A seal that was not disturbed leaves a manifest that lists exactly the  *)
(* files of the directory, with their digests, and that embeds the record  *)
(* of capture.json unless another one was given (runSeal; Seal).           *)
(***************************************************************************)
SealCoversDirectory ==
  \A s \in Sealer \cap calm : seal[s].pc = "sealed" =>
    /\ manifest = Whole(seal[s].manifest)
    /\ seal[s].manifest.artifacts = Directory
    /\ ~seal[s].external =>
         seal[s].manifest.capture = ParseCapture(files[CapturePath])

\* The metadata is that of bytes that capture.json held by the time t.
CaptureRead(capture, t) ==
  \E c \in GoodCapture : capture = ParseCapture(c) /\ Existed(CapturePath, c, t)

(***************************************************************************)
(* Whatever happens between its steps, a manifest that seal builds is less *)
(* than a second older than what it lists: before the second that          *)
(* sealed_at names was over, every listed digest had been that of the      *)
(* bytes at that path, and so had the metadata it embeds.  (Seal takes the *)
(* time after the last file is hashed, and cuts it to the second, so that  *)
(* sealed_at itself can be before bytes that are listed.)                  *)
(***************************************************************************)
SealedAtIsLast ==
  \A s \in Sealer : seal[s].pc \in {"write", "sealed"} =>
    LET m == seal[s].manifest
    IN  /\ Dated(m.artifacts, SecondAfter(m.sealedAt))
        /\ ~seal[s].external => CaptureRead(m.capture, SecondAfter(m.sealedAt))

(***************************************************************************)
(* Seals that race each other, on a directory that nothing else writes,    *)
(* may leave the tail of one manifest behind the other, and the decoder    *)
(* does not look at it; but whatever manifest can be decoded at any        *)
(* moment lists exactly the files of the directory (runSeal; os.WriteFile; *)
(* ParseManifest).                                                         *)
(***************************************************************************)
RacingSealsAgree ==
  writes = 0 /\ ManifestParses(manifest) =>
    ParseManifest(manifest).artifacts = Directory

(***************************************************************************)
(* docs/bundle-format.md: "Sealing the same capture twice yields the same  *)
(* id."  So it is for seals at any times, that race each other or not, and *)
(* with the metadata of capture.json or with another record of the same    *)
(* visit, as long as nothing else writes to the directory (bundleID).      *)
(***************************************************************************)
SameCaptureSameId ==
  \A s, p \in Sealer :
    LET m == seal[s].manifest
        n == seal[p].manifest
    IN  /\ writes = 0 /\ seal[s].pc = "sealed" /\ seal[p].pc = "sealed"
        /\ \/ ~seal[s].external /\ ~seal[p].external
           \/ SubjectOf[m.capture[2]] = SubjectOf[n.capture[2]]
        => BundleID(m) = BundleID(n)

(***************************************************************************)
(* Why SealedAtIsLast holds, as an inductive invariant: the history is of  *)
(* the past, it has what is in the directory now, and all that a run read  *)
(* so far existed by now.                                                  *)
(***************************************************************************)
HistoryIsPast == \A e \in seen : e[3] <= clock

FilesAreSeen == \A a \in Present : Existed(a, files[a], clock)

SealInv ==
  /\ HistoryIsPast /\ FilesAreSeen
  /\ \A s \in Sealer :
       /\ seal[s].pc \in {"list", "hash"} /\ ~seal[s].external =>
            CaptureRead(seal[s].capture, clock)
       /\ seal[s].pc = "hash" => Dated(seal[s].artifacts, clock)
       /\ seal[s].pc \in {"write", "sealed"} =>
            /\ seal[s].manifest.sealedAt <= clock
            /\ Dated(seal[s].manifest.artifacts, clock)
  /\ SealedAtIsLast
=============================================================================
