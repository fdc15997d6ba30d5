# pev, modelled and proved

TLA+ modules for `pev`, the program in this repository that seals a directory
of captured page artefacts into a manifest, has the manifest timestamped by an
RFC 3161 authority, and verifies the result.

- [The system](#the-system): what its parts are, and what is hard about them
- [The modules](#the-modules): how the model corresponds to the code
- [What is checked](#what-is-checked): runs, bounds, fairness
- [What is proved](#what-is-proved)
- [Where code and documents disagree](#where-code-and-documents-disagree)
- [What is not modelled](#what-is-not-modelled), and [the plan](#the-plan)

## The system

`pev` is a command-line program. A run of it lives for one command; what
persists is a *bundle*, a directory (or a zip of one) that holds the artefacts
of a capture, `manifest.json`, and `timestamp.tsr`. No lock is taken on it.

| Component | State | Operations | Makes it correct |
| --- | --- | --- | --- |
| `pev seal` (`runSeal`, `evidence.Seal`) | the capture record in memory, the listing so far, `manifest.json` | read the metadata, walk, hash each file, take the time, write the manifest | the manifest lists what the directory holds, and nothing that did not exist before the second of `sealed_at` was over |
| `pev stamp` (`runStamp`, `Client.Stamp`) | digest and nonce of the request, `timestamp.tsr` | read and hash the manifest, ask, wait, verify the answer, write it | only an answer to this request is stored; the run ends |
| `pev verify` (`runVerify`, `verify.Bundle`) | the report: verdict, lines, accepted token | list, read the manifest, hash each artefact, look for unlisted files, check the token | the verdict is right, is explained by its lines, honours the options, and under roots dates nothing too early |
| `evidence` | none | encode, decode and validate a manifest or a capture record | a digest stands for the bytes |
| `rfc3161` | none | build a request, parse a response and a token, verify a token | only what an authority signed as a timestamp verifies, for its imprint, its nonce, under a certificate valid at its time; the first step that fails is named |
| `bundle` | none (a directory), the archive `Pack` writes | open a directory or zip, list, read, pack | both kinds of bundle verify alike; an archive that opens is whole; packing is reproducible |
| `pev inspect`, report rendering, flags | none | formatting and parsing | |
| `tsatest`, `genfixture` | none | a throwaway authority, fixtures | test tools |
| capture worker, authority | outside of the repository | fills the directory; issues tokens | |

The parts interact through the files of the bundle and nothing else: `seal`
reads the artefacts, writes `manifest.json`, and with `-zip` packs the
directory as it then is; `stamp` reads `manifest.json`,
talks to the authority and writes `timestamp.tsr`; `verify` reads all of it.

What is hard, and hardly reached by the unit tests, which run one command after
the other on a quiet directory:

- **Reading while others write.** `seal` hashes one file after the other, and
  reads `capture.json` twice, once as metadata and once as an artefact.
  `verify` lists, reads the manifest, hashes and reads the token at four
  different instants. `stamp` waits for the network between reading the
  manifest and writing the token.
- **Writes that are not atomic.** `os.WriteFile` empties a file and then fills
  it. A run can die in between, and two runs that write at once can leave the
  tail of the longer text behind the shorter. `ParseManifest` ignores such a
  tail and `ParseResponse` refuses it.
- **An unreliable authority.** Answers are lost, late, repeated, damaged, or
  meant for somebody else. Nonce, imprint and timeout are the defences.
- **Time.** `sealed_at` is cut to the second, so it can be before bytes that are
  listed; a `genTime` can be cut too; certificates are judged at the time the
  token asserts and not at the time of the check; and without `-tsa-roots`
  nothing says whose time it is.
- **A copy made later.** `seal -zip` lists and reads the directory a second
  time, file by file, into an archive that it creates in place.
- **Eleven checks in a row.** `Token.Verify` is a sequence of early returns over
  certificates that may share keys and identifiers, and attributes that may be
  there twice; one left out shows only on a token with that very defect.
- **A verdict kept in two places**: the Boolean that three functions
  accumulate, and the lines they add.

`PROJECT.json` lists these hazards line by line, with the properties that would
catch each going wrong.

## The modules

    Evidence    manifests, listings, digests; what a file can hold
      Rfc3161     tokens and Token.Verify, in short
        Workspace   the directory, time, and who else writes to it
          Seal        pev seal
          Stamp       pev stamp and the authority
            Verify      pev verify
              Pev         any number of runs of each, together
                PevTypeProofs         type correctness
                  PevEvidenceProofs     sealing, stamping and dating
                  PevVerdictProofs      the report and its options
                  PevQuietProofs        runs that nobody disturbed
                PevDates    Pev implements DatedEvidence
                  PevDatesProofs        the refinement
                  MCPev                 instances for TLC
                Archive     seal -zip, and archives that are verified
                  ArchiveProofs         archives
                    ArchiveVerdictProofs  archives and their directory
                  MCArchive             instances for TLC
    DatedEvidence   what the program promises, in the abstract
    TimeStampToken  a token in full, and ParseToken and Token.Verify in steps
      PlainToken      Rfc3161 is a faithful summary of it
        MCToken         instances for TLC
        TokenProofs     what is accepted, and what a refusal names

(indentation is EXTENDS; `Pev` extends `Seal` and `Verify`,
`ArchiveVerdictProofs` also `PevQuietProofs`, `PevDates` takes
`DatedEvidence` and `PlainToken` takes `Rfc3161` by INSTANCE ... WITH).

**Evidence** has the data. A SHA-256 digest is the symbolic pair
`<<"sha256", bytes>>`: equal only for equal bytes. An artefact path is a
number, ordered as the walk orders the paths. A listing is a function from
paths to digests, so "no path twice" (`Manifest.Validate`) is in its shape, its
order is left out, and an empty one is not a `Manifest`. `GoodCapture` is the set of
byte strings that `ParseCapture` and `Capture.Validate` accept. A control file
holds `NoFile`, `Empty`, `Junk` (bytes no parser accepts), or a value followed
by what a concurrent writer left behind; `Overlays` is the second half of
`os.WriteFile`, whose first half is the `Empty` that the actions
`SealTruncate` and `StampStore` write.

**Rfc3161** has a token with what `pev` compares of it (imprint, nonce,
`genTime`, signer) and one field, `cms`, for all the checks that depend on the
token alone. `TokenVerifies` is `Token.Verify` with its two optional checks.
What is behind `cms` is in **TimeStampToken**, below.

**Workspace** has the directory, and what everybody but `pev` does to it:
`WorkerWrite` creates, rewrites or removes an artefact, `EditManifest` makes
the manifest agree with an altered artefact, as somebody would who wants to
hide the alteration, `DamageManifest` removes or damages it, and
`ClearDirectory` moves the directory away, leaving an empty one. The clock is
finer than what is written down: there are `Second` instants to a second, and
`Truncate` is the cut to the second that `seal` makes. Two variables are history
and not part of the program: `seen` holds which bytes were at which path by which time, and `calm`
the runs during which nobody else wrote; the properties of a quiet directory
are stated for those. `writes` counts what is written from outside.

**Seal**, **Stamp** and **Verify** have one record per run with the local
variables of the command, and one action per step that another party can come
in between:

| Action | Code |
| --- | --- |
| `SealStart` | `runSeal` reads and decodes the metadata, from `capture.json` or from `-capture FILE` |
| `SealList`, `SealHash`, `SealVanished`, `SealNothing` | the walk of `evidence.Seal`: the names, each file opened and hashed, one that is gone, none at all |
| `SealTruncate`, `SealWrite`, `SealShortWrite` | the time, cut to the second, the manifest, and the write to `manifest.json` in its two halves, or not to its end |
| `StampAsk` | `runStamp` reads and hashes the manifest, `BuildRequest` draws a nonce, the request leaves |
| `TsaIssue` | somebody answers a request, perhaps late or again, under any certificate they hold: under the roots with the present time, at most cut to the second, otherwise with any time |
| `SelfStamp` | somebody who is no authority signs for the manifest without being asked, with any time |
| `ReplaceToken` | `timestamp.tsr` is removed, damaged, or replaced by any token that was ever signed |
| `StampStore`, `StampRefuse` | an answer with a token arrives and is verified against the request |
| `StampDenied`, `StampUnreachable` | any other answer; no connection or no answer in time |
| `StampWrite`, `StampShortWrite` | the answer is put into `timestamp.tsr` |
| `VerifyStart`, `VerifyManifest`, `VerifyNoManifest` | the names; the manifest |
| `VerifyArtifact`, `VerifyConclude` | an artefact; `checkUnlisted`, `checkTimestamp` and the verdict |
| `SealAbort`, `StampAbort`, `VerifyAbort` | the run is killed, or a file operation fails |

Abstractions that matter: the directory is flat, so the walk reads all names
at once (a walk of sub-directories reads them one directory at a time); a file
is opened and hashed in one step, so bytes that change *during* the reading of
one file are not distinguished from a change before or after it; a nonce of 64
random bits does not repeat; a write that is cut short leaves bytes no parser
accepts; a run whose input is refused at once has no step,
as it changes nothing.

**Pev** puts them together: `Next` is a step of any run, of the authority, of
the environment, or of time.

**DatedEvidence** says what all this is for, without files, digests or tokens:
bytes appear at paths as time passes (`Appear`, `Pass`); an authority vouches,
for the present second, for a set of items that is there (`Vouch`); a reader is
told, once, of some of what was vouched for, under its time (`Report`).
**PevDates** maps `Pev` to it: vouched for is what the manifests list that the
tokens signed under the roots are over, and a reader is told what a finished
report accepted, if it was given roots. Without them `pev verify` accepts a
token of anybody, with any time, as `docs/bundle-format.md` says in step 9; such
a report tells no time in the sense of `DatedEvidence`.

**Archive** adds to `Pev` the archives and the part of each seal that packs:

| Action | Code |
| --- | --- |
| `PackList`, `PackNothing` | `Pack` lists the directory after the manifest is written; it refuses to pack nothing |
| `PackCreate` | `os.Create` empties what was at the output |
| `PackFile`, `PackVanished` | the next file in sorted order is opened and copied as it is now, or is gone |
| `PackClose` | `zip.Writer.Close` writes the central directory, without which nothing opens |
| `PackAbort` | the run is killed, the disk is full, a file cannot be opened |
| `Refold`, `DamageArchive` | somebody packs the archive again with its entries in folders; it loses its end or bytes of an entry |
| `ReplacePackedToken` | the token in the archive is replaced by any that was ever signed |

A finished archive is judged in one look (`ArchivePasses`), as nothing changes
it during the check, with the sub-checks of `Verify` and the root that
`singleRoot` finds. An entry can be `Broken`: its checksum does not agree at
the end of the reading. An output inside of the directory is a file of it
(`ArchiveWritten`). A folder has no folders in it, and entries are not
duplicated, as `Pack` makes none.

A `pev seal -zip` packs before there can be a token for its own manifest; an
archive has an acceptable one when the directory was sealed and stamped before,
and the manifest is byte for byte what it was (same capture, same second), or
when a stamp comes in between.

**TimeStampToken** has a response as `tsatest.Authority.Stamp` builds it: the
TSTInfo, the certificates embedded, the signer identifier (by issuer and serial
number, or by key identifier), signed attributes as a list of types and value
lists, algorithms, and a signature over the attributes. Digests and signatures
are symbolic. An authority issues it (`Issue`), possibly bent as `StampOptions`
bends it; it is altered on the way (`Bend`: any field replaced, attributes
repeated, renamed, dropped or put in front, the signature broken but never
made); the client parses it and verifies it (`ParseToken`, `VerifyToken`). The
checks are sequences of named steps in the order of the code (`ParseSteps`,
`VerifySteps`), and the first that fails is the error. **PlainToken** maps it
to the five fields of `Rfc3161`.

## What is checked

| Run | Instance | Properties |
| --- | --- | --- |
| `seal` | 2 seals, 2 paths, 2 usable contents, 1 write from outside, 3 instants, 2 to a second | `TypeOK`, `SealCoversDirectory`, `SealedAtIsLast`, `RacingSealsAgree`, `SameCaptureSameId`, `SealInv` |
| `stamp` | 1 seal from `capture.json`, 2 stamps, 2 certificates (one under the roots, one that is not and expires after the first instant), 2 tokens, 1 write from outside, 2 instants | `StoredTokenAnswersRequest`, `StampedTokenVerifies`, `StampInv` |
| `verify` | 1 seal, 1 stamp, 1 verify with all four combinations of options, 2 paths, a usable and an unusable content, the same 2 certificates, 1 write from outside | `VerdictIsRight`, `VerdictIsExplained`, `OptionsHonoured`, `QuietInv` |
| `evidence` | 1 of each, the seal with a record from outside, the verify with roots, the same 2 certificates, 2 writes from outside, 2 instants | `ImplementsDatedEvidence`, `EvidenceDated`, `EvidenceInv` |
| `liveness` | 1 of each, 1 write from outside | `CommandsEnd` under fairness |
| `archive` | 1 seal that packs, 1 stamp, all options, the same 2 certificates, 1 write from outside, 3 instants, 2 to a second, 1 change of the archive, a folder | `ArchiveType`, `ArchiveVerifiesAlike`, `ArchiveDated` |
| `packing` | 2 seals that pack, 2 outputs, 2 paths, 1 change of an archive | `ArchiveIsWhole`, `RacingArchivesAgree`, `PackingIsReproducible` |
| `token` | 5 certificates, 2 digests, 1 nonce, 2 instants, 1 alteration or defect | `AcceptedWasIssued`, `IntactIsJudgedRight`, `DefectIsNamed`, `JudgedAsPlain` |
| `fallback`, `reseal`, `unreadable`, `inside` | the smallest | the four disagreements below |

What they say of the program:

- `SealCoversDirectory`: a seal that nobody disturbed leaves a manifest that
  lists exactly the files of the directory and embeds the record of
  `capture.json`.
- `SealedAtIsLast`: disturbed or not, no manifest claims bytes under a second
  that was over before they existed. That `sealed_at` itself, which is cut to
  the second, can be before bytes that were written and sealed in the same
  second is part of the model, and the property does not deny it.
- `RacingSealsAgree`: seals that race each other on a directory nobody else
  writes leave a manifest file of which every decodable state is right, even
  with a tail of the other manifest behind it.
- `StoredTokenAnswersRequest`: no late, repeated or foreign answer is stored;
  the time of one that an authority under the roots signed is less than a second
  before the request at the earliest. Of anybody else's time `pev stamp`, which
  is given no roots, knows nothing.
- `StampedTokenVerifies`: what an undisturbed stamp leaves is accepted by
  `pev verify`.
- `VerdictIsRight`: the report of an undisturbed verify passes *if and only if*
  the manifest lists exactly the files there are and the timestamp is
  acceptable under the options. For a disturbed one it may not: see
  `EvidenceDated` for what remains.
- `VerdictIsExplained`: no FAIL without a failed line, no PASS over one.
- `OptionsHonoured`: `-require-timestamp` and `-tsa-roots` mean something.
- `EvidenceDated`: the promise of the whole program, whatever was written
  before and during the check: a timestamp that a report accepts was signed for
  the manifest it judged, and if roots were given, every artefact it accepted
  had these bytes, at this path, less than a second after the time asserted. No
  time is promised without roots.
- `ImplementsDatedEvidence`: every step of everybody is a step of the abstract
  specification, whose `Promise` is the same in five lines.
- `CommandsEnd`: no run hangs on the way to its manifest, its token or its
  report.
- `SameCaptureSameId`: the bundle id does not depend on when, how often, or in
  what race the capture is sealed.
- `ArchiveVerifiesAlike`: what an undisturbed seal packed, as it is or in a
  wrapping folder, gets the verdict of the directory under all options. With
  the one seal of the instance an undisturbed archive never has an acceptable
  token, as a seal packs before it can be stamped; that side is covered by the
  theorem `ArchiveVerdict` alone.
- `ArchiveIsWhole`: an archive that opens was finished by its run and has all
  that the run listed. In the instance two runs write two outputs, and either
  may die at any point.
- `RacingArchivesAgree`: seals that race may pack each other's manifest; the
  artefacts in the archive are then still those it lists.
- `PackingIsReproducible`: the same files are packed in the same order.
- `ArchiveDated`: `EvidenceDated` for archives, whatever became of them: also
  here no time is promised without roots.
- `AcceptedWasIssued`: what is accepted is a TSTInfo that was signed as a
  timestamp, and the signer reported is the certificate it was issued under, even
  if others have the same key or identifier.
- `IntactIsJudgedRight`: in each form a token can take, those are accepted of
  which imprint, nonce, purpose, validity and roots are right and whose signer
  is the first embedded certificate that fits its identifier, and no others. A
  genuine token with a renewed certificate before its own is therefore refused
  (`findSigner` takes the first that fits).
- `DefectIsNamed`: each combination of `StampOptions` is rejected at the step
  of its first defect, if the client names a digest and the signer is the first
  embedded certificate that fits its identifier.
- `JudgedAsPlain`: the eleven steps and the five fields of `Rfc3161` agree on
  every response.

**Bounds.** `MaxWrites` bounds what is written to the directory from outside,
`MaxTime` the clock, `MaxNonce` the requests, `MaxIssued` the tokens, and a run
of `pev` is used once. One write from outside at any instant is enough to fall
between any two steps of a run. In `evidence` there are two, which an
alteration together with its cover-up in the manifest takes. Two paths are the
least for a listing that mixes two moments. Two instants separate before from after.
`Second` is how many instants are told apart within a second: in `seal` and
`archive` it is 2, the least for which the cut of `sealed_at` or of a `genTime`
loses something, and three instants then reach into the next second; elsewhere
it is 1, as two writes from outside and two instants to a second together are
too many states. Two runs of a kind are the least that race; two seals also
write twice in a row, over each other's leavings. `MaxAlter` bounds the changes
of an archive: one puts its entries in any combination of folders. `MaxBend`
bounds the alterations of a token after it was issued; one exchanges a whole field,
such as all the certificates or the signer, and `OnlyIssuedAccepted` is proved
for any number of them. The defects a token is issued with are not bounded:
all combinations occur. The five certificates are a
root, an intermediate, a timestamping certificate, its renewal by the
intermediate under the same key, and one under that key that is for anything;
at most two are embedded.

**Fairness** (`FairSpec`): a run that can take its next step takes it, and a
stamp that gets no answer times out: `context.WithTimeout` in `Client.Stamp`
always fires, `-timeout` being 30 seconds unless told otherwise. Nothing is
assumed of the authority, the worker or the users. Steps that end a run early
by a crash are never fair. The loops of `CommandsEnd` are bounded: a seal up to
its manifest, and a verify, do one step for each file listed. Packing is not
part of it. Each file is copied in one step of `Archive`, which says nothing of
an output inside of the directory that is there from an earlier run: `Pack` then
copies the archive into itself while it grows, and whether that ends depends on
how the data compress and on the buffers of the library.

Runs of `pev` end, and when every run has ended and the bounds are used up
nothing is left to happen: deadlock is not checked.

**Mutants.** For every property of a passing run there is a plausible bug of
the code (an operator beside the definition it replaces, in the same module)
that the run finds: the walk skips `capture.json`, the time is cut to more than
a second, a nonce is reused or not compared, the token file is not emptied
before it is written, an answer is stored unverified, the imprint or the roots
are not used, an early return
forgets the verdict, a wrapping folder is not looked for, an archive is closed
on every way out or before its last file, files are packed in the order in which
they come, the time of the seal goes into the bundle id, a missing nonce fits any
request, a certificate attribute that is there is taken for one that fits.

## What is proved

TLAPS checks, for any number of runs, paths, contents, certificates, requests
and tokens, and for unbounded time:

| Theorem | States |
| --- | --- |
| `TypeCorrect` (PevTypeProofs) | `Spec => []TypeOK` |
| `SealedLast` (PevEvidenceProofs) | `Spec => []SealedAtIsLast` |
| `StoredTokenIsAnswer` (PevEvidenceProofs) | `Spec => []StoredTokenAnswersRequest` |
| `TimestampProves` (PevEvidenceProofs) | `Spec => []EvidenceDated` |
| `VerdictExplained` (PevVerdictProofs) | `Spec => []VerdictIsExplained` |
| `OptionsAreHonoured` (PevVerdictProofs) | `Spec => []OptionsHonoured` |
| `QuietInvariant` (PevQuietProofs) | `Spec => []QuietInv` |
| `SealCovers` (PevQuietProofs) | `Spec => []SealCoversDirectory` |
| `RacingSeals` (PevQuietProofs) | `Spec => []RacingSealsAgree` |
| `StampVerifies` (PevQuietProofs) | `Spec => []StampedTokenVerifies` |
| `VerdictRight` (PevQuietProofs) | `Spec => []VerdictIsRight` |
| `SameId` (PevQuietProofs) | `Spec => []SameCaptureSameId` |
| `SealInvariant`, `StampInvariant`, `EvidenceInvariant` (PevEvidenceProofs) | `Spec => []SealInv`, `[]StampInv`, `[]EvidenceInv` |
| `DatesEvidence` (PevDatesProofs) | `Spec => ImplementsDatedEvidence` |
| `PromiseKept` (PevDatesProofs) | `Spec => []D!Promise` |
| `ArchivesImplementPev` (ArchiveProofs) | `ArchivesSpec => Spec`, for outputs outside of the directory |
| `ArchiveTypeCorrect` (ArchiveProofs) | `ArchivesSpec => []ArchiveType` |
| `OpenedIsWhole` (ArchiveProofs) | `ArchivesSpec => []ArchiveIsWhole` |
| `ArchiveProves` (ArchiveProofs) | `ArchivesSpec => []ArchiveDated` |
| `ReproduciblePacking` (ArchiveVerdictProofs) | `ArchivesSpec => []PackingIsReproducible` |
| `RacingArchives` (ArchiveVerdictProofs) | `ArchivesSpec => []RacingArchivesAgree`, for outputs outside of the directory |
| `ArchiveVerdict` (ArchiveVerdictProofs) | `ArchivesSpec => []ArchiveVerifiesAlike`, for outputs outside of the directory |
| `OnlyIssuedAccepted` (TokenProofs) | `TokenSpec => []AcceptedWasIssued` |
| `DefectsNamed` (TokenProofs) | `TokenSpec => []DefectIsNamed` |
| `IntactJudged` (TokenProofs) | `TokenSpec => []IntactIsJudgedRight` |
| `PlainJudgement` (TokenProofs) | `TokenSpec => []JudgedAsPlain` |

So every invariant of a passing run is a theorem, and so is the refinement.

The assumptions are those the modules name: paths are numbers, the capture
path is one of them, usable records are contents, the sentinels are different
from one another and are not encodings of values, every certificate has its
first and last instant, there is at least one instant to a second, the options
of runs are among those there are, and runs of different commands are different.

What is assumed of the world is in the actions of the environment. An authority
under the roots has a right clock, signs what it is asked to, and cuts its
`genTime` to the second at most (`GenTimes`). Everybody else signs what they
like under any time (`TsaIssue`, `SelfStamp`), but cannot guess a nonce that a
request will have. Who writes a manifest by hand lists what is in the directory
at that moment (`EditManifest`).

Three theorems assume one thing more, that no output of `-zip` is a file of the
directory it packs (`Output \cap Path = {}`): `ArchiveVerdict`, which is false
without it, as run `inside` shows; `RacingArchives`, as runs that pack into the
directory pack each other's archives; and `ArchivesImplementPev`, as to write
there is no step of `Spec`. The other theorems about archives hold wherever
`-zip` points.

The argument. Few of the properties are inductive; `SealInv`, `StampInv`,
`EvidenceInv` and `QuietInv` are what makes them so.

- `SealInv` adds to `SealedAtIsLast` that the history is of the past and has
  what is in the directory now, and that all a run has read so far existed by
  now, and that `sealed_at` is not in the future. The lemma `HistoryPreserved`
  shows that the environment keeps the history true, and `DatedLater` that what
  existed by some time existed by any later one; so it does not matter what
  happens between two steps of a seal, only that the time is taken after the
  last of them, and that cutting it takes less than a second away (`t <=
  SecondAfter(Truncate(t))`).
- `StampInv` adds that nonces below `nextNonce` are used and name one request,
  that an authority under the roots only answers a request that was sent, and
  that a token of its which has a run's nonce is less than a second older than
  the request. The last is kept by `StampAsk` because no authority has signed
  under a fresh nonce yet, and by `TsaIssue` because time does not go back.
- `EvidenceInv` follows the digests: the manifest on disk only lists what
  existed by now (`SealedLast`, and `EditManifest` can only add what is there);
  hence so does a manifest whose digest was sent; hence a token that an authority
  under the roots signed vouches only for manifests that list what existed less
  than a second after its `genTime`; and only tokens that somebody signed are
  ever written to `timestamp.tsr` (`Provenance`). Of other signers nothing is
  known, and with roots `ChainVerified` keeps their tokens out of a report. A verification in
  progress has accounted for every artefact it has read (`Accounted`).
- `QuietInv` says of a run in `calm` that what it has in memory is still what is
  on disk: the part of the directory that a seal has hashed, the manifest a
  stamp has hashed, the names and the manifest a verification has read, and
  that its verdict so far is the conjunction of what it has compared. The lemma
  `Undisturbed` carries it over the steps of everybody else: whoever writes
  takes all other runs out of `calm`. For `RacingSealsAgree`, where seals do
  disturb each other, the part about the artefacts (`ReadingHolds`) is kept for
  every seal as long as nothing was written from outside (`writes = 0`), as
  no command writes an artefact.
- `VerdictIsExplained` and `OptionsHonoured` need no strengthening: each
  sub-check adds a failed line exactly when it returns false
  (`TimestampExplained` for `checkTimestamp`), and the lemmas
  `NoFailureAppended` and `NoFailureJoined` on sequences add them up.
- `DatesEvidence` has one step per action of `Pev`: most change nothing that
  `DatedEvidence` sees. A write to the directory is an `Appear`, a token signed
  under the roots is a `Vouch`, which `EvidenceInv` allows, or nothing if it is
  over bytes that no manifest decodes from, and one signed by anybody else is
  nothing; a conclusion of a verification under roots is a `Report` of a part of
  what the accepted token vouches for.
- `ArchivesImplementPev` is a step simulation: packing writes no file of the
  directory. When it does, the archive is one more file, seen as of then, and
  `AppearsKeeps` shows that `SealInv`, `StampInv` and `EvidenceInv` stand it;
  so they hold of `ArchivesSpec` without the assumption. For `OpenedIsWhole` and
  `ArchiveProves` the invariant is `ArchivesInv`: a run that
  packs has an archive to itself, not closed yet, with the names it has done;
  an archive that opens, unless somebody touched it, has all names of a run that
  finished; and a token in an archive, whatever became of it, was signed by somebody. A
  token accepted on an archive under roots then vouches for the manifest beside
  it, and `EvidenceInv` says that this lists only what existed.
- `ArchiveVerdict` and `RacingArchives` need `PackQuietInv`: a run that packs
  has sealed, the names it listed are those in the directory, and each entry is
  what is on disk, for a run in `calm`; for runs that only race each other,
  each artefact packed is the one in the directory, and a manifest packed that
  can be decoded lists the directory, whichever run it is of. The last comes
  from `RacingSeals` at the moment the manifest is copied, and stays true as no
  run of `pev` writes an artefact. It is inductive only together with
  `QuietInv`, which knows what a run that has sealed left on disk. What was
  listed and packed, and nothing else, is then what `ArchivePasses` reads.
- `ReproduciblePacking` has `OrderInv`: what a run has packed comes before what
  it has not, so that appending the least name of the rest keeps an archive
  sorted. That two sorted lists with the same members are the same
  (`SameOrder`) looks at the first place where they differ: the name that one
  has there comes later in the other, where a smaller one stands in its
  place, which the first must have too and cannot. That there is a first place
  (`Least`) is the well-foundedness of the naturals.
- `OnlyIssuedAccepted` follows the signature: `Bend` can break one and not make
  one, so a response whose signature holds has the attributes an authority
  signed; they have the digest of the TSTInfo it is about, and of the
  certificate, and a digest determines what it is of.
- The other theorems about tokens are case analyses of the steps. Their
  invariants are `ClientInv`, that the client's result is that of the
  steps on the response it was given, and `AsStamped`, that a response nobody
  changed is what the authority made, with the defects it was asked for. The
  lemmas `ParseStepsAre` and `VerifyStepsAre` say what each step is, and
  `FirstFails` that the step reported is the one all before which passed;
  `StampedSteps` says which steps a defect of `Stamp` makes fail. In
  `DefectsNamed` that yields the first defect in the order of `ShowsAt`, and in
  `IntactJudged` that only the steps about the request are left; that the
  certificate reported is then the one it was issued under, and so the first
  that fits, is `PassedWasIssued`, from the invariant of `OnlyIssuedAccepted`.
  `PlainJudgement` needs no more than that the fields `Plain` maps to are
  what the steps look at, one by one.

`SealInv`, `StampInv`, `EvidenceInv` and `QuietInv` are also invariants of TLC
runs; those of archives and tokens stand in the modules of their proofs. Symbolic
SHA-256 is where the cryptography is assumed away: a digest determines the
bytes, and a token with sound CMS was signed under the certificate it names:
under the roots, by an authority.

Only model-checked: `CommandsEnd`, as liveness under fairness is out of reach of
this prover; and the four disagreements below, which are counterexamples.

## Where code and documents disagree

- **Fallback authority** (run `fallback`). `client.go:18` and `README.md:95`
  say that DigiCert is used when FreeTSA is unreachable. `FallbackTSA` is never
  read: the run fails.
- **Sealing again** (run `reseal`). `docs/bundle-format.md:13` describes
  `timestamp.tsr` as being over `sha256(manifest.json)` and written after it.
  `pev seal` on a stamped directory replaces the manifest and leaves the token
  of the earlier one, with which `pev verify` fails the bundle.
- **An unreadable token** (run `unreadable`). `checkTimestamp` takes every
  error for a missing file: a `timestamp.tsr` that is in the archive but does
  not match its checksum is reported as missing (`verify.go:203`), and the
  bundle passes with a warning unless `-require-timestamp` is given. Damage to
  an artefact, in contrast, fails it.
- **An archive inside of its directory** (run `inside`).
  `docs/bundle-format.md:5` says that a directory and its archive verify
  identically. With `-zip` naming a file in the directory, the archive passes
  and the directory fails, over the archive it now has.

## What is not modelled

- `pev inspect`, the rendering of reports, flags, exit codes and PEM roots: no
  state, only formatting and parsing.
- `genfixture`: a single process that writes fixed files once.
- Of a token: DER; the padding or curve of a signature algorithm (a signature is
  made with a key under a hash); which hash the imprint names, beyond that it is
  a known one, as `Token.Verify` compares the bytes of the digest alone; chains
  of more than one intermediate; the accuracy, which is printed and compared
  with nothing.
- Of a capture record: the field rules of `Capture.Validate` (`GoodCapture` is
  the set of what they let through), and the role and media type of an artefact,
  which nothing reads back.
- Of a directory: sub-directories, symbolic links, permissions. A directory file
  that is there and cannot be read is only modelled as an entry of an archive.
- Of an archive: nested folders, duplicate names, compression.
- That two runs at once are given the same `-zip` output (`Unused`).

## The plan

1. Done: `Evidence`, `Rfc3161`, `Workspace`, `Seal`, `Stamp`, `Verify`, `Pev`;
   `DatedEvidence` and the refinement; `Archive`; `TimeStampToken` and
   `PlainToken`; the runs and theorems above.
2. Done: all invariants as theorems (`ArchiveVerdictProofs`, `TokenProofs`).
3. A model of a bundle with sub-directories, whose walk reads one directory at a
   time, if the program comes to be used on live directories of that shape.
