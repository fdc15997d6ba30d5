------------------------------ MODULE Archive -------------------------------
(***************************************************************************)
(* The zip form of a bundle: pev seal -zip packs the directory it has just *)
(* sealed (bundle.Pack), and pev verify opens an archive (bundle.Open) and *)
(* judges what it can read of it.  Packing lists the directory again and   *)
(* reads every file again while others may be writing, can fail half-way,  *)
(* and may be told to write into the directory that it packs.              *)
(***************************************************************************)
EXTENDS Pev, Sequences

CONSTANTS
  Output,        \* the files -zip can name; those in Path are in the directory
  ManifestName,  \* the places of manifest.json and of timestamp.tsr in the
  TokenName,     \* lexical order of all names
  Folder,        \* folders somebody may wrap an archive, or a part of it, in
  TopLevel,      \* no folder
  Broken,        \* an entry that does not match its checksum
  MaxAlter       \* bound: changes of archives by anybody but a run of pev

VARIABLES
  archive,       \* the archives
  pack,          \* the part of each seal that packs
  altered        \* how many changes there were, against MaxAlter

archiving == <<archive, pack, altered>>

Name == Path \cup {ManifestName, TokenName}

ASSUME NameAssumption ==
  /\ ManifestName \in Nat \ Path /\ TokenName \in Nat \ Path
  /\ ManifestName # TokenName
  /\ TopLevel \notin Folder
  /\ Broken \notin ManifestFile \cup TokenFile \cup Content

ASSUME AlterAssumption == MaxAlter \in Nat

\* The bytes of a file of the directory as it is now.
OnDisk(n) ==
  CASE n \in Path       -> files[n]
    [] n = ManifestName -> manifest
    [] n = TokenName    -> token

Listed == {n \in Name : OnDisk(n) # NoFile}

Data == (Content \cup ManifestFile \cup TokenFile \cup {Broken}) \ {NoFile}

ZipEntry == [name : Name, folder : Folder \cup {TopLevel}, data : Data]

(***************************************************************************)
(* closed: the central directory is there, without which nothing opens.    *)
(* by and touched are history: the run that wrote it, and whether anything *)
(* but its wrapping folder was changed since.                              *)
(***************************************************************************)
ArchiveFile ==
  [entries : Seq(ZipEntry), closed : BOOLEAN, by : Sealer, touched : BOOLEAN]

ASSUME NoFileAssumption == NoFile \notin ArchiveFile

PackIdle == [pc |-> "idle"]

PackFailed == [pc |-> "failed"]

\* todo: listed and not packed yet; names: all that was listed.
PackState ==
  {PackIdle, PackFailed}
  \cup [pc : {"listed"}, out : Output, names : SUBSET Name, todo : SUBSET Name]
  \cup [pc : {"packing", "packed"}, out : Output,
        names : (SUBSET Name) \ {{}}, todo : SUBSET Name]

ArchiveType ==
  /\ archive \in [Output -> ArchiveFile \cup {NoFile}]
  /\ pack \in [Sealer -> PackState]
  /\ altered \in Nat

ArchiveInit ==
  /\ archive = [o \in Output |-> NoFile]
  /\ pack = [s \in Sealer |-> PackIdle]
  /\ altered = 0

\* The archive is a file of the directory when its name is a path of it.
ArchiveWritten(s, o) ==
  IF o \in Path
  THEN \E c \in Content :
         /\ files' = [files EXCEPT ![o] = c]
         /\ seen' = seen \cup {<<o, c, clock>>}
         /\ WrittenBy(s)
         /\ UNCHANGED <<manifest, token, clock>>
  ELSE UNCHANGED workspace

PackFails(s) == pack' = [pack EXCEPT ![s] = PackFailed]

\* Assumed of users: no two runs at once are given the same output.
Unused(o) ==
  \A p \in Sealer : pack[p].pc \in {"listed", "packing"} => pack[p].out # o

\* The manifest is written and -zip was given: the names are listed.
PackList(s, o) ==
  /\ seal[s].pc = "sealed" /\ pack[s].pc = "idle" /\ Unused(o)
  /\ pack' = [pack EXCEPT ![s] =
       [pc |-> "listed", out |-> o, names |-> Listed, todo |-> Listed]]
  /\ UNCHANGED <<workspace, archive, altered>>

\* Nothing is left to pack: Pack refuses to write an empty archive.
PackNothing(s) ==
  /\ pack[s].pc = "listed" /\ pack[s].names = {}
  /\ PackFails(s)
  /\ UNCHANGED <<workspace, archive, altered>>

\* What PackCreate does once there is something to pack.
Created(s) ==
  /\ pack' = [pack EXCEPT ![s].pc = "packing"]
  /\ archive' = [archive EXCEPT ![pack[s].out] =
       [entries |-> <<>>, closed |-> FALSE, by |-> s, touched |-> FALSE]]
  /\ ArchiveWritten(s, pack[s].out)
  /\ UNCHANGED altered

\* Mutant: an archive is made of nothing.
PackCreateEmpty(s) == pack[s].pc = "listed" /\ Created(s)

\* os.Create empties the file that was there.
PackCreate(s) == pack[s].pc = "listed" /\ pack[s].names # {} /\ Created(s)

\* What PackFile does with the file that it has chosen.
Packed(s, n) ==
  /\ OnDisk(n) # NoFile
  /\ pack' = [pack EXCEPT ![s].todo = @ \ {n}]
  /\ archive' = [archive EXCEPT ![pack[s].out].entries =
       Append(@, [name |-> n, folder |-> TopLevel, data |-> OnDisk(n)])]
  /\ ArchiveWritten(s, pack[s].out)
  /\ UNCHANGED altered

\* Mutant: the names are packed in the order in which they come.
PackFileUnsorted(s, n) ==
  /\ pack[s].pc = "packing" /\ n \in pack[s].todo
  /\ Packed(s, n)

\* The next file in sorted order is opened and copied as it is now.
PackFile(s, n) ==
  /\ pack[s].pc = "packing" /\ NextOf(pack[s].todo, n)
  /\ Packed(s, n)

\* It was removed since it was listed.
PackVanished(s, n) ==
  /\ pack[s].pc = "packing" /\ NextOf(pack[s].todo, n)
  /\ OnDisk(n) = NoFile
  /\ PackFails(s)
  /\ UNCHANGED <<workspace, archive, altered>>

\* Mutant: the writer is closed before the last file is in.
PackCloseEarly(s) ==
  /\ pack[s].pc = "packing"
  /\ pack' = [pack EXCEPT ![s].pc = "packed"]
  /\ archive' = [archive EXCEPT ![pack[s].out].closed = TRUE]
  /\ ArchiveWritten(s, pack[s].out)
  /\ UNCHANGED altered

\* zip.Writer.Close writes the central directory.
PackClose(s) ==
  /\ pack[s].pc = "packing" /\ pack[s].todo = {}
  /\ pack' = [pack EXCEPT ![s].pc = "packed"]
  /\ archive' = [archive EXCEPT ![pack[s].out].closed = TRUE]
  /\ ArchiveWritten(s, pack[s].out)
  /\ UNCHANGED altered

\* Mutant: the writer is closed on every way out.
PackAbortClosing(s) ==
  /\ pack[s].pc = "packing"
  /\ PackFails(s)
  /\ archive' = [archive EXCEPT ![pack[s].out].closed = TRUE]
  /\ UNCHANGED <<workspace, altered>>

\* The run is killed, the disk is full, or a file cannot be opened.
PackAbort(s) ==
  /\ pack[s].pc \in {"listed", "packing"}
  /\ PackFails(s)
  /\ UNCHANGED <<workspace, archive, altered>>

PackStep(s) ==
  \/ \E o \in Output : PackList(s, o)
  \/ PackNothing(s) \/ PackCreate(s)
  \/ \E n \in Name : PackFile(s, n) \/ PackVanished(s, n)
  \/ PackClose(s) \/ PackAbort(s)

-----------------------------------------------------------------------------
\* Somebody changes an archive that is finished.
Alter(o, x) ==
  /\ archive[o] # NoFile /\ archive[o].closed
  /\ altered < MaxAlter
  /\ altered' = altered + 1
  /\ archive' = [archive EXCEPT ![o] = x]
  /\ x # archive[o]
  /\ UNCHANGED <<workspace, pack>>

\* It is packed again with its entries in folders; all in one is no change.
Refold(o) ==
  \E f \in [DOMAIN archive[o].entries -> Folder \cup {TopLevel}] :
    Alter(o, [archive[o] EXCEPT
      !.entries = [i \in DOMAIN @ |-> [@[i] EXCEPT !.folder = f[i]]],
      !.touched = @ \/ \E i, j \in DOMAIN f : f[i] # f[j]])

\* One of its entries gets other bytes.
Overwrite(o, i, d) ==
  Alter(o, [archive[o] EXCEPT !.entries[i].data = d, !.touched = TRUE])

\* It loses its end, or some bytes of an entry.
DamageArchive(o) ==
  \/ Alter(o, [archive[o] EXCEPT !.closed = FALSE, !.touched = TRUE])
  \/ \E i \in DOMAIN archive[o].entries : Overwrite(o, i, Broken)

\* Its token is replaced by any that was ever signed, by an authority or not.
ReplacePackedToken(o) ==
  \E i \in DOMAIN archive[o].entries, t \in issued :
    archive[o].entries[i].name = TokenName /\ Overwrite(o, i, Whole(t))

ChangeArchive(o) == Refold(o) \/ DamageArchive(o) \/ ReplacePackedToken(o)

-----------------------------------------------------------------------------
ArchivesInit == Init /\ ArchiveInit

ArchivesNext ==
  \/ Next /\ UNCHANGED archiving
  \/ (\E s \in Sealer : PackStep(s)) /\ UNCHANGED <<seal, stamping, check>>
  \/ /\ \E o \in Output : archive[o] # NoFile /\ ChangeArchive(o)
     /\ UNCHANGED <<seal, stamping, check>>

archiveVars == <<vars, archiving>>

ArchivesSpec == ArchivesInit /\ [][ArchivesNext]_archiveVars
-----------------------------------------------------------------------------
(***************************************************************************)
(* What pev verify makes of an archive.  Nothing can change it meanwhile,  *)
(* so it is judged in one look, with the sub-checks of Verify.             *)
(***************************************************************************)
\* zip.OpenReader finds the central directory.
Opens(ar) == ar # NoFile /\ ar.closed

\* Mutant: a wrapping folder is not looked for.
RootOfNone(entries) == TopLevel

\* singleRoot: the folder that all entries share, if there is one.
RootOf(entries) ==
  LET shared == {f \in Folder : \A i \in DOMAIN entries : entries[i].folder = f}
  IN  IF shared = {} THEN TopLevel ELSE CHOOSE f \in shared : TRUE

\* The entries the opened bundle has under their own names.
Rooted(ar) ==
  {e \in Range(ar.entries) : e.folder = RootOf(ar.entries)}

EntryNames(ar) == {e.name : e \in Rooted(ar)}

\* bundle.ReadFile: Broken when the checksum does not agree at the end.
ReadEntry(ar, n) ==
  IF n \in EntryNames(ar)
  THEN (CHOOSE e \in Rooted(ar) : e.name = n).data
  ELSE NoFile

\* checkTimestamp takes every error of ReadFile for a missing file.
TokenRead(ar) ==
  IF ReadEntry(ar, TokenName) = Broken THEN NoFile ELSE ReadEntry(ar, TokenName)

ManifestRead(ar) == ReadEntry(ar, ManifestName)

Inventoried(ar) == ManifestRead(ar) # Broken /\ ManifestParses(ManifestRead(ar))

Inventory(ar) == ParseManifest(ManifestRead(ar)).artifacts

\* checkArtifacts: the artefacts that can be read and have the listed digest.
AcceptedOf(ar) ==
  LET good == {a \in DOMAIN Inventory(ar) :
                 /\ ReadEntry(ar, a) \notin {NoFile, Broken}
                 /\ Sha256(ReadEntry(ar, a)) = Inventory(ar)[a]}
  IN  [a \in good |-> Inventory(ar)[a]]

\* checkUnlisted: control names count as such under the root only.
AllListed(ar) ==
  /\ Rooted(ar) = Range(ar.entries)
  /\ EntryNames(ar) \subseteq DOMAIN Inventory(ar) \cup {ManifestName, TokenName}

\* The verdict of verify.Bundle on the opened archive.
ArchivePasses(ar, opts) ==
  /\ Opens(ar) /\ Inventoried(ar)
  /\ AcceptedOf(ar) = Inventory(ar)
  /\ AllListed(ar)
  /\ TimestampOK(TokenRead(ar), ManifestRead(ar), opts)

-----------------------------------------------------------------------------
\* As a run packed it, in whatever folder somebody wrapped the whole since.
AsPacked(o) == Opens(archive[o]) /\ ~archive[o].touched

(***************************************************************************)
(* docs/bundle-format.md: "A bundle is a directory, or a zip archive of    *)
(* that directory. Both verify identically", in a wrapping folder or not.  *)
(* When a seal that nobody disturbed has packed the directory, the two get *)
(* the same verdict under all options (Pack, Open, singleRoot, Bundle).    *)
(***************************************************************************)
ArchiveVerifiesAlike ==
  \A o \in Output : AsPacked(o) /\ archive[o].by \in calm =>
    \A opts \in VerifyOptions : ArchivePasses(archive[o], opts) <=> Intact(opts)

(***************************************************************************)
(* Seals and packers that race each other, on a directory that nothing     *)
(* else writes: an archive may hold the manifest of another run than the   *)
(* one that packed it, but when that manifest can be decoded it lists      *)
(* exactly the artefacts in the archive, with their digests (runSeal).     *)
(***************************************************************************)
RacingArchivesAgree ==
  writes = 0 =>
    \A o \in Output : AsPacked(o) /\ Inventoried(archive[o]) =>
      /\ AcceptedOf(archive[o]) = Inventory(archive[o])
      /\ AllListed(archive[o])

(***************************************************************************)
(* An archive that opens is one that a run finished, and it has all the    *)
(* files which that run listed: a run that dies or fails half-way leaves   *)
(* nothing that could be taken for a bundle (Pack, whose deferred Close    *)
(* closes the file and not the zip writer).                                *)
(***************************************************************************)
ArchiveIsWhole ==
  \A o \in Output : AsPacked(o) =>
    LET run == pack[archive[o].by]
    IN  /\ run.pc = "packed" /\ run.out = o
        /\ EntryNames(archive[o]) = run.names

(***************************************************************************)
(* bundle.go: "packing the same bundle twice produces byte-identical       *)
(* archives".  Archives with the same files have them in the same order,   *)
(* whoever packed them and when (Pack, on the sorted names of List).       *)
(***************************************************************************)
PackingIsReproducible ==
  \A o, p \in Output :
    LET A == archive[o].entries
        B == archive[p].entries
    IN  AsPacked(o) /\ AsPacked(p) /\ {[e EXCEPT !.folder = TopLevel] : e \in Range(A)}
                                   = {[e EXCEPT !.folder = TopLevel] : e \in Range(B)}
        => /\ Len(A) = Len(B)
           /\ \A i \in DOMAIN A : A[i].name = B[i].name

(***************************************************************************)
(* The promise of the program holds for archives too, however they were    *)
(* packed and whatever became of them: a token accepted was signed as it   *)
(* stands for the manifest in there, and with -tsa-roots the artefacts     *)
(* accepted had these bytes, at these paths, less than a second after its  *)
(* time (Pack; Bundle, checkArtifacts and checkTimestamp on an opened      *)
(* archive).                                                               *)
(***************************************************************************)
ArchiveDated ==
  \A o \in Output, opts \in VerifyOptions :
    LET ar == archive[o]
    IN  Opens(ar) /\ Inventoried(ar) =>
          (TokenAccepted(TokenRead(ar), ManifestRead(ar), opts) =>
             LET t == ParseResponse(TokenRead(ar))
             IN  /\ t \in issued /\ t.imprint = Sha256(ManifestRead(ar))
                 /\ opts.roots => Dated(AcceptedOf(ar), SecondAfter(t.genTime)))

(***************************************************************************)
(* verify.go: "timestamp.tsr is missing; the bundle is sealed but not      *)
(* timestamped".  A report only says so of an archive without that file.   *)
(***************************************************************************)
MissingMeansAbsent ==
  \A o \in Output, opts \in VerifyOptions :
    LET ar == archive[o]
    IN  /\ Opens(ar) /\ Inventoried(ar)
        /\ Entry("trusted timestamp", "warn")
             \in Range(TimestampChecks(TokenRead(ar), ManifestRead(ar), opts))
        => TokenName \notin EntryNames(ar)
=============================================================================
