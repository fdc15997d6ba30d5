--------------------------- MODULE ArchiveVerdictProofs -------------------------
(***************************************************************************)
(* What an archive says of the directory it was packed from, for any       *)
(* number of runs, files and changes: the order of the entries is that of  *)
(* their names, archives of racing runs agree with themselves, and one of  *)
(* a run that nobody disturbed is judged as the directory is.  The last    *)
(* two take it that the output is outside of the directory.                *)
(***************************************************************************)
EXTENDS ArchiveProofs, PevQuietProofs, WellFoundedInduction

\* What a packer puts in while only runs of pev write to the directory.
FromRace(e) ==
  /\ e.name \in Path => e.data = files[e.name]
  /\ e.name = ManifestName /\ ManifestParses(e.data) =>
       ParseManifest(e.data).artifacts = Directory

\* What is in the directory.
FromQuiet(e) == e.data = OnDisk(e.name)

HasListed(run) == run.pc \in {"listed", "packing", "packed"}

(***************************************************************************)
(* The inductive invariant.  A run that packs has sealed, what it listed   *)
(* is still there unless somebody disturbed it, and so is what it packed.  *)
(***************************************************************************)
ListHolds(s) ==
  /\ pack[s].pc # "idle" => seal[s].pc = "sealed"
  /\ HasListed(pack[s]) =>
       /\ writes = 0 => pack[s].names \cap Path = Present
       /\ s \in calm => pack[s].names = Listed

\* The entries that nobody damaged are what is in the directory.
EntriesHold(ar) ==
  /\ pack[ar.by].pc # "idle"
  /\ ~ar.touched =>
       \A i \in DOMAIN ar.entries :
         /\ writes = 0 => FromRace(ar.entries[i])
         /\ ar.by \in calm => FromQuiet(ar.entries[i])

PackQuietInv ==
  /\ \A s \in Sealer : ListHolds(s)
  /\ \A o \in Output : archive[o] # NoFile => EntriesHold(archive[o])

-----------------------------------------------------------------------------
(***************************************************************************)
(* Steps of the other commands.                                            *)
(***************************************************************************)
\* As long as nobody else has written, the artefacts are what they were.
LEMMA FilesStay ==
  ASSUME TypeOK, [Next]_vars, writes' = 0
  PROVE  writes = 0 /\ files' = files
<1>1. CASE Environment \/ Authority \/ UNCHANGED vars
  BY <1>1, OthersDisturb
<1>2. CASE \E s \in Sealer : Sealing(s)
  BY <1>2, SealDisturbs, SealingLeaves
<1>3. CASE \E s \in Stamper : Stamping(s)
  BY <1>3, StampDisturbs, StampingLeaves
<1>4. CASE \E v \in Verifier : Verifying(v)
  BY <1>4, VerifyDisturbsNobody
<1> QED  BY <1>1, <1>2, <1>3, <1>4 DEF Next

\* A run that has sealed does nothing more to the directory.
LEMMA SealedStays ==
  ASSUME TypeOK, [Next]_vars, NEW s \in Sealer, seal[s].pc = "sealed"
  PROVE  /\ seal'[s] = seal[s]
         /\ s \in calm' => s \in calm /\ UNCHANGED <<files, manifest, token>>
<1>1. ~Sealing(s)
  BY DEF Sealing, SealStart, SealStep, SealList, SealHash, SealVanished,
         SealNothing, SealTruncate, SealWrite, SealShortWrite, SealAbort
<1>2. s \in Command /\ ~Acts(s)
  BY <1>1, CommandAssumption DEF Acts
<1> QED  BY <1>2, Undisturbed

\* What an archive and its run say of the directory holds if that is the same.
LEMMA SameDirectory ==
  ASSUME files' = files, manifest' = manifest, token' = token
  PROVE  Directory' = Directory /\ Present' = Present /\ Listed' = Listed
         /\ \A n : OnDisk(n)' = OnDisk(n)
BY DEF Directory, Present, Listed, OnDisk

LEMMA ListHoldsLater ==
  ASSUME TypeOK, [Next]_vars, NEW s \in Sealer, ListHolds(s), pack'[s] = pack[s]
  PROVE  ListHolds(s)'
<1>1. writes' = 0 => writes = 0 /\ Present' = Present
  BY FilesStay DEF Present
<1>2. pack[s].pc # "idle" =>
        /\ seal'[s].pc = "sealed"
        /\ s \in calm' => s \in calm /\ Listed' = Listed
  BY SealedStays, SameDirectory DEF ListHolds
<1>3. HasListed(pack[s]) => pack[s].pc # "idle"
  BY DEF HasListed
<1> QED  BY <1>1, <1>2, <1>3 DEF ListHolds, HasListed

LEMMA EntriesHoldLater ==
  ASSUME Invs, PackQuietInv, [Next]_vars, pack' = pack, archive' = archive,
         NEW o \in Output, archive[o] # NoFile
  PROVE  EntriesHold(archive[o])'
<1> DEFINE ar == archive[o]
<1>1. ar.by \in Sealer /\ EntriesHold(ar) /\ ar' = ar
  BY ArchiveHasType DEF Invs, PackQuietInv
<1>2. ASSUME writes' = 0, NEW i \in DOMAIN ar.entries, FromRace(ar.entries[i])
      PROVE  FromRace(ar.entries[i])'
  <2>1. files' = files
    BY <1>2, FilesStay DEF Invs
  <2> QED  BY <1>1, <1>2, <2>1 DEF FromRace, Directory, Present, ManifestParses,
                                   ParseManifest
<1>3. writes' = 0 => writes = 0
  BY FilesStay DEF Invs
<1>4. seal[ar.by].pc = "sealed"
  BY <1>1 DEF EntriesHold, PackQuietInv, ListHolds
<1>5. ar.by \in calm' => ar.by \in calm /\ \A n : OnDisk(n)' = OnDisk(n)
  BY <1>1, <1>4, SealedStays, SameDirectory DEF Invs
<1>6. ASSUME ar.by \in calm', NEW i \in DOMAIN ar.entries, FromQuiet(ar.entries[i])
      PROVE  FromQuiet(ar.entries[i])'
  <2>1. OnDisk(ar.entries[i].name)' = OnDisk(ar.entries[i].name)
    BY <1>1, <1>5, <1>6 DEF OnDisk
  <2> QED  BY <1>1, <1>6, <2>1 DEF FromQuiet
<1> HIDE DEF ar
<1>7. EntriesHold(ar)'
  BY <1>1, <1>2, <1>3, <1>5, <1>6 DEF EntriesHold
<1> QED  BY <1>7 DEF ar

LEMMA OthersKeepArchives ==
  ASSUME Invs, PackQuietInv, [Next]_vars, UNCHANGED archiving
  PROVE  PackQuietInv'
<1>1. pack' = pack /\ archive' = archive
  BY DEF archiving
<1>2. ASSUME NEW s \in Sealer PROVE ListHolds(s)'
  BY <1>1, ListHoldsLater DEF Invs, PackQuietInv
<1>3. ASSUME NEW o \in Output, archive[o] # NoFile
      PROVE  EntriesHold(archive[o])'
  BY <1>1, <1>3, EntriesHoldLater
<1> QED  BY <1>1, <1>2, <1>3 DEF PackQuietInv

-----------------------------------------------------------------------------
(***************************************************************************)
(* Packing, and changes of archives: the directory stays what it is.       *)
(***************************************************************************)
\* Entries that were kept, or lost their bytes in an archive that is touched.
LEMMA EntriesKept ==
  ASSUME UNCHANGED workspace, NEW o \in Output, EntriesHold(archive[o]),
         DOMAIN archive'[o].entries = DOMAIN archive[o].entries,
         \A i \in DOMAIN archive[o].entries :
           archive'[o].entries[i].name = archive[o].entries[i].name,
         archive'[o].by = archive[o].by,
         ~archive'[o].touched =>
           /\ ~archive[o].touched
           /\ \A i \in DOMAIN archive[o].entries :
                archive'[o].entries[i].data = archive[o].entries[i].data,
         pack'[archive[o].by].pc # "idle"
  PROVE  EntriesHold(archive[o])'
<1> DEFINE q == archive[o].entries
           r == archive'[o].entries
<1>1. writes' = writes /\ calm' = calm /\ UNCHANGED <<files, manifest, token>>
  BY DEF workspace
<1>2. ASSUME NEW i \in DOMAIN q, r[i].data = q[i].data, r[i].name = q[i].name
      PROVE  /\ FromRace(q[i]) => FromRace(archive[o].entries[i])'
             /\ FromQuiet(q[i]) => FromQuiet(archive[o].entries[i])'
  <2>1. FromRace(q[i]) => FromRace(archive[o].entries[i])'
    BY <1>1, <1>2 DEF FromRace, ManifestParses, ParseManifest, Directory, Present
  <2>2. OnDisk(archive[o].entries[i].name)' = OnDisk(q[i].name)
    BY <1>1, <1>2 DEF OnDisk
  <2>3. FromQuiet(q[i]) => FromQuiet(archive[o].entries[i])'
    BY <1>2, <2>2 DEF FromQuiet
  <2> QED  BY <2>1, <2>3
<1> QED  BY <1>1, <1>2 DEF EntriesHold

\* What a run has when it has taken one step of packing.
LEMMA ListHoldsHere ==
  ASSUME UNCHANGED <<workspace, seal>>, NEW s \in Sealer,
         seal[s].pc = "sealed",
         HasListed(pack'[s]) =>
           /\ writes = 0 => pack'[s].names \cap Path = Present
           /\ s \in calm => pack'[s].names = Listed
  PROVE  ListHolds(s)'
<1>1. /\ writes' = writes /\ calm' = calm /\ seal' = seal
      /\ UNCHANGED <<files, manifest, token>>
  BY DEF workspace
<1>2. Present' = Present /\ Listed' = Listed
  BY <1>1, SameDirectory
<1>3. HasListed(pack[s])' = HasListed(pack'[s])
  BY DEF HasListed
<1> QED  BY <1>1, <1>2, <1>3 DEF ListHolds

\* The artefacts listed are those that are present.
LEMMA ListedArtefacts == Listed \cap Path = Present
BY NameAssumption DEF Listed, Name, OnDisk, Present

\* A run that takes one step of packing, without writing to an archive.
LEMMA RunKeepsArchives ==
  ASSUME PackQuietInv, ArchiveType, UNCHANGED <<workspace, seal, archive>>,
         NEW s \in Sealer, NEW run, pack' = [pack EXCEPT ![s] = run],
         run.pc # "idle", ListHolds(s)'
  PROVE  PackQuietInv'
<1>1. /\ pack'[s] = run
      /\ \A p \in Sealer \ {s} : pack'[p] = pack[p]
  BY DEF ArchiveType
<1>2. ASSUME NEW p \in Sealer, p # s
      PROVE  ListHolds(p)'
  <2>1. pack'[p] = pack[p] /\ ListHolds(p)
    BY <1>1, <1>2 DEF PackQuietInv
  <2>2. /\ writes' = writes /\ calm' = calm /\ seal' = seal
        /\ Present' = Present /\ Listed' = Listed
    BY SameDirectory DEF workspace
  <2> QED  BY <2>1, <2>2 DEF ListHolds, HasListed
<1>3. ASSUME NEW o \in Output, archive[o] # NoFile
      PROVE  EntriesHold(archive[o])'
  <2>1. EntriesHold(archive[o]) /\ archive[o].by \in Sealer
    BY <1>3, ArchiveHasType DEF PackQuietInv
  <2>2. pack'[archive[o].by].pc # "idle"
    BY <1>1, <2>1 DEF EntriesHold
  <2> QED  BY <2>1, <2>2, EntriesKept
<1> QED  BY <1>2, <1>3 DEF PackQuietInv

\* A run that takes one step of packing and writes to its archive.
LEMMA RunWritesArchive ==
  ASSUME PackQuietInv, ArchiveType, UNCHANGED <<workspace, seal>>,
         NEW s \in Sealer, NEW run, NEW out \in Output, NEW ar,
         pack' = [pack EXCEPT ![s] = run], archive' = [archive EXCEPT ![out] = ar],
         run.pc # "idle", ListHolds(s)', EntriesHold(archive[out])'
  PROVE  PackQuietInv'
<1>1. /\ pack'[s] = run
      /\ \A p \in Sealer \ {s} : pack'[p] = pack[p]
      /\ \A o \in Output \ {out} : archive'[o] = archive[o]
  BY DEF ArchiveType
<1>2. ASSUME NEW p \in Sealer, p # s
      PROVE  ListHolds(p)'
  <2>1. pack'[p] = pack[p] /\ ListHolds(p)
    BY <1>1, <1>2 DEF PackQuietInv
  <2>2. /\ writes' = writes /\ calm' = calm /\ seal' = seal
        /\ Present' = Present /\ Listed' = Listed
    BY SameDirectory DEF workspace
  <2> QED  BY <2>1, <2>2 DEF ListHolds, HasListed
<1>3. ASSUME NEW o \in Output, o # out, archive'[o] # NoFile
      PROVE  EntriesHold(archive[o])'
  <2>1. archive'[o] = archive[o]
    BY <1>1, <1>3
  <2>2. EntriesHold(archive[o]) /\ archive[o].by \in Sealer
    BY <1>3, <2>1, ArchiveHasType DEF PackQuietInv
  <2>3. pack'[archive[o].by].pc # "idle"
    BY <1>1, <2>2 DEF EntriesHold
  <2> QED  BY <2>1, <2>2, <2>3, EntriesKept
<1> QED  BY <1>2, <1>3 DEF PackQuietInv

\* The file that is packed next is what it is in the directory.
LEMMA EntryFromDirectory ==
  ASSUME RacingSealsAgree, NEW n \in Name,
         NEW e, e.name = n, e.data = OnDisk(n)
  PROVE  FromQuiet(e) /\ (writes = 0 => FromRace(e))
<1>1. n \in Path => OnDisk(n) = files[n]
  BY NameAssumption DEF OnDisk
<1>2. n = ManifestName => OnDisk(n) = manifest
  BY NameAssumption DEF OnDisk
<1> QED  BY <1>1, <1>2 DEF FromQuiet, FromRace, RacingSealsAgree

LEMMA PackStepQuiet ==
  ASSUME Output \cap Path = {}, Invs, RacingSealsAgree, PackQuietInv,
         NEW s \in Sealer, PackStep(s), UNCHANGED <<seal, stamping, check>>
  PROVE  PackQuietInv'
<1>1. UNCHANGED <<workspace, seal>> /\ ArchiveType /\ ArchivesInv
  BY PackStepLeaves DEF Invs
<1>2. pack[s].pc # "idle" =>
        /\ seal[s].pc = "sealed"
        /\ HasListed(pack[s]) =>
             /\ writes = 0 => pack[s].names \cap Path = Present
             /\ s \in calm => pack[s].names = Listed
  BY DEF PackQuietInv, ListHolds
<1>3. ASSUME NEW o \in Output, PackList(s, o)
      PROVE  PackQuietInv'
  <2> DEFINE run == [pc |-> "listed", out |-> o, names |-> Listed, todo |-> Listed]
  <2>1. /\ seal[s].pc = "sealed" /\ archive' = archive
        /\ pack' = [pack EXCEPT ![s] = run]
    BY <1>3 DEF PackList
  <2>2. pack'[s] = run /\ run.pc # "idle"
    BY <1>1, <2>1 DEF ArchiveType
  <2>3. ListHolds(s)'
    BY <1>1, <2>1, <2>2, ListedArtefacts, ListHoldsHere
  <2> HIDE DEF run
  <2> QED  BY <1>1, <2>1, <2>2, <2>3, RunKeepsArchives
<1>4. ASSUME PackNothing(s) \/ PackAbort(s) \/ \E n \in Name : PackVanished(s, n)
      PROVE  PackQuietInv'
  <2>1. /\ pack' = [pack EXCEPT ![s] = PackFailed] /\ archive' = archive
        /\ pack[s].pc # "idle"
    BY <1>4 DEF PackNothing, PackAbort, PackVanished, PackFails
  <2>2. pack'[s].pc = "failed" /\ PackFailed.pc # "idle"
    BY <1>1, <2>1 DEF ArchiveType, PackFailed
  <2>3. ListHolds(s)'
    BY <1>1, <1>2, <2>1, <2>2, ListHoldsHere DEF HasListed
  <2> QED  BY <1>1, <2>1, <2>2, <2>3, RunKeepsArchives
<1>5. CASE PackCreate(s)
  <2> DEFINE run == [pc |-> "packing", out |-> pack[s].out,
                     names |-> pack[s].names, todo |-> pack[s].todo]
             ar == [entries |-> <<>>, closed |-> FALSE, by |-> s, touched |-> FALSE]
  <2>1. /\ pack[s].pc = "listed" /\ pack' = [pack EXCEPT ![s].pc = "packing"]
        /\ archive' = [archive EXCEPT ![pack[s].out] = ar]
    BY <1>5 DEF PackCreate, Created
  <2>2. pack[s].out \in Output /\ pack[s].todo = pack[s].names
    BY <1>1, <2>1, PackHasType DEF ArchivesInv, Packs
  <2>3. PICK out \in Output : out = pack[s].out
    BY <2>2
  <2>4. pack' = [pack EXCEPT ![s] = run]
    BY <1>1, <2>1, RunGoesOn
  <2>5. pack'[s] = run /\ archive'[out] = ar /\ run.pc # "idle"
    BY <1>1, <2>1, <2>3, <2>4 DEF ArchiveType
  <2>6. ListHolds(s)'
    BY <1>1, <1>2, <2>1, <2>2, <2>5, ListHoldsHere DEF HasListed
  <2>7. EntriesHold(archive[out])'
    <3>1. /\ archive'[out].by = s /\ archive'[out].entries = <<>>
          /\ pack'[s].pc = "packing" /\ DOMAIN <<>> = {}
      BY <2>5
    <3> HIDE DEF ar, run
    <3> QED  BY <3>1 DEF EntriesHold
  <2> HIDE DEF run, ar
  <2> QED  BY <1>1, <2>1, <2>3, <2>4, <2>5, <2>6, <2>7, RunWritesArchive
<1>6. ASSUME NEW n \in Name, PackFile(s, n)
      PROVE  PackQuietInv'
  <2> DEFINE run == [pc |-> "packing", out |-> pack[s].out,
                     names |-> pack[s].names, todo |-> pack[s].todo \ {n}]
             e == [name |-> n, folder |-> TopLevel, data |-> OnDisk(n)]
             q == archive[pack[s].out].entries
             ar == [archive[pack[s].out] EXCEPT !.entries = Append(q, e)]
  <2>1. /\ pack[s].pc = "packing" /\ NextOf(pack[s].todo, n) /\ OnDisk(n) # NoFile
        /\ archive' = [archive EXCEPT ![pack[s].out] = ar]
        /\ pack' = [pack EXCEPT ![s].todo = @ \ {n}]
    BY <1>6 DEF PackFile, Packed
  <2>2. PICK out \in Output : out = pack[s].out
    BY <1>1, <2>1, PackHasType
  <2>3. archive[out] # NoFile /\ archive[out].by = s /\ ~archive[out].touched
    BY <1>1, <2>1, <2>2 DEF ArchivesInv, Packs
  <2>4. pack' = [pack EXCEPT ![s] = run]
    BY <1>1, <2>1, RunGoesOn
  <2>5. pack'[s] = run /\ archive'[out] = ar /\ run.pc # "idle"
    BY <1>1, <2>1, <2>2, <2>4 DEF ArchiveType
  <2>6. ListHolds(s)'
    <3>1. HasListed(run) =>
            /\ writes = 0 => run.names \cap Path = Present
            /\ s \in calm => run.names = Listed
      BY <1>2, <2>1 DEF HasListed
    <3>2. seal[s].pc = "sealed"
      BY <1>2, <2>1
    <3> HIDE DEF run
    <3> QED  BY <1>1, <2>5, <3>1, <3>2, ListHoldsHere
  <2>7. EntriesHold(archive[out])'
    <3>1. /\ q \in Seq(ZipEntry)
          /\ \A i \in DOMAIN q :
               /\ writes = 0 => FromRace(q[i])
               /\ s \in calm => FromQuiet(q[i])
      BY <1>1, <2>2, <2>3, ArchiveHasType DEF PackQuietInv, EntriesHold
    <3> DEFINE r == Append(q, e)
    <3>2. archive'[out].entries = r /\ archive'[out].by = s
      BY <1>1, <2>2, <2>3, <2>5, ArchiveHasType
    <3>3. FromQuiet(e) /\ (writes = 0 => FromRace(e))
      BY EntryFromDirectory
    <3> HIDE DEF e, q, run
    <3>4. \A i \in DOMAIN r : (i \in DOMAIN q /\ r[i] = q[i]) \/ r[i] = e
      BY <3>1
    <3> HIDE DEF r
    <3>5. pack'[s].pc = "packing" /\ UNCHANGED <<files, manifest, token, writes, calm>>
      BY <1>1, <2>5 DEF run, workspace
    <3>6. ASSUME NEW i \in DOMAIN r
          PROVE  /\ writes' = 0 => FromRace(archive[out].entries[i])'
                 /\ archive'[out].by \in calm' => FromQuiet(archive[out].entries[i])'
      <4>1. FromRace(r[i]) => FromRace(archive[out].entries[i])'
        BY <3>2, <3>5 DEF FromRace, ManifestParses, ParseManifest, Directory, Present
      <4>2. FromQuiet(r[i]) => FromQuiet(archive[out].entries[i])'
        BY <3>2, <3>5 DEF FromQuiet, OnDisk
      <4>3. /\ writes' = 0 => FromRace(r[i])
            /\ archive'[out].by \in calm' => FromQuiet(r[i])
        BY <3>1, <3>2, <3>3, <3>4, <3>5
      <4> QED  BY <4>1, <4>2, <4>3
    <3> QED  BY <3>2, <3>5, <3>6 DEF EntriesHold
  <2> HIDE DEF run, ar
  <2> QED  BY <1>1, <2>1, <2>2, <2>4, <2>5, <2>6, <2>7, RunWritesArchive
<1>7. CASE PackClose(s)
  <2> DEFINE run == [pc |-> "packed", out |-> pack[s].out,
                     names |-> pack[s].names, todo |-> pack[s].todo]
             ar == [archive[pack[s].out] EXCEPT !.closed = TRUE]
  <2>1. /\ pack[s].pc = "packing" /\ archive' = [archive EXCEPT ![pack[s].out] = ar]
        /\ pack' = [pack EXCEPT ![s].pc = "packed"]
    BY <1>7 DEF PackClose
  <2>2. PICK out \in Output : out = pack[s].out
    BY <1>1, <2>1, PackHasType
  <2>3. archive[out] # NoFile /\ archive[out].by = s
    BY <1>1, <2>1, <2>2 DEF ArchivesInv, Packs
  <2>4. pack' = [pack EXCEPT ![s] = run]
    BY <1>1, <2>1, RunGoesOn
  <2>5. pack'[s] = run /\ archive'[out] = ar /\ run.pc # "idle" /\ run.pc # "packing"
    BY <1>1, <2>1, <2>2, <2>4 DEF ArchiveType
  <2>6. ListHolds(s)'
    BY <1>1, <1>2, <2>1, <2>5, ListHoldsHere DEF HasListed
  <2>7. EntriesHold(archive[out])'
    <3>1. EntriesHold(archive[out])
      BY <2>3 DEF PackQuietInv
    <3>2. /\ archive'[out].entries = archive[out].entries
          /\ archive'[out].by = archive[out].by
          /\ archive'[out].touched = archive[out].touched
      BY <1>1, <2>2, <2>3, <2>5, ArchiveHasType
    <3>3. pack'[archive[out].by].pc # "idle"
      BY <2>3, <2>5
    <3> QED  BY <1>1, <3>1, <3>2, <3>3, EntriesKept
  <2> HIDE DEF run, ar
  <2> QED  BY <1>1, <2>1, <2>2, <2>4, <2>5, <2>6, <2>7, RunWritesArchive
<1> QED  BY <1>3, <1>4, <1>5, <1>6, <1>7 DEF PackStep

\* A change of an archive keeps the names of its entries, and their order, and
\* the bytes of an archive that is not touched.
KeepsEntries(ar, x) ==
  /\ x.by = ar.by
  /\ DOMAIN x.entries = DOMAIN ar.entries
  /\ \A i \in DOMAIN ar.entries : x.entries[i].name = ar.entries[i].name
  /\ ~x.touched =>
       /\ ~ar.touched
       /\ \A i \in DOMAIN ar.entries : x.entries[i].data = ar.entries[i].data

LEMMA RefoldKeeps ==
  ASSUME ArchiveType, NEW o \in Output, archive[o] # NoFile, Refold(o)
  PROVE  \E x : Alter(o, x) /\ KeepsEntries(archive[o], x)
<1> DEFINE ar == archive[o]
           q == ar.entries
<1>1. PICK f \in [DOMAIN q -> Folder \cup {TopLevel}] :
        Alter(o, [ar EXCEPT
          !.entries = [i \in DOMAIN @ |-> [@[i] EXCEPT !.folder = f[i]]],
          !.touched = @ \/ \E i, j \in DOMAIN f : f[i] # f[j]])
  BY DEF Refold
<1> DEFINE r == [i \in DOMAIN q |-> [q[i] EXCEPT !.folder = f[i]]]
           mixed == \E i, j \in DOMAIN f : f[i] # f[j]
           x == [ar EXCEPT !.entries = r, !.touched = ar.touched \/ mixed]
<1>2. /\ q \in Seq(ZipEntry) /\ ar.touched \in BOOLEAN
      /\ ar = [entries |-> q, closed |-> ar.closed, by |-> ar.by,
               touched |-> ar.touched]
  BY ArchiveHasType
<1>3. Alter(o, x)
  BY <1>1
<1>4. /\ DOMAIN r = DOMAIN q
      /\ \A i \in DOMAIN q : r[i].name = q[i].name /\ r[i].data = q[i].data
  BY <1>2 DEF ZipEntry
<1>5. x.entries = r /\ x.by = ar.by /\ x.touched = (ar.touched \/ mixed)
  <2> HIDE DEF r, mixed, q
  <2> QED  BY <1>2
<1>6. ~x.touched => ~ar.touched
  BY <1>5
<1> HIDE DEF x, r, mixed
<1> QED  BY <1>3, <1>4, <1>5, <1>6 DEF KeepsEntries

LEMMA DamageKeeps ==
  ASSUME ArchiveType, NEW o \in Output, archive[o] # NoFile,
         DamageArchive(o) \/ ReplacePackedToken(o)
  PROVE  \E x : Alter(o, x) /\ KeepsEntries(archive[o], x)
<1> DEFINE ar == archive[o]
           q == ar.entries
<1>1. /\ q \in Seq(ZipEntry)
      /\ ar = [entries |-> q, closed |-> ar.closed, by |-> ar.by,
               touched |-> ar.touched]
  BY ArchiveHasType
<1>2. CASE Alter(o, [ar EXCEPT !.closed = FALSE, !.touched = TRUE])
  <2> DEFINE x == [ar EXCEPT !.closed = FALSE, !.touched = TRUE]
  <2>1. x.by = ar.by /\ x.entries = q /\ x.touched
    BY <1>1
  <2>2. Alter(o, x)
    BY <1>2
  <2> HIDE DEF x
  <2> QED  BY <2>1, <2>2 DEF KeepsEntries
<1>3. ASSUME NEW i \in DOMAIN q, NEW d, Overwrite(o, i, d)
      PROVE  \E x : Alter(o, x) /\ KeepsEntries(archive[o], x)
  <2> DEFINE r == [q EXCEPT ![i].data = d]
             x == [ar EXCEPT !.entries = r, !.touched = TRUE]
  <2>1. Alter(o, x)
    BY <1>3 DEF Overwrite
  <2>2. DOMAIN r = DOMAIN q /\ \A j \in DOMAIN q : r[j].name = q[j].name
    BY <1>1 DEF ZipEntry
  <2>3. x.by = ar.by /\ x.entries = r /\ x.touched
    <3> HIDE DEF r, q
    <3> QED  BY <1>1
  <2> HIDE DEF x, r
  <2> QED  BY <2>1, <2>2, <2>3 DEF KeepsEntries
<1> QED  BY <1>2, <1>3 DEF DamageArchive, ReplacePackedToken

\* Such a change does not disturb what is said of the directory.
LEMMA AlterQuiet ==
  ASSUME PackQuietInv, ArchiveType, UNCHANGED <<seal, stamping, check>>,
         NEW o \in Output, NEW x, Alter(o, x), KeepsEntries(archive[o], x)
  PROVE  PackQuietInv'
<1>1. /\ archive[o] # NoFile /\ archive' = [archive EXCEPT ![o] = x]
      /\ UNCHANGED <<workspace, pack, seal>>
  BY DEF Alter
<1>2. archive'[o] = x /\ \A p \in Output \ {o} : archive'[p] = archive[p]
  BY <1>1 DEF ArchiveType
<1>3. ASSUME NEW s \in Sealer
      PROVE  ListHolds(s)'
  <2>1. /\ writes' = writes /\ calm' = calm /\ seal' = seal /\ pack' = pack
        /\ Present' = Present /\ Listed' = Listed
    BY <1>1, SameDirectory DEF workspace
  <2> QED  BY <2>1 DEF PackQuietInv, ListHolds, HasListed
<1>4. ASSUME NEW p \in Output, archive'[p] # NoFile
      PROVE  EntriesHold(archive[p])'
  <2>1. archive[p] # NoFile
    BY <1>1, <1>2, <1>4
  <2>2. EntriesHold(archive[p]) /\ pack'[archive[p].by].pc # "idle"
    BY <1>1, <2>1 DEF PackQuietInv, EntriesHold
  <2>3. CASE p = o
    BY <1>1, <1>2, <2>2, <2>3, EntriesKept DEF KeepsEntries
  <2>4. CASE p # o
    BY <1>1, <1>2, <2>2, <2>4, EntriesKept
  <2> QED  BY <2>3, <2>4
<1> QED  BY <1>3, <1>4 DEF PackQuietInv

(***************************************************************************)
(* The invariant, and what it is for.                                      *)
(***************************************************************************)
LEMMA PackQuietHolds ==
  ASSUME Output \cap Path = {}
  PROVE  ArchivesSpec => [](Invs /\ QuietInv /\ PackQuietInv)
<1>1. ArchivesInit => QuietInv /\ PackQuietInv
  <2>1. ArchiveInit => PackQuietInv
    BY DEF ArchiveInit, PackQuietInv, ListHolds, HasListed, PackIdle
  <2> QED  BY <2>1, QuietInit DEF ArchivesInit
<1>2. Invs /\ QuietInv /\ PackQuietInv /\ [ArchivesNext]_archiveVars
        => QuietInv' /\ PackQuietInv'
  <2> SUFFICES ASSUME Invs, QuietInv, PackQuietInv, [ArchivesNext]_archiveVars
               PROVE  QuietInv' /\ PackQuietInv'
    OBVIOUS
  <2>1. [Next]_vars /\ QuietInv'
    BY OutsideStep, QuietStep DEF Invs
  <2>2. CASE UNCHANGED archiving
    BY <2>1, <2>2, OthersKeepArchives
  <2>3. CASE (\E s \in Sealer : PackStep(s)) /\ UNCHANGED <<seal, stamping, check>>
    BY <2>1, <2>3, PackStepQuiet DEF QuietInv
  <2>4. ASSUME NEW o \in Output, archive[o] # NoFile, ChangeArchive(o),
               UNCHANGED <<seal, stamping, check>>
        PROVE  PackQuietInv'
    <3>1. PICK x : Alter(o, x) /\ KeepsEntries(archive[o], x)
      BY <2>4, RefoldKeeps, DamageKeeps DEF Invs, ChangeArchive
    <3> QED  BY <2>4, <3>1, AlterQuiet DEF Invs
  <2> QED  BY <2>1, <2>2, <2>3, <2>4 DEF ArchivesNext, archiveVars
<1> QED  BY <1>1, <1>2, InvsHold, PTL DEF ArchivesSpec

\* An archive as it was packed, with what its run listed.
LEMMA PackedHasListed ==
  ASSUME Invs, PackQuietInv, NEW o \in Output, AsPacked(o)
  PROVE  LET ar == archive[o]
         IN  /\ ar.by \in Sealer /\ HasListed(pack[ar.by])
             /\ Rooted(ar) = Range(ar.entries)
             /\ EntryNames(ar) = pack[ar.by].names /\ EntryNames(ar) \subseteq Name
             /\ \A i \in DOMAIN ar.entries :
                  /\ writes = 0 => FromRace(ar.entries[i])
                  /\ ar.by \in calm => FromQuiet(ar.entries[i])
<1> DEFINE ar == archive[o]
<1>1. ar # NoFile /\ ar.closed /\ ~ar.touched
  BY DEF AsPacked, Opens
<1>2. IsWhole(ar, o, pack) /\ EntriesHold(ar)
  BY <1>1 DEF Invs, ArchivesInv, PackQuietInv
<1>3. ar.entries \in Seq(ZipEntry) /\ ar.by \in Sealer
  BY <1>1, ArchiveHasType DEF Invs
<1>4. Rooted(ar) = Range(ar.entries)
  BY <1>1, <1>2, <1>3, RootedIsAll DEF IsWhole
<1>5. EntryNames(ar) = Named(ar.entries)
  BY <1>4 DEF EntryNames, Named, Range
<1>6. pack[ar.by].pc = "packed" /\ Named(ar.entries) = pack[ar.by].names
  BY <1>1, <1>2 DEF IsWhole
<1>7. HasListed(pack[ar.by]) /\ pack[ar.by].names \subseteq Name
  BY <1>3, <1>6, PackHasType DEF Invs, HasListed
<1> QED  BY <1>1, <1>2, <1>3, <1>4, <1>5, <1>6, <1>7 DEF EntriesHold

\* A name that is there is read from an entry of that name.
LEMMA NameIsRead ==
  ASSUME NEW ar, NEW n \in EntryNames(ar)
  PROVE  \E i \in DOMAIN ar.entries :
           ar.entries[i].name = n /\ ar.entries[i].data = ReadEntry(ar, n)
<1> DEFINE e == CHOOSE y \in Rooted(ar) : y.name = n
<1>1. PICK x \in Rooted(ar) : x.name = n
  BY DEF EntryNames
<1>2. e \in Rooted(ar) /\ e.name = n
  BY <1>1
<1>3. ReadEntry(ar, n) = e.data
  BY DEF ReadEntry
<1> HIDE DEF e
<1> QED  BY <1>2, <1>3 DEF Rooted, Range

(***************************************************************************)
(* An archive that has the artefacts of the directory, and a manifest that *)
(* lists them, agrees with itself.                                         *)
(***************************************************************************)
LEMMA DirectoryIsAccepted ==
  ASSUME TypeOK, NEW ar, Rooted(ar) = Range(ar.entries),
         EntryNames(ar) \subseteq Name, EntryNames(ar) \cap Path = Present,
         \A a \in Present : ReadEntry(ar, a) = files[a],
         Inventory(ar) = Directory
  PROVE  AcceptedOf(ar) = Inventory(ar) /\ AllListed(ar)
<1> DEFINE good == {a \in DOMAIN Inventory(ar) :
                      /\ ReadEntry(ar, a) \notin {NoFile, Broken}
                      /\ Sha256(ReadEntry(ar, a)) = Inventory(ar)[a]}
<1>1. /\ DOMAIN Directory = Present
      /\ \A a \in Present : Directory[a] = Sha256(files[a])
      /\ Directory = [a \in Present |-> Directory[a]]
  BY DEF Directory
<1>2. \A a \in Present : files[a] \notin {NoFile, Broken}
  BY NameAssumption DEF Present, TypeOK, WorkspaceType
<1>3. good = Present
  BY <1>1, <1>2
<1>4. AcceptedOf(ar) = [a \in Present |-> Directory[a]]
  BY <1>3 DEF AcceptedOf
<1>5. EntryNames(ar) \subseteq Present \cup {ManifestName, TokenName}
  BY DEF Name
<1> QED  BY <1>1, <1>4, <1>5 DEF AllListed

(***************************************************************************)
(* Archives of runs that only race each other agree with themselves: a     *)
(* manifest in one that can be decoded lists exactly the artefacts in it,  *)
(* however seals and packers interleave (RacingArchivesAgree).             *)
(***************************************************************************)
THEOREM RacingArchives ==
  ASSUME Output \cap Path = {}
  PROVE  ArchivesSpec => []RacingArchivesAgree
<1>1. ASSUME Invs, PackQuietInv
      PROVE  RacingArchivesAgree
  <2> SUFFICES ASSUME writes = 0, NEW o \in Output, AsPacked(o),
                      Inventoried(archive[o])
               PROVE  /\ AcceptedOf(archive[o]) = Inventory(archive[o])
                      /\ AllListed(archive[o])
    BY DEF RacingArchivesAgree
  <2> DEFINE ar == archive[o]
             m == ManifestRead(ar)
  <2>1. /\ ar.by \in Sealer /\ HasListed(pack[ar.by])
        /\ Rooted(ar) = Range(ar.entries)
        /\ EntryNames(ar) = pack[ar.by].names /\ EntryNames(ar) \subseteq Name
        /\ \A i \in DOMAIN ar.entries : FromRace(ar.entries[i])
    BY <1>1, PackedHasListed
  <2>2. EntryNames(ar) \cap Path = Present
    BY <1>1, <2>1 DEF PackQuietInv, ListHolds
  <2>3. ASSUME NEW a \in Present
        PROVE  ReadEntry(ar, a) = files[a]
    <3>1. a \in EntryNames(ar) /\ a \in Path
      BY <2>2
    <3>2. PICK i \in DOMAIN ar.entries :
            ar.entries[i].name = a /\ ar.entries[i].data = ReadEntry(ar, a)
      BY <3>1, NameIsRead
    <3> QED  BY <2>1, <3>1, <3>2 DEF FromRace
  <2>4. Inventory(ar) = Directory
    <3>1. m # NoFile /\ ManifestParses(m)
      BY DEF Inventoried, ManifestParses, Sentinel
    <3>2. PICK i \in DOMAIN ar.entries :
            ar.entries[i].name = ManifestName /\ ar.entries[i].data = m
      BY <3>1, ReadIsThere DEF ManifestRead
    <3> QED  BY <2>1, <3>1, <3>2 DEF FromRace, Inventory
  <2> QED  BY <1>1, <2>1, <2>2, <2>3, <2>4, DirectoryIsAccepted DEF Invs
<1> QED  BY <1>1, PackQuietHolds, PTL

(***************************************************************************)
(* An archive packed by a seal that nobody disturbed gets the verdict of   *)
(* the directory, under all options, in a wrapping folder or not           *)
(* (ArchiveVerifiesAlike).  Without the assumption it is false: an output  *)
(* in the directory is listed, and then not what was listed.               *)
(***************************************************************************)
THEOREM ArchiveVerdict ==
  ASSUME Output \cap Path = {}
  PROVE  ArchivesSpec => []ArchiveVerifiesAlike
<1>1. ASSUME Invs, QuietInv, PackQuietInv
      PROVE  ArchiveVerifiesAlike
  <2> SUFFICES ASSUME NEW o \in Output, AsPacked(o), archive[o].by \in calm,
                      NEW opts \in VerifyOptions
               PROVE  ArchivePasses(archive[o], opts) <=> Intact(opts)
    BY DEF ArchiveVerifiesAlike
  <2> DEFINE ar == archive[o]
             s == ar.by
  <2>1. /\ s \in Sealer /\ HasListed(pack[s])
        /\ Rooted(ar) = Range(ar.entries)
        /\ EntryNames(ar) = pack[s].names /\ EntryNames(ar) \subseteq Name
        /\ \A i \in DOMAIN ar.entries : FromQuiet(ar.entries[i])
    BY <1>1, PackedHasListed
  <2>2. EntryNames(ar) = Listed /\ seal[s].pc = "sealed"
    BY <1>1, <2>1 DEF PackQuietInv, ListHolds, HasListed
  <2>3. ASSUME NEW n \in Name
        PROVE  ReadEntry(ar, n) = OnDisk(n)
    <3>1. CASE n \in Listed
      <4>1. PICK i \in DOMAIN ar.entries :
              ar.entries[i].name = n /\ ar.entries[i].data = ReadEntry(ar, n)
        BY <2>2, <3>1, NameIsRead
      <4> QED  BY <2>1, <4>1 DEF FromQuiet
    <3>2. CASE n \notin Listed
      BY <2>2, <3>2 DEF ReadEntry, Listed
    <3> QED  BY <3>1, <3>2
  <2>4. /\ \A a \in Path : a \in Name /\ OnDisk(a) = files[a]
        /\ OnDisk(ManifestName) = manifest /\ OnDisk(TokenName) = token
        /\ ManifestName \in Name /\ TokenName \in Name
    BY NameAssumption DEF OnDisk, Name
  <2>5. /\ manifest # Broken /\ ManifestParses(manifest)
        /\ ParseManifest(manifest).artifacts = Directory
    <3>1. /\ manifest = Whole(seal[s].manifest)
          /\ seal[s].manifest.artifacts = Directory
      BY <1>1, <2>1, <2>2 DEF QuietInv, SealQuiet, ReadingHolds
    <3>2. seal[s].manifest \in Manifest
      BY <1>1, <2>1, <2>2 DEF Invs, TypeOK, SealType, SealState, SealIdle, SealFailed
    <3>3. manifest \in [data : Manifest, rest : Seq(Manifest \cup {Junk})]
      BY <3>1, <3>2 DEF Whole
    <3> QED  BY <3>1, <3>3, SentinelAssumption, NameAssumption
             DEF ManifestParses, ParseManifest, Whole, ManifestFile
  <2>6. ManifestRead(ar) = manifest /\ Inventoried(ar) /\ Inventory(ar) = Directory
    BY <2>3, <2>4, <2>5 DEF ManifestRead, Inventoried, Inventory
  <2>7. TokenRead(ar) = token
    <3>1. token # Broken
      BY <1>1, NameAssumption DEF Invs, TypeOK, WorkspaceType
    <3> QED  BY <2>3, <2>4, <3>1 DEF TokenRead
  <2>8. EntryNames(ar) \cap Path = Present
    BY <2>2, ListedArtefacts
  <2>9. \A a \in Present : ReadEntry(ar, a) = files[a]
    BY <2>3, <2>4 DEF Present
  <2>10. AcceptedOf(ar) = Inventory(ar) /\ AllListed(ar)
    BY <1>1, <2>1, <2>6, <2>8, <2>9, DirectoryIsAccepted DEF Invs
  <2> QED  BY <2>5, <2>6, <2>7, <2>10 DEF ArchivePasses, Intact, AsPacked
<1> QED  BY <1>1, PackQuietHolds, PTL

-----------------------------------------------------------------------------
(***************************************************************************)
(* The order of the entries.                                               *)
(***************************************************************************)
\* A set of numbers has a least one.
LEMMA Least ==
  ASSUME NEW T \in SUBSET Nat, T # {}
  PROVE  \E x \in T : \A y \in T : x <= y
<1> DEFINE R == {ss \in Nat \X Nat : ss[1] < ss[2]}
<1>1. IsWellFoundedOn(R, Nat)
  BY NatLessThanWellFounded, PTL DEF OpToRel
<1>2. \A x, y \in Nat : x < y => <<x, y>> \in R
  OBVIOUS
<1> HIDE DEF R
<1>3. PICK x \in T : \A y \in T : ~(<<y, x>> \in R)
  BY <1>1, WFMin
<1>4. \A y \in T : ~(y < x)
  BY <1>2, <1>3
<1> QED  BY <1>4

\* A list of m numbers in order, and one with all its members.
Ascends(a, m) ==
  /\ a \in [1..m -> Nat]
  /\ \A i, j \in 1..m : i < j => a[i] < a[j]

Within(a, m, b, n) == \A i \in 1..m : \E k \in 1..n : b[k] = a[i]

\* Two lists in order that have the same members do not come apart anywhere.
LEMMA SameOrder ==
  ASSUME NEW m \in Nat, NEW n \in Nat, NEW a, NEW b,
         Ascends(a, m), Ascends(b, n), Within(a, m, b, n), Within(b, n, a, m)
  PROVE  \A i \in 1..m : i \in 1..n /\ a[i] = b[i]
<1> USE DEF Ascends, Within
<1> DEFINE Apart == {i \in 1..m : ~(i \in 1..n /\ a[i] = b[i])}
<1>1. SUFFICES ASSUME Apart # {}
               PROVE  FALSE
  OBVIOUS
<1>2. PICK i \in Apart : \A j \in Apart : i <= j
  <2>1. Apart \in SUBSET Nat
    OBVIOUS
  <2> HIDE DEF Apart
  <2> QED  BY <1>1, <2>1, Least
<1>3. /\ i \in 1..m /\ ~(i \in 1..n /\ a[i] = b[i])
      /\ \A j \in 1..m : j < i => j \in 1..n /\ a[j] = b[j]
  BY <1>2
<1> HIDE DEF Apart
<1>4. PICK k \in 1..n : b[k] = a[i]
  BY <1>3
<1>5. \A x, y \in Nat : x < y => x # y /\ ~(y < x)
  OBVIOUS
<1>6. a[i] \in Nat /\ \A j \in 1..m : j < i => a[j] # a[i] /\ j \in 1..n /\ b[j] = a[j]
  BY <1>3, <1>5
<1>7. i < k
  <2>1. ~(k < i /\ k \in 1..m) /\ k # i
    BY <1>3, <1>4, <1>6
  <2> QED  BY <1>3, <2>1
<1>8. i \in 1..n /\ b[i] \in Nat /\ b[i] < a[i]
  BY <1>3, <1>4, <1>7
<1>9. PICK l \in 1..m : a[l] = b[i]
  BY <1>8
<1>10. ~(i < l)
  <2>1. i < l => a[i] < a[l]
    BY <1>3
  <2> QED  BY <1>5, <1>6, <1>8, <1>9, <2>1
<1>11. ~(l < i)
  <2>1. l < i => b[l] < b[i] /\ b[l] = b[i]
    BY <1>3, <1>6, <1>8, <1>9
  <2> QED  BY <1>5, <1>8, <2>1
<1>12. l # i
  BY <1>3, <1>8, <1>9
<1> QED  BY <1>3, <1>10, <1>11, <1>12

(***************************************************************************)
(* What a run has packed comes before what it has not, and so what is in   *)
(* an archive is in order.  Nothing but packing orders entries, and this   *)
(* does not depend on what is written to the directory meanwhile.          *)
(***************************************************************************)
Sorted(q) == \A i, j \in DOMAIN q : i < j => q[i].name < q[j].name

InOrder(run) ==
  run.pc = "packing" =>
    \A n \in run.names \ run.todo, m \in run.todo : n < m

OrderInv ==
  /\ \A s \in Sealer : InOrder(pack[s])
  /\ \A o \in Output : archive[o] # NoFile => Sorted(archive[o].entries)

\* Only one run, and its archive, change in a step of packing.
LEMMA OneInOrder ==
  ASSUME OrderInv, ArchiveType, NEW s \in Sealer, NEW run, NEW out \in Output, NEW ar,
         pack' = [pack EXCEPT ![s] = run], InOrder(run),
         \/ archive' = archive
         \/ archive' = [archive EXCEPT ![out] = ar] /\ Sorted(ar.entries)
  PROVE  OrderInv'
BY DEF OrderInv, ArchiveType

LEMMA PackStepOrder ==
  ASSUME Invs, OrderInv, NEW s \in Sealer, PackStep(s)
  PROVE  OrderInv'
<1>1. ArchiveType /\ ArchivesInv /\ InOrder(pack[s])
  BY DEF Invs, OrderInv
<1>2. ASSUME NEW o \in Output, PackList(s, o)
      PROVE  OrderInv'
  <2> DEFINE run == [pc |-> "listed", out |-> o, names |-> Listed, todo |-> Listed]
  <2>1. archive' = archive /\ pack' = [pack EXCEPT ![s] = run] /\ InOrder(run)
    BY <1>2 DEF PackList, InOrder
  <2> HIDE DEF run
  <2> QED  BY <1>1, <2>1, OneInOrder
<1>3. ASSUME PackNothing(s) \/ PackAbort(s) \/ \E n \in Name : PackVanished(s, n)
      PROVE  OrderInv'
  <2>1. pack[s].out \in Output
    BY <1>1, <1>3, PackHasType DEF PackNothing, PackAbort, PackVanished
  <2>2. /\ pack' = [pack EXCEPT ![s] = PackFailed] /\ archive' = archive
        /\ InOrder(PackFailed)
    BY <1>3 DEF PackNothing, PackAbort, PackVanished, PackFails, PackFailed, InOrder
  <2> QED  BY <1>1, <2>1, <2>2, OneInOrder
<1>4. CASE PackCreate(s)
  <2> DEFINE run == [pc |-> "packing", out |-> pack[s].out,
                     names |-> pack[s].names, todo |-> pack[s].todo]
             ar == [entries |-> <<>>, closed |-> FALSE, by |-> s, touched |-> FALSE]
  <2>1. /\ pack[s].pc = "listed" /\ pack' = [pack EXCEPT ![s].pc = "packing"]
        /\ archive' = [archive EXCEPT ![pack[s].out] = ar]
    BY <1>4 DEF PackCreate, Created
  <2>2. pack[s].out \in Output /\ pack[s].todo = pack[s].names
    BY <1>1, <2>1, PackHasType DEF ArchivesInv, Packs
  <2>3. pack' = [pack EXCEPT ![s] = run]
    BY <1>1, <2>1, RunGoesOn
  <2>4. InOrder(run)
    BY <2>2 DEF InOrder
  <2>5. Sorted(ar.entries)
    BY DEF Sorted
  <2> HIDE DEF run, ar
  <2> QED  BY <1>1, <2>1, <2>2, <2>3, <2>4, <2>5, OneInOrder
<1>5. ASSUME NEW n \in Name, PackFile(s, n)
      PROVE  OrderInv'
  <2> DEFINE run == [pc |-> "packing", out |-> pack[s].out,
                     names |-> pack[s].names, todo |-> pack[s].todo \ {n}]
             e == [name |-> n, folder |-> TopLevel, data |-> OnDisk(n)]
             q == archive[pack[s].out].entries
             r == Append(q, e)
             ar == [archive[pack[s].out] EXCEPT !.entries = r]
  <2>1. /\ pack[s].pc = "packing" /\ NextOf(pack[s].todo, n)
        /\ archive' = [archive EXCEPT ![pack[s].out] = ar]
        /\ pack' = [pack EXCEPT ![s].todo = @ \ {n}]
    BY <1>5 DEF PackFile, Packed
  <2>2. pack[s].out \in Output /\ archive[pack[s].out] # NoFile
    BY <1>1, <2>1, PackHasType DEF ArchivesInv, Packs
  <2>3. /\ Named(q) = pack[s].names \ pack[s].todo
        /\ pack[s].names \subseteq Nat /\ pack[s].todo \subseteq pack[s].names
    <3>1. Name \subseteq Nat
      BY NameAssumption, EvidenceAssumption DEF Name
    <3> QED  BY <1>1, <2>1, <3>1, PackHasType DEF ArchivesInv, Packs
  <2>4. pack' = [pack EXCEPT ![s] = run]
    BY <1>1, <2>1, RunGoesOn
  <2>5. /\ n \in pack[s].todo /\ \A m \in pack[s].todo \ {n} : n < m
        /\ \A m \in pack[s].names \ pack[s].todo : m < n
    BY <1>1, <2>1, <2>3 DEF NextOf, InOrder
  <2>6. InOrder(run)
    BY <2>3, <2>5, <1>1, <2>1 DEF InOrder
  <2>7. Sorted(r)
    <3>1. q \in Seq(ZipEntry) /\ Sorted(q) /\ e.name = n
      BY <1>1, <2>2, ArchiveHasType DEF OrderInv
    <3>2. \A i \in DOMAIN q : q[i].name < n
      BY <2>3, <2>5 DEF Named
    <3> HIDE DEF q, e
    <3>3. /\ DOMAIN r = 1..(Len(q) + 1) /\ DOMAIN q = 1..Len(q) /\ Len(q) \in Nat
          /\ \A i \in DOMAIN q : r[i] = q[i]
          /\ r[Len(q) + 1] = e
      BY <3>1
    <3> HIDE DEF r
    <3> QED  BY <3>1, <3>2, <3>3 DEF Sorted
  <2>8. ar.entries = r
    <3> HIDE DEF r
    <3> QED  BY <1>1, <2>2, ArchiveHasType
  <2> HIDE DEF run, ar, r
  <2> QED  BY <1>1, <2>1, <2>2, <2>4, <2>6, <2>7, <2>8, OneInOrder
<1>6. CASE PackClose(s)
  <2> DEFINE run == [pc |-> "packed", out |-> pack[s].out,
                     names |-> pack[s].names, todo |-> pack[s].todo]
             ar == [archive[pack[s].out] EXCEPT !.closed = TRUE]
  <2>1. /\ pack[s].pc = "packing" /\ archive' = [archive EXCEPT ![pack[s].out] = ar]
        /\ pack' = [pack EXCEPT ![s].pc = "packed"]
    BY <1>6 DEF PackClose
  <2>2. pack[s].out \in Output /\ archive[pack[s].out] # NoFile
    BY <1>1, <2>1, PackHasType DEF ArchivesInv, Packs
  <2>3. pack' = [pack EXCEPT ![s] = run] /\ InOrder(run)
    BY <1>1, <2>1, RunGoesOn DEF InOrder
  <2>4. Sorted(ar.entries)
    <3>1. ar.entries = archive[pack[s].out].entries
      BY <1>1, <2>2, ArchiveHasType
    <3> QED  BY <2>2, <3>1 DEF OrderInv
  <2> HIDE DEF run, ar
  <2> QED  BY <1>1, <2>1, <2>2, <2>3, <2>4, OneInOrder
<1> QED  BY <1>2, <1>3, <1>4, <1>5, <1>6 DEF PackStep

\* A change of an archive keeps the names of its entries.
LEMMA AlterOrder ==
  ASSUME OrderInv, ArchiveType, NEW o \in Output, archive[o] # NoFile,
         ChangeArchive(o)
  PROVE  OrderInv'
<1>1. PICK x : Alter(o, x) /\ KeepsEntries(archive[o], x)
  BY RefoldKeeps, DamageKeeps DEF ChangeArchive
<1>2. pack' = pack /\ archive' = [archive EXCEPT ![o] = x] /\ DOMAIN archive = Output
  BY <1>1 DEF Alter, ArchiveType
<1>3. Sorted(x.entries)
  BY <1>1 DEF KeepsEntries, OrderInv, Sorted
<1> QED  BY <1>2, <1>3 DEF OrderInv

LEMMA OrderHolds == ArchivesSpec => [](Invs /\ OrderInv)
<1>1. ArchivesInit => OrderInv
  BY DEF ArchivesInit, ArchiveInit, OrderInv, InOrder, PackIdle
<1>2. Invs /\ OrderInv /\ [ArchivesNext]_archiveVars => OrderInv'
  <2> SUFFICES ASSUME Invs, OrderInv, [ArchivesNext]_archiveVars
               PROVE  OrderInv'
    OBVIOUS
  <2>1. CASE UNCHANGED archiving
    BY <2>1 DEF archiving, OrderInv
  <2>2. ASSUME NEW s \in Sealer, PackStep(s)
        PROVE  OrderInv'
    BY <2>2, PackStepOrder
  <2>3. ASSUME NEW o \in Output, archive[o] # NoFile, ChangeArchive(o)
        PROVE  OrderInv'
    BY <2>3, AlterOrder DEF Invs
  <2> QED  BY <2>1, <2>2, <2>3 DEF ArchivesNext, archiveVars
<1> QED  BY <1>1, <1>2, InvsHold, PTL DEF ArchivesSpec

(***************************************************************************)
(* Archives of the same files have them in the same order (Pack).          *)
(***************************************************************************)
THEOREM ReproduciblePacking == ArchivesSpec => []PackingIsReproducible
<1>1. ASSUME Invs, OrderInv
      PROVE  PackingIsReproducible
  <2> SUFFICES ASSUME NEW o \in Output, NEW p \in Output,
                      AsPacked(o), AsPacked(p),
                      {[e EXCEPT !.folder = TopLevel] : e \in Range(archive[o].entries)}
                        = {[e EXCEPT !.folder = TopLevel] :
                             e \in Range(archive[p].entries)}
               PROVE  /\ Len(archive[o].entries) = Len(archive[p].entries)
                      /\ \A i \in DOMAIN archive[o].entries :
                           archive[o].entries[i].name = archive[p].entries[i].name
    BY DEF PackingIsReproducible
  <2> DEFINE A == archive[o].entries
             B == archive[p].entries
             Flat(e) == [e EXCEPT !.folder = TopLevel]
  <2>1. /\ A \in Seq(ZipEntry) /\ B \in Seq(ZipEntry)
        /\ Sorted(A) /\ Sorted(B)
    BY <1>1, ArchiveHasType DEF Invs, OrderInv, AsPacked, Opens
  <2>2. \A e \in ZipEntry : Flat(e).name = e.name /\ e.name \in Nat
    BY EvidenceAssumption, NameAssumption DEF ZipEntry, Name
  <2>3. {Flat(e) : e \in Range(A)} = {Flat(e) : e \in Range(B)}
    OBVIOUS
  <2> HIDE DEF A, B, Flat
  <2> DEFINE Names(q) == [i \in 1..Len(q) |-> q[i].name]
  <2>4. ASSUME NEW q \in Seq(ZipEntry), Sorted(q)
        PROVE  /\ Len(q) \in Nat /\ DOMAIN q = 1..Len(q)
               /\ Names(q) \in [1..Len(q) -> Nat]
               /\ \A i, j \in 1..Len(q) : i < j => Names(q)[i] < Names(q)[j]
    BY <2>2, <2>4 DEF Sorted
  <2>5. ASSUME NEW q \in Seq(ZipEntry), NEW r \in Seq(ZipEntry), NEW i \in 1..Len(q),
               {Flat(e) : e \in Range(q)} = {Flat(e) : e \in Range(r)}
        PROVE  \E k \in 1..Len(r) : Names(r)[k] = Names(q)[i]
    <3>1. /\ q[i] \in Range(q) /\ q[i] \in ZipEntry
          /\ \A e \in Range(r) : \E k \in 1..Len(r) : e = r[k]
      BY <2>5 DEF Range
    <3>2. Flat(q[i]) \in {Flat(e) : e \in Range(r)}
      BY <2>5, <3>1
    <3>3. PICK e \in Range(r) : Flat(e) = Flat(q[i])
      BY <3>2
    <3>4. PICK k \in 1..Len(r) : e = r[k]
      BY <3>1
    <3>5. r[k].name = q[i].name
      BY <2>2, <3>1, <3>3, <3>4
    <3> QED  BY <3>5
  <2>6. /\ Within(Names(A), Len(A), Names(B), Len(B))
        /\ Within(Names(B), Len(B), Names(A), Len(A))
    <3> HIDE DEF Names
    <3> QED  BY <2>1, <2>3, <2>5 DEF Within
  <2>7. /\ Len(A) \in Nat /\ Ascends(Names(A), Len(A))
        /\ Len(B) \in Nat /\ Ascends(Names(B), Len(B))
    BY <2>1, <2>4 DEF Ascends
  <2> HIDE DEF Names
  <2>8. /\ \A i \in 1..Len(A) : i \in 1..Len(B) /\ Names(A)[i] = Names(B)[i]
        /\ \A i \in 1..Len(B) : i \in 1..Len(A)
    BY <2>6, <2>7, SameOrder
  <2>9. Len(A) = Len(B)
    <3>1. Len(A) \in Nat /\ Len(B) \in Nat
      BY <2>7
    <3>2. Len(A) \in 1..Len(A) => Len(A) \in 1..Len(B)
      BY <2>8
    <3>3. Len(B) \in 1..Len(B) => Len(B) \in 1..Len(A)
      BY <2>8
    <3> QED  BY <3>1, <3>2, <3>3
  <2>10. \A i \in DOMAIN A : A[i].name = B[i].name
    <3>1. ASSUME NEW i \in DOMAIN A
          PROVE  A[i].name = B[i].name
      <4>1. i \in 1..Len(A) /\ i \in 1..Len(B) /\ Names(A)[i] = Names(B)[i]
        BY <2>1, <2>4, <2>8
      <4> QED  BY <4>1 DEF Names
    <3> QED  BY <3>1
  <2> QED  BY <2>9, <2>10 DEF A, B
<1> QED  BY <1>1, OrderHolds, PTL
=============================================================================
