---------------------------- MODULE ArchiveProofs ---------------------------
(***************************************************************************)
(* Archives, for any number of runs, files and changes: their type, that   *)
(* one that opens is whole, and that the promise of the program holds for  *)
(* them, wherever -zip points.  With all outputs outside of the directory, *)
(* what packs is no step of Pev, and all that is proved of Pev holds.      *)
(***************************************************************************)
EXTENDS Archive, PevEvidenceProofs

\* An archive in the directory: a file of it has other bytes, as others see.
Appears(a, c) ==
  /\ files' = [files EXCEPT ![a] = c]
  /\ seen' = seen \cup {<<a, c, clock>>}
  /\ calm' \subseteq calm
  /\ UNCHANGED <<manifest, token, writes, clock>>

\* What is written to an archive changes one file of the directory, or none.
LEMMA WrittenToArchive ==
  ASSUME NEW s, NEW o \in Output, ArchiveWritten(s, o)
  PROVE  /\ o \in Path => \E c \in Content : Appears(o, c)
         /\ o \notin Path => UNCHANGED workspace
BY DEF ArchiveWritten, Appears, WrittenBy

\* What a step of packing changes besides archives.
LEMMA PackStepLeaves ==
  ASSUME ArchiveType, NEW s \in Sealer, PackStep(s)
  PROVE  /\ altered' = altered
         /\ \/ UNCHANGED workspace
            \/ \E a \in Output \cap Path, c \in Content : Appears(a, c)
<1>1. ASSUME NEW o \in Output, PackList(s, o)
      PROVE  UNCHANGED <<workspace, altered>>
  BY <1>1 DEF PackList
<1>2. pack[s].pc \in {"listed", "packing"} => pack[s].out \in Output
  BY DEF ArchiveType, PackState, PackIdle, PackFailed
<1>3. CASE PackCreate(s)
  BY <1>2, <1>3, WrittenToArchive DEF PackCreate, Created
<1>4. ASSUME NEW n \in Name, PackFile(s, n)
      PROVE  /\ altered' = altered
             /\ \/ UNCHANGED workspace
                \/ \E a \in Output \cap Path, c \in Content : Appears(a, c)
  BY <1>2, <1>4, WrittenToArchive DEF PackFile, Packed
<1>5. CASE PackClose(s)
  BY <1>2, <1>5, WrittenToArchive DEF PackClose
<1> QED  BY <1>1, <1>3, <1>4, <1>5 DEF PackStep, PackNothing, PackVanished, PackAbort

\* A step of the program with archives is one of Pev, leaves it alone, or
\* writes an archive into the directory.
LEMMA ArchivesStepIsPevStep ==
  ASSUME ArchiveType, [ArchivesNext]_archiveVars
  PROVE  \/ [Next]_vars
         \/ /\ \E a \in Output \cap Path, c \in Content : Appears(a, c)
            /\ UNCHANGED <<seal, stamping, check>>
<1>1. ASSUME NEW s \in Sealer, PackStep(s), UNCHANGED <<seal, stamping, check>>
      PROVE  \/ UNCHANGED vars
             \/ \E a \in Output \cap Path, c \in Content : Appears(a, c)
  BY <1>1, PackStepLeaves DEF vars
<1>2. ASSUME NEW o \in Output, ChangeArchive(o), UNCHANGED <<seal, stamping, check>>
      PROVE  UNCHANGED vars
  BY <1>2 DEF ChangeArchive, Refold, DamageArchive, ReplacePackedToken, Overwrite,
              Alter, vars
<1> QED  BY <1>1, <1>2 DEF ArchivesNext, archiveVars

(***************************************************************************)
(* The invariants of Pev do not mind an archive in the directory: it is    *)
(* seen as of now, and what the runs have in memory was seen before.       *)
(***************************************************************************)
LEMMA AppearsKeeps ==
  ASSUME TypeOK, SealInv, StampInv, EvidenceInv,
         NEW a \in Path, NEW c \in Content, Appears(a, c),
         UNCHANGED <<seal, stamping, check>>
  PROVE  TypeOK' /\ SealInv' /\ StampInv' /\ EvidenceInv'
<1>1. /\ files \in [Path -> Content \cup {NoFile}] /\ clock \in Nat /\ clock' = clock
      /\ seen \in SUBSET (Path \X Content \X Nat) /\ seen \subseteq seen'
      /\ files' = [files EXCEPT ![a] = c] /\ seen' = seen \cup {<<a, c, clock>>}
      /\ issued \in SUBSET Token
  BY DEF Appears, TypeOK, WorkspaceType, StampType
<1>2. /\ UNCHANGED <<manifest, token, seal, check>>
      /\ UNCHANGED <<stamp, sent, issued, nextNonce>>
  BY DEF Appears, stamping
<1>3. TypeOK'
  <2>1. seen' \subseteq Path \X Content \X Nat
    BY <1>1
  <2>2. files' \in [Path -> Content \cup {NoFile}]
    BY <1>1
  <2> QED  BY <1>1, <1>2, <2>1, <2>2 DEF TypeOK, WorkspaceType, SealType, StampType,
                                        VerifyType, Appears
<1>4. SealInv'
  <2>1. HistoryIsPast'
    BY <1>1 DEF SealInv, HistoryIsPast
  <2>2. FilesAreSeen'
    <3>1. ASSUME NEW b \in Path, files'[b] # NoFile
          PROVE  \E e \in seen' : e[1] = b /\ e[2] = files'[b] /\ e[3] <= clock
      <4>1. CASE b = a
        <5> DEFINE e == <<a, c, clock>>
        <5>1. e \in seen' /\ e[1] = b /\ e[2] = files'[b] /\ e[3] <= clock
          BY <1>1, <4>1
        <5> HIDE DEF e
        <5> QED  BY <5>1
      <4>2. CASE b # a
        <5>1. files'[b] = files[b] /\ b \in Present
          BY <1>1, <3>1, <4>2 DEF Present
        <5> QED  BY <1>1, <5>1 DEF SealInv, FilesAreSeen, Existed
      <4> QED  BY <4>1, <4>2
    <3> QED  BY <1>1, <3>1 DEF FilesAreSeen, Present, Existed
  <2>3. ASSUME NEW s \in Sealer
        PROVE  SealOne(seen', clock', seal'[s])
    BY <1>1, <1>2, SealInvByRun, SealOneLater DEF TypeOK, SealType
  <2> QED  BY <2>1, <2>2, <2>3 DEF SealInv, SealedAtIsLast, SealOne, CaptureRead,
                                    CaptureIn, Existed, ExistedIn, Dated, DatedIn
<1>5. StampInv'
  BY <1>1, <1>2 DEF StampInv, NoncesAreFresh, IssuedOnRequest
<1>6. EvidenceInv'
  <2>1. ProvenanceIn(seen', clock', manifest', sent', issued', token')
    BY <1>1, <1>2, ProvenanceWithHistory, ProvenanceLater DEF EvidenceInv
  <2>2. ASSUME NEW v \in Verifier
        PROVE  VerifyOne(seen', issued', check'[v])
    BY <1>1, <1>2, EvidenceInvByRun, VerifyOneLater
  <2> QED  BY <2>1, <2>2 DEF EvidenceInv, Provenance, ProvenanceIn, FileDated, FileIn,
             EvidenceDated, VerifyOne, Dated, DatedIn, Existed, ExistedIn
<1> QED  BY <1>3, <1>4, <1>5, <1>6

-----------------------------------------------------------------------------
\* What an entry can be made of.
LEMMA OnDiskIsData ==
  ASSUME TypeOK, NEW n \in Name, OnDisk(n) # NoFile
  PROVE  OnDisk(n) \in Data
<1>1. n \in Path => OnDisk(n) = files[n]
  BY NameAssumption DEF OnDisk
<1>2. n = ManifestName => OnDisk(n) = manifest
  BY NameAssumption DEF OnDisk
<1>3. n = TokenName => OnDisk(n) = token
  BY NameAssumption DEF OnDisk
<1>4. /\ \A a \in Path : files[a] \in Content \cup {NoFile}
      /\ manifest \in ManifestFile /\ token \in TokenFile
  BY DEF TypeOK, WorkspaceType
<1> QED  BY <1>1, <1>2, <1>3, <1>4 DEF Name, Data

\* A sequence with one element more.
LEMMA Appended ==
  ASSUME NEW S, NEW q \in Seq(S), NEW e \in S
  PROVE  /\ Append(q, e) \in Seq(S)
         /\ DOMAIN Append(q, e) = DOMAIN q \cup {Len(q) + 1}
         /\ Len(q) + 1 \notin DOMAIN q
         /\ \A i \in DOMAIN q : Append(q, e)[i] = q[i]
         /\ Append(q, e)[Len(q) + 1] = e
OBVIOUS

\* The parts of the type of archives.
LEMMA PackHasType ==
  ASSUME ArchiveType, NEW s \in Sealer
  PROVE  /\ pack[s].pc \in {"listed", "packing", "packed"} =>
              /\ pack[s].out \in Output
              /\ pack[s].names \subseteq Name /\ pack[s].todo \subseteq Name
         /\ pack[s].pc \in {"packing", "packed"} => pack[s].names # {}
         /\ pack[s].pc = "listed" =>
              pack[s] = [pc |-> "listed", out |-> pack[s].out,
                         names |-> pack[s].names, todo |-> pack[s].todo]
         /\ pack[s].pc = "packing" =>
              pack[s] = [pc |-> "packing", out |-> pack[s].out,
                         names |-> pack[s].names, todo |-> pack[s].todo]
BY DEF ArchiveType, PackState, PackIdle, PackFailed

\* A run that goes on.
LEMMA RunGoesOn ==
  ASSUME ArchiveType, NEW s \in Sealer, pack[s].pc \in {"listed", "packing"}, NEW x
  PROVE  /\ [pack EXCEPT ![s].pc = x]
              = [pack EXCEPT ![s] =
                   [pc |-> x, out |-> pack[s].out, names |-> pack[s].names,
                    todo |-> pack[s].todo]]
         /\ [pack EXCEPT ![s].todo = @ \ {x}]
              = [pack EXCEPT ![s] =
                   [pc |-> pack[s].pc, out |-> pack[s].out, names |-> pack[s].names,
                    todo |-> pack[s].todo \ {x}]]
<1> DEFINE r == pack[s]
<1>1. PICK y, o, n, t : r = [pc |-> y, out |-> o, names |-> n, todo |-> t]
  BY PackHasType
<1>2. /\ [r EXCEPT !.pc = x] = [pc |-> x, out |-> o, names |-> n, todo |-> t]
      /\ [r EXCEPT !.todo = r.todo \ {x}]
           = [pc |-> y, out |-> o, names |-> n, todo |-> t \ {x}]
  <2> HIDE DEF r
  <2>1. [r EXCEPT !.pc = x] = [pc |-> x, out |-> o, names |-> n, todo |-> t]
    BY <1>1
  <2>2. r.todo = t
    BY <1>1
  <2>3. [r EXCEPT !.todo = t \ {x}]
          = [pc |-> y, out |-> o, names |-> n, todo |-> t \ {x}]
    BY <1>1
  <2> QED  BY <2>1, <2>2, <2>3
<1>3. r.pc = y /\ r.out = o /\ r.names = n /\ r.todo = t
  BY <1>1
<1>4. /\ [pack EXCEPT ![s].pc = x] = [pack EXCEPT ![s] = [r EXCEPT !.pc = x]]
      /\ [pack EXCEPT ![s].todo = @ \ {x}]
           = [pack EXCEPT ![s] = [r EXCEPT !.todo = r.todo \ {x}]]
  OBVIOUS
<1> QED  BY <1>2, <1>3, <1>4

LEMMA ArchiveHasType ==
  ASSUME ArchiveType, NEW o \in Output, archive[o] # NoFile
  PROVE  /\ archive[o].entries \in Seq(ZipEntry)
         /\ archive[o].closed \in BOOLEAN /\ archive[o].touched \in BOOLEAN
         /\ archive[o].by \in Sealer
         /\ archive[o] = [entries |-> archive[o].entries,
                          closed |-> archive[o].closed, by |-> archive[o].by,
                          touched |-> archive[o].touched]
BY DEF ArchiveType, ArchiveFile

-----------------------------------------------------------------------------
(***************************************************************************)
(* The inductive invariant, with the archives, the runs and the tokens as  *)
(* parameters.                                                             *)
(***************************************************************************)
Named(q) == {q[i].name : i \in DOMAIN q}

\* A run that packs has written this much of an archive that is its alone.
Packs(run, s, A) ==
  /\ run.pc = "listed" => run.todo = run.names
  /\ run.pc = "packing" =>
       LET ar == A[run.out]
       IN  /\ ar # NoFile /\ ar.by = s /\ ~ar.closed /\ ~ar.touched
           /\ run.todo \subseteq run.names
           /\ Named(ar.entries) = run.names \ run.todo
           /\ \A i \in DOMAIN ar.entries : ar.entries[i].folder = TopLevel

\* An archive that opens was finished, and has all its names in one folder.
IsWhole(ar, o, P) ==
  /\ ~ar.touched => \A i, j \in DOMAIN ar.entries :
                      ar.entries[i].folder = ar.entries[j].folder
  /\ ar.closed /\ ~ar.touched =>
       /\ P[ar.by].pc = "packed" /\ P[ar.by].out = o
       /\ Named(ar.entries) = P[ar.by].names

\* A token in an archive was issued.
HasIssued(q, I) ==
  \A i \in DOMAIN q :
    q[i].name = TokenName /\ q[i].data \notin Sentinel \cup {Broken} =>
      ParseResponse(q[i].data) \in I

Busy(run) == run.pc \in {"listed", "packing"}

ArchivesInv ==
  /\ \A s \in Sealer : Packs(pack[s], s, archive)
  /\ \A s, p \in Sealer :
       s # p /\ Busy(pack[s]) /\ Busy(pack[p]) => pack[s].out # pack[p].out
  /\ \A o \in Output : archive[o] # NoFile =>
       /\ IsWhole(archive[o], o, pack)
       /\ HasIssued(archive[o].entries, issued)

\* What changes when a run makes another step and its own archive changes.
LEMMA OneRunPacks ==
  ASSUME ArchivesInv, ArchiveType, NEW s \in Sealer, NEW run, NEW A,
         pack' = [pack EXCEPT ![s] = run], archive' = A,
         issued \subseteq issued',
         Packs(run, s, A),
         Busy(run) => \A p \in Sealer \ {s} : Busy(pack[p]) => pack[p].out # run.out,
         \A o \in Output : A[o] # archive[o] => Busy(pack[s]) /\ o = pack[s].out,
         pack[s].pc # "packed",
         \A o \in Output : A[o] # NoFile /\ A[o] # archive[o] =>
           IsWhole(A[o], o, pack') /\ HasIssued(A[o].entries, issued)
  PROVE  ArchivesInv'
<1>1. /\ pack'[s] = run
      /\ \A p \in Sealer \ {s} : pack'[p] = pack[p]
  BY DEF ArchiveType
<1>2. \A p \in Sealer : Packs(pack'[p], p, archive')
  <2>1. ASSUME NEW p \in Sealer \ {s}
        PROVE  Packs(pack[p], p, A)
    <3>1. CASE pack[p].pc = "packing"
      <4>1. pack[p].out \in Output
        BY <3>1, PackHasType
      <4>2. A[pack[p].out] = archive[pack[p].out]
        BY <3>1, <4>1 DEF ArchivesInv, Busy
      <4> QED  BY <3>1, <4>2 DEF ArchivesInv, Packs
    <3>2. CASE pack[p].pc # "packing"
      BY <3>2 DEF ArchivesInv, Packs
    <3> QED  BY <3>1, <3>2
  <2> QED  BY <1>1, <2>1
<1>3. \A q, p \in Sealer :
        q # p /\ Busy(pack'[q]) /\ Busy(pack'[p]) => pack'[q].out # pack'[p].out
  BY <1>1 DEF ArchivesInv
<1>4. ASSUME NEW o \in Output, A[o] # NoFile
      PROVE  IsWhole(A[o], o, pack') /\ HasIssued(A[o].entries, issued')
  <2>1. CASE A[o] = archive[o]
    <3>1. /\ IsWhole(archive[o], o, pack) /\ HasIssued(archive[o].entries, issued)
          /\ archive[o].by \in Sealer
      BY <1>4, <2>1, ArchiveHasType DEF ArchivesInv
    <3>2. archive[o].closed /\ ~archive[o].touched => archive[o].by # s
      BY <3>1 DEF IsWhole
    <3>3. IsWhole(archive[o], o, pack')
      BY <1>1, <3>1, <3>2 DEF IsWhole
    <3> QED  BY <2>1, <3>1, <3>3 DEF HasIssued
  <2>2. CASE A[o] # archive[o]
    BY <1>4, <2>2 DEF HasIssued
  <2> QED  BY <2>1, <2>2
<1> QED  BY <1>2, <1>3, <1>4 DEF ArchivesInv

\* The same for a run that writes to its archive.
LEMMA OneArchiveChanges ==
  ASSUME ArchivesInv, ArchiveType, NEW s \in Sealer, Busy(pack[s]),
         NEW run \in PackState, NEW ar \in ArchiveFile,
         run.out = pack[s].out,
         pack' = [pack EXCEPT ![s] = run],
         archive' = [archive EXCEPT ![pack[s].out] = ar],
         altered' = altered, issued' = issued,
         ar.by = s,
         Packs(run, s, archive'),
         IsWhole(ar, pack[s].out, pack'),
         HasIssued(ar.entries, issued)
  PROVE  ArchiveType' /\ ArchivesInv'
<1> DEFINE out == pack[s].out
           A == [archive EXCEPT ![out] = ar]
<1>1. out \in Output /\ pack[s].pc # "packed"
  BY PackHasType DEF Busy
<1>2. A[out] = ar /\ \A o \in Output \ {out} : A[o] = archive[o]
  BY <1>1 DEF ArchiveType
<1>3. ArchiveType'
  BY <1>1 DEF ArchiveType
<1>4. \A p \in Sealer \ {s} : Busy(pack[p]) => pack[p].out # run.out
  BY DEF ArchivesInv
<1>5. /\ \A o \in Output : A[o] # archive[o] => Busy(pack[s]) /\ o = pack[s].out
      /\ \A o \in Output : A[o] # NoFile /\ A[o] # archive[o] =>
           IsWhole(A[o], o, pack') /\ HasIssued(A[o].entries, issued)
  BY <1>1, <1>2
<1>6. archive' = A /\ issued \subseteq issued' /\ Packs(run, s, A)
  OBVIOUS
<1> HIDE DEF A, out
<1>7. ArchivesInv'
  BY <1>1, <1>4, <1>5, <1>6, OneRunPacks
<1> QED  BY <1>3, <1>7

LEMMA PackStepInv ==
  ASSUME TypeOK, Provenance, ArchiveType, ArchivesInv,
         NEW s \in Sealer, PackStep(s), issued' = issued
  PROVE  ArchiveType' /\ ArchivesInv'
<1>1. ASSUME NEW o \in Output, PackList(s, o)
      PROVE  ArchiveType' /\ ArchivesInv'
  <2> DEFINE run == [pc |-> "listed", out |-> o, names |-> Listed, todo |-> Listed]
  <2>1. /\ pack[s].pc = "idle" /\ Unused(o)
        /\ pack' = [pack EXCEPT ![s] = run]
        /\ archive' = archive /\ altered' = altered
    BY <1>1 DEF PackList
  <2>2. run \in PackState
    BY DEF PackState, Listed
  <2>3. Packs(run, s, archive)
    BY DEF Packs
  <2>4. \A p \in Sealer \ {s} : Busy(pack[p]) => pack[p].out # run.out
    BY <2>1 DEF Unused, Busy
  <2> HIDE DEF run
  <2>5. ArchivesInv'
    BY <2>1, <2>3, <2>4, OneRunPacks
  <2> QED  BY <2>1, <2>2, <2>5 DEF ArchiveType
<1>2. ASSUME PackNothing(s) \/ PackAbort(s) \/ \E n \in Name : PackVanished(s, n)
      PROVE  ArchiveType' /\ ArchivesInv'
  <2>1. /\ pack' = [pack EXCEPT ![s] = PackFailed] /\ pack[s].pc # "packed"
        /\ archive' = archive /\ altered' = altered
    BY <1>2 DEF PackNothing, PackAbort, PackVanished, PackFails
  <2>2. PackFailed \in PackState /\ ~Busy(PackFailed) /\ Packs(PackFailed, s, archive)
    BY DEF PackState, PackFailed, Busy, Packs
  <2>3. ArchivesInv'
    BY <2>1, <2>2, OneRunPacks
  <2> QED  BY <2>1, <2>2, <2>3 DEF ArchiveType
<1>3. CASE PackCreate(s)
  <2> DEFINE out == pack[s].out
             run == [pc |-> "packing", out |-> out, names |-> pack[s].names,
                     todo |-> pack[s].todo]
             ar == [entries |-> <<>>, closed |-> FALSE, by |-> s, touched |-> FALSE]
             A == [archive EXCEPT ![out] = ar]
  <2>1. /\ pack[s].pc = "listed" /\ pack[s].names # {}
        /\ archive' = A /\ altered' = altered
        /\ pack' = [pack EXCEPT ![s].pc = "packing"]
    BY <1>3 DEF PackCreate, Created
  <2>2. /\ out \in Output /\ pack[s].names \subseteq Name /\ pack[s].todo \subseteq Name
        /\ pack[s] = [pc |-> "listed", out |-> pack[s].out,
                      names |-> pack[s].names, todo |-> pack[s].todo]
    BY <2>1, PackHasType
  <2>3. pack' = [pack EXCEPT ![s] = run]
    BY <2>1, RunGoesOn
  <2>4. run \in PackState
    BY <2>1, <2>2 DEF PackState
  <2>5. ar \in ArchiveFile
    BY DEF ArchiveFile
  <2>6. A[out] = ar /\ \A o \in Output \ {out} : A[o] = archive[o]
    BY <2>2 DEF ArchiveType
  <2>7. pack[s].todo = pack[s].names
    BY <2>1 DEF ArchivesInv, Packs
  <2>8. Packs(run, s, A)
    <3>1. Named(<<>>) = {}
      BY DEF Named
    <3>2. A[run.out] = ar /\ ar # NoFile
      BY <2>5, <2>6, NoFileAssumption
    <3>3. pack[s].names \ pack[s].todo = {}
      BY <2>7
    <3>4. ar.entries = <<>> /\ ~ar.closed /\ ~ar.touched /\ ar.by = s
      OBVIOUS
    <3>5. DOMAIN <<>> = {}
      OBVIOUS
    <3> HIDE DEF A, ar
    <3> QED  BY <2>7, <3>1, <3>2, <3>3, <3>4, <3>5 DEF Packs
  <2>9. IsWhole(ar, out, pack') /\ HasIssued(ar.entries, issued)
    BY DEF IsWhole, HasIssued
  <2>10. Busy(pack[s]) /\ run.out = out /\ ar.by = s
    BY <2>1 DEF Busy
  <2> HIDE DEF run, ar
  <2> QED  BY <2>1, <2>3, <2>4, <2>5, <2>8, <2>9, <2>10, OneArchiveChanges
<1>4. ASSUME NEW n \in Name, PackFile(s, n)
      PROVE  ArchiveType' /\ ArchivesInv'
  <2> DEFINE out == pack[s].out
             run == [pc |-> "packing", out |-> out, names |-> pack[s].names,
                     todo |-> pack[s].todo \ {n}]
             e == [name |-> n, folder |-> TopLevel, data |-> OnDisk(n)]
             q == archive[out].entries
             ar == [archive[out] EXCEPT !.entries = Append(q, e)]
             A == [archive EXCEPT ![out] = ar]
  <2>1. /\ pack[s].pc = "packing" /\ n \in pack[s].todo /\ OnDisk(n) # NoFile
        /\ archive' = [archive EXCEPT ![out].entries = Append(@, e)]
        /\ altered' = altered
        /\ pack' = [pack EXCEPT ![s].todo = @ \ {n}]
    BY <1>4 DEF PackFile, Packed, NextOf
  <2>2. /\ out \in Output /\ pack[s].names \subseteq Name /\ pack[s].todo \subseteq Name
        /\ pack[s].names # {}
    BY <2>1, PackHasType
  <2>3. /\ archive[out] # NoFile /\ archive[out].by = s
        /\ ~archive[out].closed /\ ~archive[out].touched
        /\ pack[s].todo \subseteq pack[s].names
        /\ Named(q) = pack[s].names \ pack[s].todo
        /\ \A i \in DOMAIN q : q[i].folder = TopLevel
    BY <2>1 DEF ArchivesInv, Packs
  <2>4. pack' = [pack EXCEPT ![s] = run] /\ run \in PackState
    <3>1. run \in PackState
      BY <2>1, <2>2 DEF PackState
    <3> QED  BY <2>1, <3>1, RunGoesOn
  <2>5. e \in ZipEntry /\ q \in Seq(ZipEntry)
    BY <2>1, <2>2, <2>3, OnDiskIsData, ArchiveHasType DEF ZipEntry
  <2>6. /\ ar.closed = archive[out].closed /\ ar.touched = archive[out].touched
        /\ ar.by = s /\ ar.entries = Append(q, e) /\ ar \in ArchiveFile
    <3>1. archive[out] \in ArchiveFile
      BY <2>2, <2>3 DEF ArchiveType
    <3>2. Append(q, e) \in Seq(ZipEntry)
      BY <2>5, Appended
    <3> QED  BY <2>3, <3>1, <3>2 DEF ArchiveFile
  <2>7. archive' = A /\ A[out] = ar
    BY <2>1, <2>2 DEF ArchiveType
  <2>8. /\ \A i \in DOMAIN Append(q, e) :
             \/ i \in DOMAIN q /\ Append(q, e)[i] = q[i]
             \/ Append(q, e)[i] = e
        /\ Named(Append(q, e)) = Named(q) \cup {n}
    <3> HIDE DEF q
    <3>1. e.name = n
      OBVIOUS
    <3> HIDE DEF e
    <3> QED  BY <2>5, <3>1, Appended DEF Named
  <2>9. \A i \in DOMAIN Append(q, e) : Append(q, e)[i].folder = TopLevel
    BY <2>3, <2>8
  <2>10. HasIssued(Append(q, e), issued)
    <3>1. HasIssued(q, issued)
      BY <2>2, <2>3 DEF ArchivesInv
    <3>2. n = TokenName => OnDisk(n) = token
      BY NameAssumption DEF OnDisk
    <3>3. e.name = TokenName /\ e.data \notin Sentinel \cup {Broken} =>
            ParseResponse(e.data) \in issued
      BY <3>2 DEF Provenance
    <3> HIDE DEF e, q
    <3> QED  BY <2>8, <3>1, <3>3 DEF HasIssued
  <2> HIDE DEF e, q, ar, A
  <2>11. Packs(run, s, A)
    <3>1. \A S, T, m : T \subseteq S /\ m \in T => (S \ T) \cup {m} = S \ (T \ {m})
      OBVIOUS
    <3>2. Named(ar.entries) = pack[s].names \ (pack[s].todo \ {n})
      BY <2>1, <2>3, <2>6, <2>8, <3>1, Zenon
    <3>3. \A i \in DOMAIN ar.entries : ar.entries[i].folder = TopLevel
      BY <2>6, <2>9, Zenon
    <3>4. A[run.out] = ar /\ ar # NoFile /\ ar.by = s /\ ~ar.closed /\ ~ar.touched
      BY <2>3, <2>6, <2>7, NoFileAssumption
    <3>5. pack[s].todo \ {n} \subseteq pack[s].names
      BY <2>3
    <3> QED  BY <3>2, <3>3, <3>4, <3>5 DEF Packs
  <2>12. IsWhole(ar, out, pack')
    <3>1. \A i \in DOMAIN ar.entries : ar.entries[i].folder = TopLevel
      BY <2>6, <2>9, Zenon
    <3>2. ~ar.closed
      BY <2>3, <2>6
    <3> QED  BY <3>1, <3>2 DEF IsWhole
  <2>13. HasIssued(ar.entries, issued)
    BY <2>6, <2>10, Zenon
  <2>14. Busy(pack[s]) /\ run.out = out
    BY <2>1 DEF Busy
  <2>15. archive' = [archive EXCEPT ![out] = ar] /\ Packs(run, s, archive')
    BY <2>7, <2>11 DEF A
  <2> HIDE DEF run
  <2> QED  BY <2>1, <2>4, <2>6, <2>12, <2>13, <2>14, <2>15, OneArchiveChanges
<1>5. CASE PackClose(s)
  <2> DEFINE out == pack[s].out
             run == [pc |-> "packed", out |-> out, names |-> pack[s].names,
                     todo |-> pack[s].todo]
             ar == [archive[out] EXCEPT !.closed = TRUE]
             A == [archive EXCEPT ![out] = ar]
  <2>1. /\ pack[s].pc = "packing" /\ pack[s].todo = {}
        /\ archive' = [archive EXCEPT ![out].closed = TRUE] /\ altered' = altered
        /\ pack' = [pack EXCEPT ![s].pc = "packed"]
    BY <1>5 DEF PackClose
  <2>2. /\ out \in Output /\ pack[s].names \subseteq Name /\ pack[s].todo \subseteq Name
        /\ pack[s].names # {}
        /\ pack[s] = [pc |-> "packing", out |-> pack[s].out,
                      names |-> pack[s].names, todo |-> pack[s].todo]
    BY <2>1, PackHasType
  <2>3. /\ archive[out] # NoFile /\ archive[out].by = s
        /\ Named(archive[out].entries) = pack[s].names
        /\ \A i \in DOMAIN archive[out].entries :
             archive[out].entries[i].folder = TopLevel
    <3>1. /\ archive[out] # NoFile /\ archive[out].by = s
          /\ Named(archive[out].entries) = pack[s].names \ pack[s].todo
          /\ \A i \in DOMAIN archive[out].entries :
               archive[out].entries[i].folder = TopLevel
      BY <2>1 DEF ArchivesInv, Packs
    <3>2. pack[s].names \ pack[s].todo = pack[s].names
      BY <2>1
    <3> QED  BY <3>1, <3>2
  <2>4. pack' = [pack EXCEPT ![s] = run] /\ run \in PackState
    <3>1. run \in PackState
      BY <2>1, <2>2 DEF PackState
    <3> QED  BY <2>1, <3>1, RunGoesOn
  <2>5. /\ ar \in ArchiveFile /\ ar.by = s /\ ar.entries = archive[out].entries
    <3>1. archive[out] \in ArchiveFile
      BY <2>2, <2>3 DEF ArchiveType
    <3> QED  BY <2>3, <3>1 DEF ArchiveFile
  <2>6. archive' = A /\ A[out] = ar /\ \A o \in Output \ {out} : A[o] = archive[o]
    BY <2>1, <2>2 DEF ArchiveType
  <2>7. pack'[s] = run
    BY <2>4 DEF ArchiveType
  <2>8. IsWhole(ar, out, pack')
    BY <2>3, <2>5, <2>7 DEF IsWhole
  <2>9. HasIssued(ar.entries, issued)
    BY <2>2, <2>3, <2>5 DEF ArchivesInv
  <2>10. Packs(run, s, A) /\ run.out = out /\ Busy(pack[s])
    BY <2>1 DEF Packs, Busy
  <2>11. archive' = [archive EXCEPT ![out] = ar] /\ Packs(run, s, archive')
    BY <2>6, <2>10
  <2> HIDE DEF A, run, ar
  <2> QED  BY <2>1, <2>4, <2>5, <2>8, <2>9, <2>10, <2>11, OneArchiveChanges
<1> QED  BY <1>1, <1>2, <1>3, <1>4, <1>5 DEF PackStep

\* Somebody changes a finished archive: no run is packing it.
LEMMA AlterInv ==
  ASSUME ArchiveType, ArchivesInv, NEW o \in Output, NEW x \in ArchiveFile,
         Alter(o, x), x.by = archive[o].by, issued' = issued,
         IsWhole(x, o, pack), HasIssued(x.entries, issued)
  PROVE  ArchiveType' /\ ArchivesInv'
<1>1. /\ archive[o] # NoFile /\ archive[o].closed
      /\ archive' = [archive EXCEPT ![o] = x]
      /\ altered' = altered + 1 /\ pack' = pack
  BY DEF Alter
<1>2. archive'[o] = x /\ \A p \in Output \ {o} : archive'[p] = archive[p]
  BY <1>1 DEF ArchiveType
<1>3. ASSUME NEW s \in Sealer
      PROVE  Packs(pack[s], s, archive')
  <2>1. CASE pack[s].pc = "packing"
    <3>1. pack[s].out \in Output /\ ~archive[pack[s].out].closed
      BY <2>1, PackHasType DEF ArchivesInv, Packs
    <3>2. archive'[pack[s].out] = archive[pack[s].out]
      BY <1>1, <1>2, <3>1
    <3> QED  BY <2>1, <3>2 DEF ArchivesInv, Packs
  <2>2. CASE pack[s].pc # "packing"
    BY <2>2 DEF ArchivesInv, Packs
  <2> QED  BY <2>1, <2>2
<1>4. ArchivesInv'
  BY <1>1, <1>2, <1>3 DEF ArchivesInv
<1> QED  BY <1>1, <1>4 DEF ArchiveType

\* An entry in another folder, or with other bytes, is an entry.
LEMMA EntryChanged ==
  ASSUME NEW q \in Seq(ZipEntry), NEW i \in DOMAIN q
  PROVE  /\ \A f \in Folder \cup {TopLevel} : [q[i] EXCEPT !.folder = f] \in ZipEntry
         /\ \A d \in Data : [q[i] EXCEPT !.data = d] \in ZipEntry
<1> DEFINE z == q[i]
<1>1. z \in ZipEntry
  OBVIOUS
<1> HIDE DEF z
<1>2. /\ \A f \in Folder \cup {TopLevel} : [z EXCEPT !.folder = f] \in ZipEntry
      /\ \A d \in Data : [z EXCEPT !.data = d] \in ZipEntry
  BY <1>1 DEF ZipEntry
<1> QED  BY <1>2 DEF z

LEMMA RefoldInv ==
  ASSUME ArchiveType, ArchivesInv, NEW o \in Output, archive[o] # NoFile,
         Refold(o), issued' = issued
  PROVE  ArchiveType' /\ ArchivesInv'
<1> DEFINE ar == archive[o]
           q == ar.entries
<1>1. PICK f \in [DOMAIN q -> Folder \cup {TopLevel}] :
        Alter(o, [ar EXCEPT
          !.entries = [i \in DOMAIN @ |-> [@[i] EXCEPT !.folder = f[i]]],
          !.touched = @ \/ \E i, j \in DOMAIN f : f[i] # f[j]])
  BY DEF Refold
<1> DEFINE r == [i \in DOMAIN q |-> [q[i] EXCEPT !.folder = f[i]]]
           mixed == \E i, j \in DOMAIN f : f[i] # f[j]
           x == [ar EXCEPT !.entries = r, !.touched = ar.touched \/ mixed]
<1>2. ar \in ArchiveFile /\ q \in Seq(ZipEntry) /\ ar.touched \in BOOLEAN
  BY ArchiveHasType DEF ArchiveType
<1>3. Alter(o, x)
  BY <1>1
<1>4. r \in Seq(ZipEntry) /\ DOMAIN r = DOMAIN q
  <2>1. \A i \in DOMAIN q : [q[i] EXCEPT !.folder = f[i]] \in ZipEntry
    BY <1>2, EntryChanged
  <2>2. DOMAIN q = 1..Len(q) /\ Len(q) \in Nat
    BY <1>2
  <2> QED  BY <2>1, <2>2
<1>5. \A i \in DOMAIN q : /\ r[i].name = q[i].name /\ r[i].data = q[i].data
                          /\ r[i].folder = f[i]
  BY <1>2 DEF ZipEntry
<1>6. Named(r) = Named(q)
  BY <1>4, <1>5 DEF Named
<1>7. mixed \in BOOLEAN /\ (ar.touched \/ mixed) \in BOOLEAN
  OBVIOUS
<1>8. /\ x.entries = r /\ x.closed = ar.closed /\ x.by = ar.by
      /\ x.touched = (ar.touched \/ mixed) /\ x \in ArchiveFile
  <2> HIDE DEF r, mixed
  <2> QED  BY <1>2, <1>4, <1>7 DEF ArchiveFile
<1>9. IsWhole(ar, o, pack) /\ HasIssued(q, issued)
  BY DEF ArchivesInv
<1>10. HasIssued(r, issued)
  BY <1>4, <1>5, <1>9 DEF HasIssued
<1>11. ~x.touched => \A i, j \in DOMAIN r : r[i].folder = r[j].folder
  <2>1. ~mixed => \A i, j \in DOMAIN q : f[i] = f[j]
    OBVIOUS
  <2>2. ~x.touched => ~mixed
    BY <1>8, Zenon
  <2> HIDE DEF x, r, mixed
  <2> QED  BY <1>4, <1>5, <2>1, <2>2
<1>12. ~x.touched => ~ar.touched
  BY <1>8
<1> HIDE DEF x, r, mixed
<1>13. IsWhole(x, o, pack)
  BY <1>6, <1>8, <1>9, <1>11, <1>12 DEF IsWhole
<1> QED  BY <1>3, <1>8, <1>10, <1>13, AlterInv

LEMMA DamageInv ==
  ASSUME StampType, ArchiveType, ArchivesInv, NEW o \in Output, archive[o] # NoFile,
         DamageArchive(o) \/ ReplacePackedToken(o), issued' = issued
  PROVE  ArchiveType' /\ ArchivesInv'
<1> DEFINE ar == archive[o]
           q == ar.entries
<1>1. /\ ar \in ArchiveFile /\ q \in Seq(ZipEntry)
      /\ HasIssued(q, issued)
  BY ArchiveHasType DEF ArchiveType, ArchivesInv
<1>2. CASE Alter(o, [ar EXCEPT !.closed = FALSE, !.touched = TRUE])
  <2> DEFINE x == [ar EXCEPT !.closed = FALSE, !.touched = TRUE]
  <2>1. x \in ArchiveFile /\ x.by = ar.by /\ x.entries = q /\ x.touched
    BY <1>1 DEF ArchiveFile
  <2> HIDE DEF x
  <2>2. IsWhole(x, o, pack)
    BY <2>1 DEF IsWhole
  <2>3. Alter(o, x)
    BY <1>2 DEF x
  <2> QED  BY <1>1, <2>1, <2>2, <2>3, AlterInv
<1>3. ASSUME NEW i \in DOMAIN q, NEW d \in Data, Overwrite(o, i, d),
             d = Broken \/ \E t \in issued : d = Whole(t)
      PROVE  ArchiveType' /\ ArchivesInv'
  <2> DEFINE r == [q EXCEPT ![i].data = d]
             x == [ar EXCEPT !.entries = r, !.touched = TRUE]
  <2>1. [ar EXCEPT !.entries[i].data = d, !.touched = TRUE] = x
    OBVIOUS
  <2>2. /\ DOMAIN r = DOMAIN q
        /\ \A j \in DOMAIN q : r[j] = q[j] \/ r[j].data = d
    BY <1>1 DEF ZipEntry
  <2>3. r \in Seq(ZipEntry)
    <3>1. [q[i] EXCEPT !.data = d] \in ZipEntry
      BY <1>1, EntryChanged
    <3> QED  BY <1>1, <3>1
  <2>4. HasIssued(r, issued)
    <3>1. d = Broken \/ ParseResponse(d) \in issued
      BY <1>3 DEF Whole, ParseResponse
    <3> HIDE DEF r
    <3> QED  BY <1>1, <2>2, <3>1 DEF HasIssued
  <2>5. x \in ArchiveFile /\ x.by = ar.by /\ x.entries = r /\ x.touched
    <3> HIDE DEF r
    <3> QED  BY <1>1, <2>3 DEF ArchiveFile
  <2>6. Alter(o, x)
    BY <1>3, <2>1 DEF Overwrite
  <2> HIDE DEF x, r
  <2>7. IsWhole(x, o, pack)
    BY <2>5 DEF IsWhole
  <2> QED  BY <2>4, <2>5, <2>6, <2>7, AlterInv
<1>4. Broken \in Data
  BY NameAssumption, EvidenceAssumption DEF Data, ManifestFile, Sentinel
<1>5. ASSUME NEW t \in issued PROVE Whole(t) \in Data
  <2>1. t \in Token
    BY DEF StampType
  <2>2. Whole(t) \in [data : Token, rest : Seq(Token \cup {Junk})]
    BY <2>1 DEF Whole
  <2> QED  BY <2>2, TokenSentinelAssumption DEF Data, TokenFile, Sentinel
<1> QED  BY <1>2, <1>3, <1>4, <1>5 DEF DamageArchive, ReplacePackedToken

-----------------------------------------------------------------------------
\* The invariants of Pev and of the archives, together.
Invs ==
  /\ TypeOK /\ SealInv /\ StampInv /\ EvidenceInv
  /\ ArchiveType /\ ArchivesInv

\* The invariants of Pev, and no token gets lost.
LEMMA PevInvsStep ==
  ASSUME Invs, [ArchivesNext]_archiveVars
  PROVE  TypeOK' /\ SealInv' /\ StampInv' /\ EvidenceInv' /\ issued \subseteq issued'
<1>1. CASE [Next]_vars
  <2>1. TypeOK' /\ issued \subseteq issued'
    BY <1>1, EnvironmentType, SealingType, StampingType, AuthorityType,
       VerifyingType, StutterType, Monotone DEF Next, Invs
  <2> QED  BY <1>1, <2>1, SealInvPreserved, StampInvPreserved, EvidenceInvPreserved
           DEF Invs
<1>2. ASSUME NEW a \in Output \cap Path, NEW c \in Content, Appears(a, c),
             UNCHANGED <<seal, stamping, check>>
      PROVE  TypeOK' /\ SealInv' /\ StampInv' /\ EvidenceInv' /\ issued' = issued
  BY <1>2, AppearsKeeps DEF Invs, stamping
<1> QED  BY <1>1, <1>2, ArchivesStepIsPevStep DEF Invs

LEMMA ArchivesStep ==
  ASSUME Invs, [ArchivesNext]_archiveVars
  PROVE  Invs'
<1>1. issued \subseteq issued'
  BY PevInvsStep
<1>2. CASE UNCHANGED archiving
  <2>1. archive' = archive /\ pack' = pack /\ altered' = altered
    BY <1>2 DEF archiving
  <2>2. ArchiveType'
    BY <2>1 DEF Invs, ArchiveType
  <2>3. ASSUME NEW o \in Output, archive[o] # NoFile
        PROVE  HasIssued(archive[o].entries, issued')
    BY <1>1, <2>3 DEF Invs, ArchivesInv, HasIssued
  <2>4. ArchivesInv'
    BY <2>1, <2>3 DEF Invs, ArchivesInv
  <2> QED  BY <2>2, <2>4, PevInvsStep DEF Invs
<1>3. ASSUME NEW s \in Sealer, PackStep(s), UNCHANGED stamping
      PROVE  ArchiveType' /\ ArchivesInv'
  BY <1>3, PackStepInv DEF Invs, EvidenceInv, stamping
<1>4. ASSUME NEW o \in Output, archive[o] # NoFile, ChangeArchive(o),
             UNCHANGED stamping
      PROVE  ArchiveType' /\ ArchivesInv'
  BY <1>4, RefoldInv, DamageInv DEF Invs, TypeOK, ChangeArchive, stamping
<1> QED  BY <1>2, <1>3, <1>4, PevInvsStep DEF ArchivesNext, archiveVars, Invs

LEMMA InvsHold == ArchivesSpec => []Invs
<1>1. ArchivesInit => Invs
  <2>1. ArchiveInit => ArchiveType /\ ArchivesInv
    BY DEF ArchiveInit, ArchiveType, ArchivesInv, PackState, PackIdle, Packs, Busy
  <2> QED  BY <2>1, InitType, SealInvInit, StampInvInit, EvidenceInvInit
           DEF ArchivesInit, Invs
<1> QED  BY <1>1, ArchivesStep, PTL DEF ArchivesSpec

\* With all outputs outside, every step is one of Pev, or leaves it alone.
LEMMA OutsideStep ==
  ASSUME Output \cap Path = {}
  PROVE  Invs /\ [ArchivesNext]_archiveVars => [Next]_vars
BY ArchivesStepIsPevStep DEF Invs

(***************************************************************************)
(* With an output outside of the directory, packing changes nothing that   *)
(* the other commands see: the program with archives implements Pev, so    *)
(* that all that is proved of Pev holds of it (Pack).                      *)
(***************************************************************************)
THEOREM ArchivesImplementPev ==
  ASSUME Output \cap Path = {}
  PROVE  ArchivesSpec => Spec
<1>1. ArchivesInit => Init
  BY DEF ArchivesInit
<1> QED  BY <1>1, InvsHold, OutsideStep, PTL DEF ArchivesSpec, Spec

\* Archives and packers keep their type (Pack; ArchiveType).
THEOREM ArchiveTypeCorrect == ArchivesSpec => []ArchiveType
<1>1. Invs => ArchiveType
  BY DEF Invs
<1> QED  BY <1>1, InvsHold, PTL

\* The opened bundle has all the entries when they share one folder, or none.
LEMMA RootedIsAll ==
  ASSUME NEW ar, \A i, j \in DOMAIN ar.entries :
                   ar.entries[i].folder = ar.entries[j].folder,
         ar.entries \in Seq(ZipEntry)
  PROVE  Rooted(ar) = Range(ar.entries)
<1> DEFINE q == ar.entries
           shared == {f \in Folder : \A i \in DOMAIN q : q[i].folder = f}
<1>1. \A i \in DOMAIN q : q[i].folder \in Folder \cup {TopLevel}
  <2>1. \A i \in DOMAIN q : q[i] \in ZipEntry
    OBVIOUS
  <2> QED  BY <2>1 DEF ZipEntry
<1>2. \A i \in DOMAIN q : q[i].folder = RootOf(q)
  <2>1. CASE shared = {}
    <3>1. RootOf(q) = TopLevel
      BY <2>1 DEF RootOf
    <3>2. ASSUME NEW i \in DOMAIN q
          PROVE  q[i].folder = TopLevel
      BY <1>1, <2>1, <3>2
    <3> QED  BY <3>1, <3>2
  <2>2. CASE shared # {}
    <3>1. RootOf(q) \in shared
      BY <2>2 DEF RootOf
    <3> QED  BY <3>1
  <2> QED  BY <2>1, <2>2
<1> QED  BY <1>2 DEF Rooted, Range

(***************************************************************************)
(* An archive that opens is one that a run finished, with all the files    *)
(* that it listed, whatever else was going on and wherever -zip points     *)
(* (ArchiveIsWhole).                                                       *)
(***************************************************************************)
THEOREM OpenedIsWhole == ArchivesSpec => []ArchiveIsWhole
<1>1. ASSUME Invs
      PROVE  ArchiveIsWhole
  <2> SUFFICES ASSUME NEW o \in Output, AsPacked(o)
               PROVE  LET run == pack[archive[o].by]
                      IN  /\ run.pc = "packed" /\ run.out = o
                          /\ EntryNames(archive[o]) = run.names
    BY DEF ArchiveIsWhole
  <2>1. archive[o] # NoFile /\ archive[o].closed /\ ~archive[o].touched
    BY DEF AsPacked, Opens
  <2>2. IsWhole(archive[o], o, pack)
    BY <1>1, <2>1 DEF Invs, ArchivesInv
  <2>3. archive[o].entries \in Seq(ZipEntry)
    BY <1>1, <2>1, ArchiveHasType DEF Invs
  <2>4. Rooted(archive[o]) = Range(archive[o].entries)
    BY <2>1, <2>2, <2>3, RootedIsAll DEF IsWhole
  <2>5. EntryNames(archive[o]) = Named(archive[o].entries)
    BY <2>4 DEF EntryNames, Named, Range
  <2> QED  BY <2>1, <2>2, <2>5 DEF IsWhole
<1> QED  BY <1>1, InvsHold, PTL

\* What is read of an entry is what some entry of that name holds.
LEMMA ReadIsThere ==
  ASSUME NEW ar, NEW n, ReadEntry(ar, n) # NoFile
  PROVE  \E i \in DOMAIN ar.entries :
           ar.entries[i].name = n /\ ar.entries[i].data = ReadEntry(ar, n)
<1>1. n \in EntryNames(ar)
  BY DEF ReadEntry
<1>2. PICK x \in Rooted(ar) : x.name = n
  BY <1>1 DEF EntryNames
<1> DEFINE e == CHOOSE y \in Rooted(ar) : y.name = n
<1>3. e \in Rooted(ar) /\ e.name = n
  BY <1>2
<1>4. ReadEntry(ar, n) = e.data
  BY <1>1 DEF ReadEntry
<1> HIDE DEF e
<1> QED  BY <1>3, <1>4 DEF Rooted, Range

(***************************************************************************)
(* The promise of the program, for archives: a token that is accepted in   *)
(* one was signed for its manifest, and under -tsa-roots the artefacts     *)
(* accepted in it existed, with these bytes and at these paths, less than  *)
(* a second after its time, whatever became of the archive since it was    *)
(* packed (ArchiveDated).                                                  *)
(***************************************************************************)
THEOREM ArchiveProves == ArchivesSpec => []ArchiveDated
<1>1. ASSUME Invs
      PROVE  ArchiveDated
  <2> SUFFICES ASSUME NEW o \in Output, NEW opts \in VerifyOptions,
                      Opens(archive[o]), Inventoried(archive[o]),
                      TokenAccepted(TokenRead(archive[o]), ManifestRead(archive[o]), opts)
               PROVE  LET ar == archive[o]
                          t == ParseResponse(TokenRead(ar))
                      IN  /\ t \in issued /\ t.imprint = Sha256(ManifestRead(ar))
                          /\ opts.roots =>
                               Dated(AcceptedOf(ar), SecondAfter(t.genTime))
    BY DEF ArchiveDated
  <2> DEFINE ar == archive[o]
             tsr == TokenRead(ar)
             t == ParseResponse(tsr)
             m == ManifestRead(ar)
  <2>1. ar # NoFile
    BY DEF Opens
  <2>2. tsr \notin Sentinel /\ t.imprint = Sha256(m)
    BY DEF TokenAccepted, ResponseParses, TokenVerifies
  <2>3. tsr = ReadEntry(ar, TokenName) /\ tsr # Broken /\ tsr # NoFile
    BY <2>2 DEF TokenRead, Sentinel
  <2>4. t \in issued
    <3>1. PICK i \in DOMAIN ar.entries :
            ar.entries[i].name = TokenName /\ ar.entries[i].data = tsr
      BY <2>3, ReadIsThere
    <3>2. HasIssued(ar.entries, issued)
      BY <1>1, <2>1 DEF Invs, ArchivesInv
    <3> QED  BY <2>2, <2>3, <3>1, <3>2 DEF HasIssued
  <2>5. ASSUME opts.roots
        PROVE  Dated(AcceptedOf(ar), SecondAfter(t.genTime))
    <3>1. t.signer \in Trusted
      BY <2>5 DEF TokenAccepted, TokenVerifies, ChainVerified
    <3>2. FileDated(Bytes(t.imprint), SecondAfter(t.genTime))
      BY <1>1, <2>4, <3>1 DEF Invs, EvidenceInv, Provenance
    <3>3. FileDated(m, SecondAfter(t.genTime))
      BY <2>2, <3>2, BytesOfDigest
    <3>4. Dated(Inventory(ar), SecondAfter(t.genTime))
      BY <3>3 DEF FileDated, Inventoried, Inventory
    <3> QED  BY <3>4 DEF Dated, AcceptedOf
  <2> QED  BY <2>2, <2>4, <2>5
<1> QED  BY <1>1, InvsHold, PTL
=============================================================================
