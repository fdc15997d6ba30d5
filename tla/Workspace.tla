------------------------------ MODULE Workspace -----------------------------
(***************************************************************************)
(* The bundle directory that every pev command works on, with no lock, and *)
(* what can change it from outside: the capture worker that fills it, and  *)
(* a hand that edits a file of a finished bundle.                          *)
(***************************************************************************)
EXTENDS Rfc3161

CONSTANTS
  Command,  \* the runs of pev that may be going on at once
  Second,   \* instants to a second: the clock is finer than what is written down
  MaxTime,  \* bound: the clock stops here
  MaxWrites \* bound: writes to the directory by anybody but a run of pev

VARIABLES
  files,     \* the artefacts: bytes by path, NoFile where there is none
  manifest,  \* the bytes of manifest.json
  token,     \* the bytes of timestamp.tsr
  writes,    \* how many there were from outside, against MaxWrites
  clock,     \* the instant, before it is cut for sealed_at and genTime
  seen,      \* history: <<a, c, t>> when a held the bytes c at time t or before
  calm       \* history: runs during which nobody else wrote to the directory

workspace == <<files, manifest, token, writes, clock, seen, calm>>

ASSUME WorkspaceAssumption == MaxTime \in Nat /\ MaxWrites \in Nat

ASSUME SecondAssumption == Second \in Nat \ {0}

WorkspaceType ==
  /\ files \in [Path -> Content \cup {NoFile}]
  /\ manifest \in ManifestFile
  /\ token \in TokenFile
  /\ writes \in Nat
  /\ clock \in Nat
  /\ seen \subseteq Path \X Content \X Nat
  /\ calm \subseteq Command

\* time.Truncate(time.Second): the beginning of the second that t is in.
Truncate(t) == t - (t % Second)

\* The last instant that is less than a second after t.
SecondAfter(t) == t + Second - 1

Present == {a \in Path : files[a] # NoFile}

\* The listing that describes the directory as it is now.
Directory == [a \in Present |-> Sha256(files[a])]

\* The bytes c were at path a by the time t.
Existed(a, c, t) == \E e \in seen : e[1] = a /\ e[2] = c /\ e[3] <= t

\* Every digest of a listing is of bytes that were at that path by the time t.
Dated(artifacts, t) ==
  \A a \in DOMAIN artifacts :
    \E c \in Content : artifacts[a] = Sha256(c) /\ Existed(a, c, t)

WorkspaceInit ==
  /\ files \in [Path -> Content \cup {NoFile}]
  /\ manifest = NoFile
  /\ token = NoFile
  /\ writes = 0
  /\ clock = 0
  /\ seen = {<<a, files[a], 0>> : a \in Present}
  /\ calm = {}

\* A step of the run x that writes: every other run is disturbed.
WrittenBy(x) == calm' = calm \cap {x} /\ UNCHANGED writes

\* A step that writes and is nobody's run: all are disturbed.
WrittenFromOutside ==
  /\ writes < MaxWrites
  /\ writes' = writes + 1
  /\ calm' = {}

\* The run x begins.
Begins(x) == calm' = calm \cup {x} /\ UNCHANGED writes

\* The capture worker creates, rewrites or removes an artefact.
WorkerWrite(a, c) ==
  /\ c # files[a]
  /\ files' = [files EXCEPT ![a] = c]
  /\ seen' = IF c = NoFile \/ Existed(a, c, clock) THEN seen
                                       ELSE seen \cup {<<a, c, clock>>}
  /\ WrittenFromOutside
  /\ UNCHANGED <<manifest, token, clock>>

\* Somebody makes the manifest agree with the artefact as it is now.  (Assumed:
\* who writes a manifest by hand lists what is in the directory.)
EditManifest(a) ==
  /\ ManifestParses(manifest) /\ files[a] # NoFile
  /\ manifest' = Whole([ParseManifest(manifest) EXCEPT
                          !.artifacts = WithEntry(@, a, Sha256(files[a]))])
  /\ manifest' # manifest
  /\ WrittenFromOutside
  /\ UNCHANGED <<files, token, clock, seen>>

\* manifest.json is removed or damaged.
DamageManifest(x) ==
  /\ manifest # x
  /\ manifest' = x
  /\ WrittenFromOutside
  /\ UNCHANGED <<files, token, clock, seen>>

\* The directory is moved away, and an empty one is in its place.
ClearDirectory ==
  /\ Present # {} \/ manifest # NoFile \/ token # NoFile
  /\ files' = [a \in Path |-> NoFile]
  /\ manifest' = NoFile
  /\ token' = NoFile
  /\ WrittenFromOutside
  /\ UNCHANGED <<clock, seen>>

Tick ==
  /\ clock < MaxTime
  /\ clock' = clock + 1
  /\ UNCHANGED <<files, manifest, token, writes, seen, calm>>
=============================================================================
