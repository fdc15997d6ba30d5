------------------------------ MODULE Evidence ------------------------------
(***************************************************************************)
(* Package internal/evidence: what a bundle is made of.  Artefact paths,   *)
(* the bytes of the files, the manifest that lists them with their SHA-256 *)
(* digests, and what is left in a file that os.WriteFile is rewriting.     *)
(***************************************************************************)
EXTENDS Naturals, Sequences, Functions

CONSTANTS
  Path,         \* artefact paths, numbered in the lexical order of a walk
  CapturePath,  \* the path of capture.json, an artefact like any other
  Content,      \* the byte strings an artefact can hold
  GoodCapture,  \* those ParseCapture and Capture.Validate accept
  NoFile,       \* no file of that name
  Empty,        \* a file of length zero
  Junk          \* bytes that no parser of the program accepts

Sentinel == {NoFile, Empty, Junk}

(***************************************************************************)
(* SHA-256 is symbolic: a digest is equal to another only if the bytes     *)
(* are.  Every statement about tampering rests on this.                    *)
(***************************************************************************)
Sha256(bytes) == <<"sha256", bytes>>

\* The metadata record that the bytes of a capture file decode to.
ParseCapture(c) == <<"capture", c>>

Capture == {ParseCapture(c) : c \in GoodCapture}

ArtefactDigest == {Sha256(c) : c \in Content}

\* A listing, keyed by path: no path is listed twice.  Its order is left out.
Listing == UNION {[D -> ArtefactDigest] : D \in SUBSET Path}

NoEntry == [a \in {} |-> Empty]

\* What Manifest.Validate accepts: at least one artefact is listed.
Manifest ==
  [sealedAt : Nat, capture : Capture,
   artifacts : {l \in Listing : DOMAIN l # {}}]

(***************************************************************************)
(* A file that holds a value (an encoded manifest, a TimeStampResp) and    *)
(* after it the bytes a longer concurrent write left behind, if any.       *)
(***************************************************************************)
Whole(x) == [data |-> x, rest |-> <<>>]

(***************************************************************************)
(* What a file may hold once the write of os.WriteFile put x at offset 0   *)
(* while it held old.  The program truncates first, so old is Empty unless *)
(* another run wrote in between; then the tail of a longer text survives.  *)
(* A file removed since it was opened stays removed.                       *)
(***************************************************************************)
Overlays(x, old) ==
  CASE old = NoFile -> {NoFile}
    [] old = Empty  -> {Whole(x)}
    [] old = Junk   -> {Whole(x), [data |-> x, rest |-> <<Junk>>]}
    [] OTHER        -> IF old.data = x THEN {old}
                       ELSE {Whole(x)} \cup
                              {[data |-> x, rest |-> <<y>>] :
                                 y \in {old.data} \cup Range(old.rest)}

\* The bytes manifest.json can hold.
ManifestFile ==
  Sentinel \cup [data : Manifest, rest : Seq(Manifest \cup {Junk})]

ManifestDigest == {"sha256"} \X (ManifestFile \ {NoFile})

(***************************************************************************)
(* ParseManifest followed by Manifest.Validate.  The decoder reads the     *)
(* first JSON value of the file and never looks at what follows it.        *)
(***************************************************************************)
ManifestParses(file) == file \notin Sentinel

ParseManifest(file) == file.data

\* A listing with the entry of one path added or replaced.
WithEntry(artifacts, a, digest) ==
  [b \in DOMAIN artifacts \cup {a} |-> IF b = a THEN digest ELSE artifacts[b]]

ASSUME EvidenceAssumption ==
  /\ Path \subseteq Nat
  /\ CapturePath \in Path
  /\ GoodCapture \subseteq Content
  /\ NoFile # Empty /\ NoFile # Junk /\ Empty # Junk
  /\ Sentinel \cap Content = {}

\* No sentinel is the encoding of a value.
ASSUME SentinelAssumption ==
  \A x \in Sentinel : x \notin [data : Manifest, rest : Seq(Manifest \cup {Junk})]
=============================================================================
