------------------------------ MODULE MCArchive -----------------------------
(* Small instances of Archive for TLC. *)
EXTENDS MCPev, Archive

CONSTANTS wrap, other      \* folders

\* In lexical order: capture.json, manifest.json, screenshot.png, timestamp.tsr.
ArchivePath == {1, 3}
MCManifestName == 2
MCTokenName == 4

\* Where -zip can point: outside of the directory, or into it.
Outside == {8}
TwoOutside == {8, 9}
Inside == {3}
=============================================================================
