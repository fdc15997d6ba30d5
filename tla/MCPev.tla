-------------------------------- MODULE MCPev -------------------------------
(* Small instances of Pev, and of what it implements, for TLC. *)
EXTENDS PevDates

CONSTANTS g, h, x,              \* g and h are usable capture records, x is not
          s1, s2, t1, t2, v1,   \* runs of seal, stamp and verify
          root, stray           \* a certificate under the roots, and one that is not

MCPath == {1, 2}
MCOnePath == {1}
MCCapturePath == 1

\* The records are of one visit.
MCSubjectOf == [c \in GoodCapture |-> 0]

MCCommand == Sealer \cup Stamper \cup Verifier

\* The certificate under the roots is valid throughout; the other expires at 0.
MCNotBefore == [c \in Signer |-> 0]
MCNotAfter == [c \in Signer |-> IF c = root THEN MaxTime ELSE 0]

AllOptions == [requireTimestamp : BOOLEAN, roots : BOOLEAN]
StrictOptions == {[requireTimestamp |-> TRUE, roots |-> TRUE]}
RootsGiven == {[requireTimestamp |-> FALSE, roots |-> TRUE]}
=============================================================================
