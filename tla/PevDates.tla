------------------------------ MODULE PevDates ------------------------------
(***************************************************************************)
(* What the whole program is for: Pev implements DatedEvidence.  Vouched   *)
(* for is what the manifests list that authorities under the roots signed  *)
(* for; a reader is told of the artefacts that a finished report accepted, *)
(* under the time of the token that it accepted, if it was given roots.    *)
(***************************************************************************)
EXTENDS Pev

\* What a listing says: which bytes are at which path.
Items(listing) == {<<a, Bytes(listing[a])>> : a \in DOMAIN listing}

\* A token over something that is not a manifest vouches for nothing, and so does
\* one that is not signed under the roots.
Vouching ==
  {t \in issued : t.signer \in Trusted /\ ManifestParses(Bytes(t.imprint))}

VouchedBy(t) == <<Items(ParseManifest(Bytes(t.imprint)).artifacts), t.genTime>>

Vouched == {VouchedBy(t) : t \in Vouching}

\* Without roots a token identifies nobody, and its time is nobody's word.
Told(r) ==
  IF r.pc = "report" /\ r.opts.roots
  THEN {<<Items(r.accepted), t.genTime>> : t \in r.stamps}
  ELSE {}

D == INSTANCE DatedEvidence
       WITH Reader <- Verifier,
            now <- clock, existed <- seen, vouched <- Vouched,
            dated <- [v \in Verifier |-> Told(check[v])]

-----------------------------------------------------------------------------
(***************************************************************************)
(* Every step of a run of seal, stamp or verify, of the authority, of the  *)
(* worker and of a hand in the directory is a step of DatedEvidence or     *)
(* leaves it alone: no step vouches for bytes that are not there yet, and  *)
(* no report tells more than was vouched for, under any other time, or     *)
(* changes its mind (runSeal, runStamp, Bundle, checkTimestamp).           *)
(***************************************************************************)
ImplementsDatedEvidence == D!Spec
=============================================================================
