------------------------------- MODULE Verify -------------------------------
(***************************************************************************)
(* pev verify on a directory: list it, read the manifest, hash the listed  *)
(* artefacts one by one, look for files that are not listed, and check the *)
(* timestamp.  It reads at different instants a directory that others may  *)
(* be writing, and it writes nothing.                                      *)
(***************************************************************************)
EXTENDS Stamp

CONSTANTS
  Verifier,       \* the runs of pev verify
  VerifyOptions   \* the options they are given

VARIABLE check    \* what each of them is doing

ASSUME OptionsAssumption ==
  VerifyOptions \subseteq [requireTimestamp : BOOLEAN, roots : BOOLEAN]

Status == {"pass", "fail", "warn"}

Check ==
  [name : {"manifest", "capture metadata", "artifact", "no unlisted content",
           "trusted timestamp", "timestamp authority"},
   status : Status]

VerifyIdle == [pc |-> "idle"]

VerifyKilled == [pc |-> "killed"]

(***************************************************************************)
(* names: the files listed at the start.  file: the bytes of manifest.json *)
(* read.  accepted: the digest computed for each artefact that passed.     *)
(* stamps: the token accepted, if any (Report.Timestamp).                  *)
(***************************************************************************)
VerifyState ==
  {VerifyIdle, VerifyKilled}
  \cup [pc : {"listed"}, opts : VerifyOptions, names : SUBSET Path]
  \cup [pc : {"artifacts"}, opts : VerifyOptions, names : SUBSET Path,
        file : ManifestFile, todo : SUBSET Path, ok : BOOLEAN,
        checks : Seq(Check), accepted : Listing]
  \cup [pc : {"report"}, opts : VerifyOptions, file : ManifestFile,
        ok : BOOLEAN, checks : Seq(Check), accepted : Listing,
        stamps : SUBSET Token]

VerifyType == check \in [Verifier -> VerifyState]

VerifyInit == check = [v \in Verifier |-> VerifyIdle]

Entry(name, status) == [name |-> name, status |-> status]

\* Entry and Boolean of a check that passes or fails.
Judged(name, ok) == Entry(name, IF ok THEN "pass" ELSE "fail")

Failures(checks) == {i \in DOMAIN checks : checks[i].status = "fail"}

\* bundle.Open, and bundle.List: the names in the directory as it is now.
VerifyStart(v, opts) ==
  /\ check[v].pc = "idle"
  /\ check' = [check EXCEPT ![v] =
       [pc |-> "listed", opts |-> opts, names |-> Present]]
  /\ Begins(v)
  /\ UNCHANGED <<files, manifest, token, clock, seen, stamping>>

\* The manifest is missing, does not parse or is not valid: that is the report.
VerifyNoManifest(v) ==
  /\ check[v].pc = "listed"
  /\ ~ManifestParses(manifest)
  /\ check' = [check EXCEPT ![v] =
       [pc |-> "report", opts |-> check[v].opts, file |-> manifest,
        ok |-> FALSE, checks |-> <<Entry("manifest", "fail")>>,
        accepted |-> NoEntry, stamps |-> {}]]
  /\ UNCHANGED <<workspace, stamping>>

\* The manifest is read and decoded.
VerifyManifest(v) ==
  /\ check[v].pc = "listed"
  /\ ManifestParses(manifest)
  /\ check' = [check EXCEPT ![v] =
       [pc |-> "artifacts", opts |-> check[v].opts, names |-> check[v].names,
        file |-> manifest, todo |-> DOMAIN ParseManifest(manifest).artifacts,
        ok |-> TRUE, accepted |-> NoEntry,
        checks |-> <<Entry("manifest", "pass"),
                     Entry("capture metadata", "pass")>>]]
  /\ UNCHANGED <<workspace, stamping>>

\* Mutant: the digest is not compared.
MatchesAnyBytes(v, a) == files[a] # NoFile

\* The artefact read has the size and the digest that the manifest lists.
Matches(v, a) ==
  /\ files[a] # NoFile
  /\ Sha256(files[a]) = ParseManifest(check[v].file).artifacts[a]

\* checkArtifacts: the next artefact, in whatever order the manifest has them, is
\* read as it is now; missing or altered, it fails and the loop goes on.
VerifyArtifact(v, a) ==
  /\ check[v].pc = "artifacts" /\ a \in check[v].todo
  /\ check' = [check EXCEPT
       ![v].todo = @ \ {a},
       ![v].ok = @ /\ Matches(v, a),
       ![v].checks = Append(@, Judged("artifact", Matches(v, a))),
       ![v].accepted = IF Matches(v, a) THEN WithEntry(@, a, Sha256(files[a]))
                                        ELSE @]
  /\ UNCHANGED <<workspace, stamping>>

\* Mutant: files that are not listed are not looked for.
NoUnlistedSkipped(names, file) == TRUE

\* checkUnlisted, on the names listed at the start.
NoUnlisted(names, file) == names \subseteq DOMAIN ParseManifest(file).artifacts

(***************************************************************************)
(* checkTimestamp, on the bytes of timestamp.tsr and of manifest.json: the *)
(* lines it adds to the report, and the token it accepts, if any.          *)
(***************************************************************************)
TokenAccepted(tsr, file, opts) ==
  /\ ResponseParses(tsr)
  /\ TokenVerifies(ParseResponse(tsr), Sha256(file), {}, opts.roots)

TimestampChecks(tsr, file, opts) ==
  IF tsr = NoFile
  THEN <<Entry("trusted timestamp",
               IF opts.requireTimestamp THEN "fail" ELSE "warn")>>
  ELSE IF TokenAccepted(tsr, file, opts)
  THEN <<Entry("trusted timestamp", "pass"),
         Entry("timestamp authority",
               IF ChainVerified(ParseResponse(tsr), opts.roots)
               THEN "pass" ELSE "warn")>>
  ELSE <<Entry("trusted timestamp", "fail")>>

\* Mutant: the missing timestamp is reported as a failure, and forgotten.
TimestampOKForgetful(tsr, file, opts) ==
  tsr = NoFile \/ TokenAccepted(tsr, file, opts)

\* What checkTimestamp returns.
TimestampOK(tsr, file, opts) ==
  IF tsr = NoFile THEN ~opts.requireTimestamp ELSE TokenAccepted(tsr, file, opts)

\* checkUnlisted and checkTimestamp; timestamp.tsr is read as it is now.
VerifyConclude(v) ==
  /\ check[v].pc = "artifacts" /\ check[v].todo = {}
  /\ LET now == check[v]
         listed == NoUnlisted(now.names, now.file)
     IN  check' = [check EXCEPT ![v] =
           [pc |-> "report", opts |-> now.opts, file |-> now.file,
            ok |-> now.ok /\ listed /\ TimestampOK(token, now.file, now.opts),
            checks |-> Append(now.checks, Judged("no unlisted content", listed))
                         \o TimestampChecks(token, now.file, now.opts),
            accepted |-> now.accepted,
            stamps |->
              IF token # NoFile /\ TokenAccepted(token, now.file, now.opts)
              THEN {ParseResponse(token)} ELSE {}]]
  /\ UNCHANGED <<workspace, stamping>>

\* The run is killed, or the directory cannot be read.
VerifyAbort(v) ==
  /\ check[v].pc \in {"listed", "artifacts"}
  /\ check' = [check EXCEPT ![v] = VerifyKilled]
  /\ UNCHANGED <<workspace, stamping>>

VerifyStep(v) ==
  \/ VerifyNoManifest(v) \/ VerifyManifest(v)
  \/ \E a \in Path : VerifyArtifact(v, a)
  \/ VerifyConclude(v)

-----------------------------------------------------------------------------
(***************************************************************************)
(* What the verdict means, in one look at the directory: the manifest is   *)
(* valid, lists exactly the files there are, with their digests, and the   *)
(* timestamp is acceptable under the options.                              *)
(***************************************************************************)
Intact(opts) ==
  /\ ManifestParses(manifest)
  /\ ParseManifest(manifest).artifacts = Directory
  /\ TimestampOK(token, manifest, opts)

(***************************************************************************)
(* The report of a run that nobody disturbed passes if and only if the     *)
(* bundle is intact (verify.Bundle with its three sub-checks).             *)
(***************************************************************************)
VerdictIsRight ==
  \A v \in Verifier \cap calm : check[v].pc = "report" =>
    (check[v].ok <=> Intact(check[v].opts))

(***************************************************************************)
(* The verdict, which the sub-checks accumulate, and the lines of the      *)
(* report, which they add, never contradict each other, at the end or on   *)
(* the way: no FAIL with nothing failed, no PASS over a failed line        *)
(* (Report.OK, Failures, WriteText).                                       *)
(***************************************************************************)
VerdictIsExplained ==
  \A v \in Verifier : check[v].pc \in {"artifacts", "report"} =>
    (check[v].ok <=> Failures(check[v].checks) = {})

(***************************************************************************)
(* The program's promise, however the directory was written to before and  *)
(* during the check: a timestamp that a report accepts was signed as it    *)
(* stands for the manifest judged, and with -tsa-roots every artefact      *)
(* accepted had exactly these bytes, at this path, less than a second      *)
(* after the time asserted.  Without roots nothing says who signed, and no *)
(* time is promised (docs/bundle-format.md, step 9).  A report that passes *)
(* has accepted every artefact listed.                                     *)
(***************************************************************************)
EvidenceDated ==
  \A v \in Verifier : check[v].pc = "report" =>
    /\ \A t \in check[v].stamps :
         /\ t \in issued /\ t.imprint = Sha256(check[v].file)
         /\ check[v].opts.roots =>
              Dated(check[v].accepted, SecondAfter(t.genTime))
    /\ check[v].ok =>
         check[v].accepted = ParseManifest(check[v].file).artifacts

(***************************************************************************)
(* What the two options of verify add to a report that passes: with        *)
(* -require-timestamp a token was accepted, and with -tsa-roots it was     *)
(* signed under a certificate that chains to those roots.                  *)
(***************************************************************************)
OptionsHonoured ==
  \A v \in Verifier : check[v].pc = "report" /\ check[v].ok =>
    /\ check[v].opts.requireTimestamp => check[v].stamps # {}
    /\ check[v].opts.roots => \A t \in check[v].stamps : t.signer \in Trusted
=============================================================================
