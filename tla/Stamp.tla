------------------------------- MODULE Stamp --------------------------------
(***************************************************************************)
(* pev stamp: hash manifest.json, send the digest with a fresh nonce to a  *)
(* timestamping authority, check the answer against the request, and write *)
(* the answer to timestamp.tsr.  The authority, and the network in between *)
(* that can lose an answer, delay it, damage it or deliver an old one, are *)
(* the environment.                                                        *)
(***************************************************************************)
EXTENDS Workspace, FiniteSets

CONSTANTS
  Stamper,       \* the runs of pev stamp
  DefaultTSA,    \* the authority asked when none is named
  FallbackTSA,   \* the other authority that the client declares
  MaxNonce,      \* bound: requests sent
  MaxIssued      \* bound: tokens that are signed

VARIABLES
  stamp,      \* what each run is doing
  sent,       \* the requests that left, answered or not
  issued,     \* the tokens that anybody signed
  nextNonce   \* nonces below are used: 64 random bits do not repeat

stamping == <<stamp, sent, issued, nextNonce>>

Request == [digest : ManifestDigest, nonce : Nat]

StampIdle == [pc |-> "idle"]

\* askedAt is history: when the request left.
StampState ==
  {StampIdle}
  \cup [pc : {"ask"}, digest : ManifestDigest, nonce : Nat, askedAt : Nat,
        tried : SUBSET {DefaultTSA, FallbackTSA}]
  \cup [pc : {"write", "stamped"}, digest : ManifestDigest, nonce : Nat,
        askedAt : Nat, token : Token, tried : SUBSET {DefaultTSA, FallbackTSA}]
  \cup [pc : {"failed"}, cause : {"unreachable", "no usable token", "killed"},
        tried : SUBSET {DefaultTSA, FallbackTSA}]

StampType ==
  /\ stamp \in [Stamper -> StampState]
  /\ sent \subseteq Request
  /\ issued \subseteq Token
  /\ nextNonce \in Nat

ASSUME BoundAssumption == MaxNonce \in Nat /\ MaxIssued \in Nat

StampInit ==
  /\ stamp = [s \in Stamper |-> StampIdle]
  /\ sent = {} /\ issued = {}
  /\ nextNonce = 0

StampFails(s, why) ==
  stamp' = [stamp EXCEPT ![s] =
              [pc |-> "failed", cause |-> why, tried |-> stamp[s].tried]]

\* Mutant: every request has the same nonce.
StampAskSameNonce(s) ==
  /\ stamp[s].pc = "idle"
  /\ manifest # NoFile
  /\ Cardinality(sent) < MaxNonce
  /\ LET digest == Sha256(manifest)
     IN  /\ stamp' = [stamp EXCEPT ![s] =
              [pc |-> "ask", digest |-> digest, nonce |-> nextNonce,
               askedAt |-> clock, tried |-> {DefaultTSA}]]
         /\ sent' = sent \cup {[digest |-> digest, nonce |-> nextNonce]}
  /\ Begins(s)
  /\ UNCHANGED <<files, manifest, token, clock, seen, issued, nextNonce>>

\* The manifest is read as it is now, and the request for it is sent.
StampAsk(s) ==
  /\ stamp[s].pc = "idle"
  /\ manifest # NoFile
  /\ nextNonce < MaxNonce
  /\ LET digest == Sha256(manifest)
     IN  /\ stamp' = [stamp EXCEPT ![s] =
              [pc |-> "ask", digest |-> digest, nonce |-> nextNonce,
               askedAt |-> clock, tried |-> {DefaultTSA}]]
         /\ sent' = sent \cup {[digest |-> digest, nonce |-> nextNonce]}
  /\ nextNonce' = nextNonce + 1
  /\ Begins(s)
  /\ UNCHANGED <<files, manifest, token, clock, seen, issued>>

(***************************************************************************)
(* Assumed of an authority under the roots: its clock is right, and its    *)
(* genTime is cut to the second at most.  Others assert any time.          *)
(***************************************************************************)
GenTimes(signer) ==
  IF signer \in Trusted THEN Truncate(clock) .. clock ELSE 0 .. MaxTime

Signed(t) ==
  /\ Cardinality(issued) < MaxIssued
  /\ issued' = issued \cup {t}
  /\ UNCHANGED <<workspace, stamp, sent, nextNonce>>

\* An authority answers a request, in time, too late, or once more, and signs
\* under any certificate it holds, an expired one included.
TsaIssue(r, signer, t) ==
  /\ t \in GenTimes(signer)
  /\ Signed([imprint |-> r.digest, nonce |-> r.nonce, genTime |-> t,
             signer |-> signer, cms |-> TRUE])

\* Without being asked, somebody signs for the manifest under a certificate of
\* their own making, as genfixture does, with the time they like and a nonce that
\* no request has.
SelfStamp(signer, t) ==
  /\ signer \notin Trusted /\ t \in GenTimes(signer) /\ manifest # NoFile
  /\ Signed([imprint |-> Sha256(manifest), nonce |-> MaxNonce, genTime |-> t,
             signer |-> signer, cms |-> TRUE])

\* Tokens that can be in the answer: anything issued, intact or damaged.
Reply == issued \cup {[t EXCEPT !.cms = FALSE] : t \in issued}

\* Mutant: the nonce that was sent is not compared.
AcceptableAnyNonce(s, t) == TokenVerifies(t, stamp[s].digest, {}, FALSE)

\* "Never write a token we have not verified against our own request."
Acceptable(s, t) == TokenVerifies(t, stamp[s].digest, {stamp[s].nonce}, FALSE)

\* What StampStore does once the answer is accepted and the file is opened.
TokenOpened(s, t) ==
  /\ stamp' = [stamp EXCEPT ![s] =
       [pc |-> "write", digest |-> stamp[s].digest, nonce |-> stamp[s].nonce,
        askedAt |-> stamp[s].askedAt, tried |-> stamp[s].tried, token |-> t]]
  /\ WrittenBy(s)
  /\ UNCHANGED <<files, manifest, clock, seen, sent, issued, nextNonce>>

\* Mutant: the file is opened without emptying it.
StampStoreInPlace(s, t) ==
  /\ stamp[s].pc = "ask"
  /\ Acceptable(s, t)
  /\ token' = IF token = NoFile THEN Empty ELSE token
  /\ TokenOpened(s, t)

\* Mutant: the answer is stored without being verified.
StampStoreUnverified(s, t) ==
  /\ stamp[s].pc = "ask"
  /\ token' = Empty
  /\ TokenOpened(s, t)

\* The answer verifies, and os.WriteFile opens timestamp.tsr, emptying it.
StampStore(s, t) ==
  /\ stamp[s].pc = "ask"
  /\ Acceptable(s, t)
  /\ token' = Empty
  /\ TokenOpened(s, t)

\* The answer does not verify: it is not stored.
StampRefuse(s, t) ==
  /\ stamp[s].pc = "ask"
  /\ ~Acceptable(s, t)
  /\ StampFails(s, "no usable token")
  /\ UNCHANGED <<workspace, sent, issued, nextNonce>>

\* The answer holds no token: an HTTP error, a rejection, not a TimeStampResp.
StampDenied(s) ==
  /\ stamp[s].pc = "ask"
  /\ StampFails(s, "no usable token")
  /\ UNCHANGED <<workspace, sent, issued, nextNonce>>

\* Mutant: the timeout only starts once the authority has answered somebody.
StampUnreachableLate(s) ==
  /\ stamp[s].pc = "ask"
  /\ issued # {}
  /\ StampFails(s, "unreachable")
  /\ UNCHANGED <<workspace, sent, issued, nextNonce>>

\* No connection, or no answer before the timeout.
StampUnreachable(s) ==
  /\ stamp[s].pc = "ask"
  /\ StampFails(s, "unreachable")
  /\ UNCHANGED <<workspace, sent, issued, nextNonce>>

\* os.WriteFile puts the answer in.
StampWrite(s) ==
  /\ stamp[s].pc = "write"
  /\ token' \in Overlays(stamp[s].token, token)
  /\ stamp' = [stamp EXCEPT ![s].pc = "stamped"]
  /\ WrittenBy(s)
  /\ UNCHANGED <<files, manifest, clock, seen, sent, issued, nextNonce>>

\* The disk is full, or the run is killed in the middle of the write.
StampShortWrite(s) ==
  /\ stamp[s].pc = "write" /\ token # NoFile
  /\ token' = Junk
  /\ StampFails(s, "killed")
  /\ WrittenBy(s)
  /\ UNCHANGED <<files, manifest, clock, seen, sent, issued, nextNonce>>

\* The run is killed, or opening or writing the file fails.
StampAbort(s) ==
  /\ stamp[s].pc \in {"ask", "write"}
  /\ StampFails(s, "killed")
  /\ UNCHANGED <<workspace, sent, issued, nextNonce>>

\* A hand removes or damages timestamp.tsr, or puts there any token that was
\* ever signed, by an authority or not.
ReplaceToken(x) ==
  /\ token # x
  /\ token' = x
  /\ WrittenFromOutside
  /\ UNCHANGED <<files, manifest, clock, seen, stamping>>

StampStep(s) ==
  \/ \E t \in Reply : StampStore(s, t) \/ StampRefuse(s, t)
  \/ StampDenied(s) \/ StampUnreachable(s)
  \/ StampWrite(s)

-----------------------------------------------------------------------------
(***************************************************************************)
(* Whatever the network delivers (an old answer, the answer to another     *)
(* run, a damaged one), a token that stamp goes on to store was signed as  *)
(* it stands, for the digest this run read and under its nonce; when an    *)
(* authority under the roots signed it, its time is less than a second     *)
(* before the request, and not after now (runStamp; the nonce and imprint  *)
(* checks of Token.Verify).                                                *)
(***************************************************************************)
StoredTokenAnswersRequest ==
  \A s \in Stamper : stamp[s].pc \in {"write", "stamped"} =>
    LET t == stamp[s].token
    IN  /\ t \in issued
        /\ t.imprint = stamp[s].digest /\ t.nonce = stamp[s].nonce
        /\ t.signer \in Trusted =>
             stamp[s].askedAt <= SecondAfter(t.genTime) /\ t.genTime <= clock

(***************************************************************************)
(* After a stamp that was not disturbed, timestamp.tsr is one whole answer *)
(* and verifies against manifest.json as it is on disk, so that pev verify *)
(* without roots accepts it (runStamp).                                    *)
(***************************************************************************)
StampedTokenVerifies ==
  \A s \in Stamper \cap calm : stamp[s].pc = "stamped" =>
    /\ ResponseParses(token)
    /\ TokenVerifies(ParseResponse(token), Sha256(manifest), {}, FALSE)

(***************************************************************************)
(* client.go: "FallbackTSA is used when the default one is unreachable."   *)
(* A run that gave up on an unreachable authority has asked the fallback.  *)
(***************************************************************************)
FallbackTried ==
  \A s \in Stamper :
    stamp[s].pc = "failed" /\ stamp[s].cause = "unreachable" =>
      FallbackTSA \in stamp[s].tried

(***************************************************************************)
(* Why StoredTokenAnswersRequest holds, as an inductive invariant: a nonce *)
(* names one request, authorities under the roots only answer requests     *)
(* that were sent, and what they answer was issued after it was sent.      *)
(***************************************************************************)
NoncesAreFresh ==
  /\ \A r \in sent : r.nonce < nextNonce
  /\ \A q \in sent, r \in sent : q.nonce = r.nonce => q = r

IssuedOnRequest ==
  \A t \in issued : t.signer \in Trusted =>
    /\ t.genTime <= clock
    /\ [digest |-> t.imprint, nonce |-> t.nonce] \in sent

StampInv ==
  /\ NoncesAreFresh /\ IssuedOnRequest
  /\ \A s \in Stamper : stamp[s].pc \in {"ask", "write", "stamped"} =>
       /\ [digest |-> stamp[s].digest, nonce |-> stamp[s].nonce] \in sent
       /\ stamp[s].askedAt <= clock
       /\ \A t \in issued :
            t.signer \in Trusted /\ t.nonce = stamp[s].nonce =>
              stamp[s].askedAt <= SecondAfter(t.genTime)
  /\ \A s \in Stamper : stamp[s].pc \in {"write", "stamped"} =>
       /\ stamp[s].token \in issued
       /\ stamp[s].token.imprint = stamp[s].digest
       /\ stamp[s].token.nonce = stamp[s].nonce
=============================================================================
