------------------------------ MODULE Rfc3161 -------------------------------
(***************************************************************************)
(* Package internal/rfc3161 as the commands see it: a TimeStampResp that   *)
(* encloses a token, and the verdict of Token.Verify on it.                *)
(*                                                                         *)
(* The checks on the CMS structure (content type and message digest        *)
(* attributes, signature, signing-certificate attribute, extended key      *)
(* usage) depend on the token alone; here they are the one field cms.      *)
(***************************************************************************)
EXTENDS Evidence

CONSTANTS
  Signer,     \* certificates that somebody signs tokens under
  Trusted,    \* those of authorities under the roots the verifier was given
  NotBefore,  \* first and last instant of each certificate's validity
  NotAfter

ASSUME SignerAssumption ==
  /\ Trusted \subseteq Signer
  /\ NotBefore \in [Signer -> Nat]
  /\ NotAfter \in [Signer -> Nat]

Token ==
  [imprint : ManifestDigest, nonce : Nat, genTime : Nat,
   signer : Signer, cms : BOOLEAN]

\* The bytes timestamp.tsr can hold.
TokenFile == Sentinel \cup [data : Token, rest : Seq(Token \cup {Junk})]

ASSUME TokenSentinelAssumption ==
  \A x \in Sentinel : x \notin [data : Token, rest : Seq(Token \cup {Junk})]

\* ParseResponse refuses trailing bytes, unlike the manifest's decoder.
ResponseParses(file) == file \notin Sentinel /\ file.rest = <<>>

ParseResponse(file) == file.data

\* The certificate is judged at the asserted time, not at the time of the check.
ValidAtGenTime(t) ==
  NotBefore[t.signer] <= t.genTime /\ t.genTime <= NotAfter[t.signer]

\* The chain is only built when roots were supplied.
ChainVerified(t, roots) == roots /\ t.signer \in Trusted

\* Mutant: the digest the token is over is not compared.
TokenVerifiesAnyImprint(t, digest, nonces, roots) ==
  /\ t.cms
  /\ nonces # {} => t.nonce \in nonces
  /\ ValidAtGenTime(t)
  /\ roots => ChainVerified(t, roots)

\* Mutant: the roots that were supplied are not used.
TokenVerifiesNoChain(t, digest, nonces, roots) ==
  /\ t.cms
  /\ t.imprint = digest
  /\ nonces # {} => t.nonce \in nonces
  /\ ValidAtGenTime(t)

(***************************************************************************)
(* Token.Verify.  nonces is {} when the caller kept no nonce and {n} when  *)
(* it sent n; roots says whether a root pool was supplied.                 *)
(***************************************************************************)
TokenVerifies(t, digest, nonces, roots) ==
  /\ t.cms
  /\ t.imprint = digest
  /\ nonces # {} => t.nonce \in nonces
  /\ ValidAtGenTime(t)
  /\ roots => ChainVerified(t, roots)
=============================================================================
