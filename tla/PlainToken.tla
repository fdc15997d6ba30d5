------------------------------ MODULE PlainToken ----------------------------
(***************************************************************************)
(* What Rfc3161 leaves out of a token does not matter to the commands: the *)
(* verdict of the client of TimeStampToken, reached step by step, is that  *)
(* of Rfc3161!TokenVerifies on the five fields a token has there.          *)
(***************************************************************************)
EXTENDS TimeStampToken

\* A signer of Rfc3161 is a certificate and whether its chain can be built.
PlainSigner == [cert : Cert, chains : BOOLEAN]

\* The artefacts of a bundle play no part in the judgement of a token.
R == INSTANCE Rfc3161
       WITH Path <- {0}, CapturePath <- 0, Content <- {}, GoodCapture <- {},
            NoFile <- "no file", Empty <- "empty", Junk <- "junk",
            Signer <- PlainSigner, Trusted <- {s \in PlainSigner : s.chains},
            NotBefore <- [s \in PlainSigner |-> NotBefore[s.cert]],
            NotAfter <- [s \in PlainSigner |-> NotAfter[s.cert]]

\* The steps that look at nothing but the token.
CmsHolds(r, c) ==
  /\ AttrIs(r, "contentType", "TSTInfo")
  /\ AttrIs(r, "messageDigest", Hash(r.digestAlg, r.info))
  /\ SignatureHash(r) # OtherAlg
  /\ r.signature = Sign(KeyOf[c], SignatureHash(r), r.attrs)
  /\ CheckSigningCertAttr(r, c) /\ CheckTimestampingEKU(c)
  /\ r.info.alg \in HashAlg

\* A response that does not parse has no token in it (Rfc3161!ResponseParses).
Plain(r) ==
  LET c == SignerOf(r)
  IN  [imprint |-> r.info.hashed, nonce |-> r.info.nonce,
       genTime |-> r.info.genTime, cms |-> CmsHolds(r, c),
       signer |-> [cert |-> c, chains |-> Chains(r, c, r.info.genTime)]]

-----------------------------------------------------------------------------
(***************************************************************************)
(* A response is accepted exactly when it parses and TokenVerifies holds   *)
(* of the plain token, for every combination of digest, nonce and roots,   *)
(* and it then claims the chain exactly when the plain token has one and   *)
(* roots were given (Token.Verify; Rfc3161!TokenVerifies, ChainVerified).  *)
(***************************************************************************)
JudgedAsPlain ==
  Judged =>
    LET o == client.opts
    IN  /\ client.pc = "accepted" <=>
             /\ Passed(ParseSteps(response))
             /\ R!TokenVerifies(Plain(response), o.digest,
                                {o.nonce} \ {NoNonce}, o.roots)
        /\ client.pc = "accepted" =>
             (client.chainVerified <=>
                R!ChainVerified(Plain(response), o.roots))
=============================================================================
