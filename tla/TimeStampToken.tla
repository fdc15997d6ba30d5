--------------------------- MODULE TimeStampToken ---------------------------
(***************************************************************************)
(* Inside a timestamp token: how an authority builds one, what can become  *)
(* of it on the way or on the disk, and how ParseToken and Token.Verify    *)
(* judge it, step by step.  In Rfc3161 all this is the one field cms.      *)
(*                                                                         *)
(* Keys, digests and signatures are symbolic: <<h, x>> is the digest of x  *)
(* under h, and <<k, h, x>> the signature of x by the key k under h.       *)
(***************************************************************************)
EXTENDS Naturals, Sequences, FiniteSets, Functions

CONSTANTS
  Cert,                         \* certificates
  KeyOf, SkiOf, SerialOf,       \* key, its identifier, issuer and serial number
  IssuerOf,                     \* the certificate each was issued under
  TsaCert,                      \* those for timestamping only, marked critical
  NotBefore, NotAfter,          \* validity
  Root,                         \* the pool a verifier may have been given
  Digest,                       \* digests a token can be over
  NoDigest,                     \* a caller that names none
  Nonce, NoNonce,
  HashAlg, OtherAlg,            \* digest algorithms known, and one that is not
  BadTime,                      \* a genTime that does not parse
  OtherBytes, NoBytes,          \* content that is not a TSTInfo, and none
  Options,                      \* what a client can ask for
  MaxTime,                      \* bound: genTime
  MaxBend                       \* bound: changes of a token, its defects counted

VARIABLES
  response,  \* the TimeStampResp
  issued,    \* history: what was vouched for under which certificate
  bends,     \* how many changes there were since
  client     \* the run that checks it

tokenVars == <<response, issued, bends, client>>

ASSUME CertAssumption ==
  /\ Root \subseteq Cert /\ TsaCert \subseteq Cert
  /\ IssuerOf \in [Cert -> Cert]
  /\ NotBefore \in [Cert -> Nat] /\ NotAfter \in [Cert -> Nat]

ASSUME AlgorithmAssumption ==
  /\ {"sha1", "sha256"} \subseteq HashAlg /\ OtherAlg \notin HashAlg
  /\ NoNonce \notin Nonce /\ NoDigest \notin Digest /\ BadTime \notin Nat

ASSUME BoundsAssumption == MaxTime \in Nat /\ MaxBend \in Nat

ASSUME ClientAssumption ==
  Options \subseteq [digest : Digest \cup {NoDigest},
                    nonce : Nonce \cup {NoNonce}, roots : BOOLEAN]

Hash(h, x) == <<h, x>>

Sign(k, h, x) == <<k, h, x>>

\* What is left of a signature with a bit flipped.
NoSignature == <<>>

Info ==
  [version : {1, 2}, alg : HashAlg \cup {OtherAlg}, hashed : Digest,
   nonce : Nonce \cup {NoNonce}, genTime : 0..MaxTime \cup {BadTime}]

ASSUME OtherBytesAssumption ==
  OtherBytes \notin Info /\ NoBytes \notin Info \cup {OtherBytes}

Attribute(type, values) == [type |-> type, values |-> values]

\* The two forms of a SignerIdentifier.
Sid(form, c) ==
  IF form = "ski" THEN <<"ski", SkiOf[c]>> ELSE <<"serial", SerialOf[c]>>

\* The certificates embedded: at most two, in some order.
Chain == {<<>>} \cup {<<c>> : c \in Cert} \cup {<<c, d>> : c, d \in Cert}

-----------------------------------------------------------------------------
(***************************************************************************)
(* The authority.  tsatest.Authority has one certificate, embeds it before *)
(* the root, names it by issuer and serial number and binds it by          *)
(* signingCertificateV2; public authorities use the other forms too.       *)
(***************************************************************************)
\* The ESS attributes by which a signature names its certificate.
Ess(form, c) ==
  LET one == Attribute("signingCertificate", << <<Hash("sha1", c)>> >>)
      two == Attribute("signingCertificateV2", << <<Hash("sha256", c)>> >>)
      all == Attribute("signingCertificateV2",
               << <<Hash("sha256", c), Hash("sha256", IssuerOf[c])>> >>)
  IN  [v1 |-> <<one>>, v2 |-> <<two>>, both |-> <<one, two>>,
       chain |-> <<all>>][form]

EssForm == {"v1", "v2", "both", "chain"}

\* How a test bends a token (StampOptions), and a key that signs other content.
Defect ==
  {"Status", "OtherContent", "WrongAttrDigest", "CorruptSignature",
   "OmitSigningCertAttr"}

SignedAttributes(c, info, form, bent) ==
  LET content == IF "OtherContent" \in bent THEN "data" ELSE "TSTInfo"
      covered == IF "WrongAttrDigest" \in bent THEN OtherBytes ELSE info
  IN  <<Attribute("contentType", <<content>>),
        Attribute("messageDigest", <<Hash("sha256", covered)>>)>>
      \o (IF "OmitSigningCertAttr" \in bent THEN <<>> ELSE Ess(form, c))

\* Authority.Stamp.  by and bent are history: no action of the client reads them.
Stamp(c, info, form, sid, certs, bent) ==
  LET attrs == SignedAttributes(c, info, form, bent)
  IN  [status |-> IF "Status" \in bent THEN "rejection" ELSE "granted",
       contentType |-> "signedData", eContentType |-> "TSTInfo",
       info |-> info, signers |-> 1, certs |-> certs, sid |-> Sid(sid, c),
       attrs |-> attrs, digestAlg |-> "sha256",
       signatureAlg |-> "rsaEncryption",
       signature |-> IF "CorruptSignature" \in bent THEN NoSignature
                     ELSE Sign(KeyOf[c], "sha256", attrs),
       by |-> c, bent |-> bent]

NoResponse == [status |-> "none"]

TokenInit ==
  /\ response = NoResponse /\ issued = {}
  /\ bends = 0
  /\ client = [pc |-> "idle"]

\* What an authority vouches for: this or another digest, with a nonce or not.
Vouchable ==
  {info \in Info :
     info.version = 1 /\ info.alg = "sha256" /\ info.genTime # BadTime}

\* An authority answers.
Issue ==
  /\ response = NoResponse
  /\ \E c \in Cert, info \in Vouchable, form \in EssForm,
        sid \in {"ski", "serial"}, certs \in Chain, bent \in SUBSET Defect :
       /\ c \in Range(certs)
       /\ response' = Stamp(c, info, form, sid, certs, bent)
       /\ issued' = IF bent \subseteq {"Status"}
                     THEN {[info |-> info, cert |-> c]} ELSE {}
  /\ UNCHANGED <<bends, client>>

\* Attribute lists that differ in one place.
AttributesBent(attrs) ==
  {[attrs EXCEPT ![i].values = @ \o @] : i \in DOMAIN attrs}
  \cup {[attrs EXCEPT ![i].type = "signingTime"] : i \in DOMAIN attrs}
  \cup {Ess("v2", c) \o attrs : c \in Cert}
  \cup {<<>>}

\* A TSTInfo that differs in one field, or none at all.
InfosBent(info) ==
  {NoBytes} \cup
  {i \in Info :
     info # NoBytes /\ \E f \in DOMAIN info : \A g \in DOMAIN info \ {f} : i[g] = info[g]}

\* Responses that differ in one place; the signature can break, not be made.
ResponsesBent ==
  LET r == response
  IN  {[r EXCEPT !.status = x] : x \in {"grantedWithMods", "granted", "rejection"}}
      \cup {[r EXCEPT !.contentType = "data"], [r EXCEPT !.eContentType = "data"],
            [r EXCEPT !.signers = 2], [r EXCEPT !.signature = NoSignature]}
      \cup {[r EXCEPT !.info = i] : i \in InfosBent(r.info)}
      \cup {[r EXCEPT !.certs = cs] : cs \in Chain}
      \cup {[r EXCEPT !.sid = Sid(form, c)] : form \in {"ski", "serial"}, c \in Cert}
      \cup {[r EXCEPT !.attrs = as] : as \in AttributesBent(r.attrs)}
      \cup {[r EXCEPT !.digestAlg = h] : h \in HashAlg \cup {OtherAlg}}
      \cup {[r EXCEPT !.signatureAlg = x] : x \in {"sha256WithRSA", "unknown"}}

\* It is damaged, or put together from parts, on the way or on the disk.
Bend ==
  /\ response # NoResponse /\ client.pc = "idle"
  /\ bends + Cardinality(response.bent) < MaxBend
  /\ response' \in ResponsesBent \ {response}
  /\ bends' = bends + 1
  /\ UNCHANGED <<issued, client>>

-----------------------------------------------------------------------------
(***************************************************************************)
(* The client.  A check is a sequence of named steps; the first that fails *)
(* is the error.                                                           *)
(***************************************************************************)
Step(name, ok) == [name |-> name, ok |-> ok]

Passed(steps) == \A i \in DOMAIN steps : steps[i].ok

FirstFailed(steps) ==
  LET i == CHOOSE i \in DOMAIN steps :
             ~steps[i].ok /\ \A j \in 1..(i - 1) : steps[j].ok
  IN  steps[i].name

Granted(r) == r.status \in {"granted", "grantedWithMods"}

\* findSigner, in the order in which the certificates are embedded.
Identified(r, c) ==
  IF r.sid[1] = "ski" THEN SkiOf[c] = r.sid[2] ELSE SerialOf[c] = r.sid[2]

IsSignerAt(r, i) ==
  /\ i \in DOMAIN r.certs /\ Identified(r, r.certs[i])
  /\ \A j \in 1..(i - 1) : ~Identified(r, r.certs[j])

SignerOf(r) == r.certs[CHOOSE i \in DOMAIN r.certs : IsSignerAt(r, i)]

\* Response.Granted and ParseToken.
ParseSteps(r) ==
  <<Step("status", Granted(r)),
    Step("content type", r.contentType = "signedData"),
    Step("encapsulated content type", r.eContentType = "TSTInfo"),
    Step("content", r.info # NoBytes),
    Step("signer infos", r.signers = 1),
    Step("TSTInfo",
         r.info # NoBytes => r.info.version = 1 /\ r.info.genTime # BadTime),
    Step("certificates", r.certs # <<>>),
    Step("signed attributes", r.attrs # <<>>),
    Step("digest algorithm", r.digestAlg \in HashAlg),
    Step("signer certificate", \E i \in DOMAIN r.certs : IsSignerAt(r, i))>>

\* Token.attr: the values of the first attribute of that type, if there is one.
Values(r, type) ==
  {r.attrs[i].values : i \in
     {k \in DOMAIN r.attrs :
        r.attrs[k].type = type /\ \A j \in 1..(k - 1) : r.attrs[j].type # type}}

\* Mutant: it is there.
AttrIsAny(r, type, v) == Values(r, type) # {}

\* It is there, and v is its one value.
AttrIs(r, type, v) == <<v>> \in Values(r, type)

\* signatureAlgorithm: the hash that the signature is under.
SignatureHash(r) ==
  CASE r.signatureAlg = "rsaEncryption" -> r.digestAlg
    [] r.signatureAlg = "sha256WithRSA" -> "sha256"
    [] OTHER -> OtherAlg

\* Its one value lists certificates, and the first listed is c, under h.
Lists(r, type, h, c) ==
  \E values \in Values(r, type) :
    /\ Len(values) = 1
    /\ values[1] # <<>> /\ values[1][1] = Hash(h, c)

\* Mutant: the certificate is taken for the one that is listed.
CheckSigningCertAttrAny(r, c) ==
  Values(r, "signingCertificateV2") \cup Values(r, "signingCertificate") # {}

\* The version 2 attribute decides if there is one.
CheckSigningCertAttr(r, c) ==
  IF Values(r, "signingCertificateV2") # {}
  THEN \E h \in HashAlg : Lists(r, "signingCertificateV2", h, c)
  ELSE Lists(r, "signingCertificate", "sha1", c)

\* Mutant: any certificate may sign timestamps.
CheckTimestampingEKUAny(c) == TRUE

CheckTimestampingEKU(c) == c \in TsaCert

\* Mutant: a token without a nonce answers any request.
NonceMatchesIfAny(r, opts) ==
  NoNonce \in {opts.nonce, r.info.nonce} \/ r.info.nonce = opts.nonce

NonceMatches(r, opts) == opts.nonce # NoNonce => r.info.nonce = opts.nonce

ValidAt(c, t) == NotBefore[c] <= t /\ t <= NotAfter[c]

(***************************************************************************)
(* x509 Certificate.Verify at the time t: the certificate is in the pool,  *)
(* or was issued under one in it, or under one embedded that was.  Longer  *)
(* chains are left out.                                                    *)
(***************************************************************************)
Chains(r, c, t) ==
  LET Under(d) == IssuerOf[d] \in Root /\ ValidAt(IssuerOf[d], t)
  IN  /\ ValidAt(c, t)
      /\ \/ c \in Root
         \/ Under(c)
         \/ /\ IssuerOf[c] \in Range(r.certs) \ {c}
            /\ ValidAt(IssuerOf[c], t) /\ Under(IssuerOf[c])

\* Token.Verify, c being the signer.
VerifySteps(r, c, opts) ==
  <<Step("expected digest", opts.digest # NoDigest),
    Step("content type attribute", AttrIs(r, "contentType", "TSTInfo")),
    Step("message digest",
         AttrIs(r, "messageDigest", Hash(r.digestAlg, r.info))),
    Step("signature algorithm", SignatureHash(r) # OtherAlg),
    Step("signature", r.signature = Sign(KeyOf[c], SignatureHash(r), r.attrs)),
    Step("signing certificate", CheckSigningCertAttr(r, c)),
    Step("extended key usage", CheckTimestampingEKU(c)),
    Step("message imprint",
         r.info.alg \in HashAlg /\ r.info.hashed = opts.digest),
    Step("nonce", NonceMatches(r, opts)),
    Step("validity", ValidAt(c, r.info.genTime)),
    Step("chain", opts.roots => Chains(r, c, r.info.genTime))>>

ParseToken(opts) ==
  /\ response # NoResponse /\ client.pc = "idle"
  /\ client' =
       IF Passed(ParseSteps(response))
       THEN [pc |-> "parsed", opts |-> opts, signer |-> SignerOf(response)]
       ELSE [pc |-> "rejected", opts |-> opts,
             at |-> FirstFailed(ParseSteps(response))]
  /\ UNCHANGED <<response, issued, bends>>

VerifyToken ==
  /\ client.pc = "parsed"
  /\ LET steps == VerifySteps(response, client.signer, client.opts)
     IN  client' =
           IF Passed(steps)
           THEN [pc |-> "accepted", opts |-> client.opts, signer |-> client.signer,
                 chainVerified |-> client.opts.roots]
           ELSE [pc |-> "rejected", opts |-> client.opts,
                 at |-> FirstFailed(steps)]
  /\ UNCHANGED <<response, issued, bends>>

TokenNext ==
  \/ Issue \/ Bend
  \/ \E opts \in Options : ParseToken(opts)
  \/ VerifyToken

TokenSpec == TokenInit /\ [][TokenNext]_tokenVars
-----------------------------------------------------------------------------
\* A client that has made up its mind.
Judged == client.pc \in {"accepted", "rejected"}

(***************************************************************************)
(* Whatever became of a response on the way, a TSTInfo that is accepted is *)
(* one that the authority did issue as a timestamp, and the certificate    *)
(* reported as the signer is the one it issued it under, not another with  *)
(* the same key, or the same names (ParseToken, Token.Verify).             *)
(***************************************************************************)
AcceptedWasIssued ==
  client.pc = "accepted" =>
    [info |-> response.info, cert |-> client.signer] \in issued

\* The certificate c is the first of those embedded that fits the identifier.
NamedFirst(c) ==
  \E i \in DOMAIN response.certs :
    response.certs[i] = c /\ IsSignerAt(response, i)

(***************************************************************************)
(* A response that comes through as it was issued is accepted exactly when *)
(* steps 6 to 9 of docs/bundle-format.md hold of what the authority meant, *)
(* in all the forms a token can take, and no other certificate that fits   *)
(* the signer identifier is embedded before the signer's: findSigner takes *)
(* the first, so a genuine token with a renewed certificate of the same    *)
(* key before its own is refused, whatever the client asks for.            *)
(***************************************************************************)
IntactIsJudgedRight ==
  \A q \in issued :
    bends = 0 /\ response.bent = {} /\ Judged =>
    (client.pc = "accepted" <=>
       /\ NamedFirst(q.cert)
       /\ q.cert \in TsaCert
       /\ q.info.hashed = client.opts.digest
       /\ client.opts.nonce \in {q.info.nonce, NoNonce}
       /\ ValidAt(q.cert, q.info.genTime)
       /\ client.opts.roots => Chains(response, q.cert, q.info.genTime))

\* The step at which each defect shows, in the order of the steps.
ShowsAt ==
  << <<"Status", "status">>, <<"OtherContent", "content type attribute">>,
     <<"WrongAttrDigest", "message digest">>, <<"CorruptSignature", "signature">>,
     <<"OmitSigningCertAttr", "signing certificate">> >>

(***************************************************************************)
(* "Every failure is returned as an error naming the step that failed":    *)
(* a token bent by StampOptions, in any combination, is rejected, and for  *)
(* the first of its defects, whatever else the client asked for, provided  *)
(* that it names a digest, and that no other certificate that fits the     *)
(* signer identifier is embedded before the signer's: that one would be    *)
(* checked, and fail at steps of its own (tsatest.Stamp; Token.Verify).    *)
(***************************************************************************)
DefectIsNamed ==
  response # NoResponse /\ bends = 0 /\ Judged =>
    (response.bent # {} /\ NamedFirst(response.by) /\ client.opts.digest # NoDigest =>
       /\ client.pc = "rejected"
       /\ \E i \in DOMAIN ShowsAt :
            /\ ShowsAt[i][1] \in response.bent /\ client.at = ShowsAt[i][2]
            /\ \A j \in 1..(i - 1) : ShowsAt[j][1] \notin response.bent)
=============================================================================
