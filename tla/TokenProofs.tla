----------------------------- MODULE TokenProofs ----------------------------
(***************************************************************************)
(* The life of a token, for all sets of certificates, digests and          *)
(* algorithms, and any number of changes.  Whatever becomes of a response, *)
(* only what was issued is accepted: a signature is made by the authority  *)
(* or is none; one that verifies fixes all the attributes, one of which    *)
(* fixes the TSTInfo, and another the certificate.  And one that nobody    *)
(* changed fails exactly the steps that its defects are about.             *)
(***************************************************************************)
EXTENDS PlainToken, SequenceTheorems, TLAPS

\* The steps of Token.Verify, one by one.
VerifyNames(v) ==
  /\ DOMAIN v = 1..11
  /\ v[2].name = "content type attribute" /\ v[3].name = "message digest"
  /\ v[5].name = "signature" /\ v[6].name = "signing certificate"

VerifyChecks(v, r, c, opts) ==
  /\ v[1].ok <=> opts.digest # NoDigest
  /\ v[2].ok <=> AttrIs(r, "contentType", "TSTInfo")
  /\ v[3].ok <=> AttrIs(r, "messageDigest", Hash(r.digestAlg, r.info))
  /\ v[4].ok <=> SignatureHash(r) # OtherAlg
  /\ v[5].ok <=> r.signature = Sign(KeyOf[c], SignatureHash(r), r.attrs)
  /\ v[6].ok <=> CheckSigningCertAttr(r, c)
  /\ v[7].ok <=> CheckTimestampingEKU(c)
  /\ v[8].ok <=> r.info.alg \in HashAlg /\ r.info.hashed = opts.digest
  /\ v[9].ok <=> NonceMatches(r, opts)
  /\ v[10].ok <=> ValidAt(c, r.info.genTime)
  /\ v[11].ok <=> (opts.roots => Chains(r, c, r.info.genTime))

LEMMA VerifyStepsAre ==
  ASSUME NEW r, NEW c, NEW opts
  PROVE  /\ VerifyNames(VerifySteps(r, c, opts))
         /\ VerifyChecks(VerifySteps(r, c, opts), r, c, opts)
<1> DEFINE v == VerifySteps(r, c, opts)
           s1 == Step("expected digest", opts.digest # NoDigest)
           s2 == Step("content type attribute", AttrIs(r, "contentType", "TSTInfo"))
           s3 == Step("message digest",
                   AttrIs(r, "messageDigest", Hash(r.digestAlg, r.info)))
           s4 == Step("signature algorithm", SignatureHash(r) # OtherAlg)
           s5 == Step("signature",
                   r.signature = Sign(KeyOf[c], SignatureHash(r), r.attrs))
           s6 == Step("signing certificate", CheckSigningCertAttr(r, c))
           s7 == Step("extended key usage", CheckTimestampingEKU(c))
           s8 == Step("message imprint",
                   r.info.alg \in HashAlg /\ r.info.hashed = opts.digest)
           s9 == Step("nonce", NonceMatches(r, opts))
           s10 == Step("validity", ValidAt(c, r.info.genTime))
           s11 == Step("chain", opts.roots => Chains(r, c, r.info.genTime))
<1>1. v = <<s1, s2, s3, s4, s5, s6, s7, s8, s9, s10, s11>>
  BY DEF VerifySteps
<1>2. /\ s1.ok <=> opts.digest # NoDigest
      /\ s2.name = "content type attribute" /\ s3.name = "message digest"
      /\ s5.name = "signature" /\ s6.name = "signing certificate"
      /\ s2.ok <=> AttrIs(r, "contentType", "TSTInfo")
      /\ s3.ok <=> AttrIs(r, "messageDigest", Hash(r.digestAlg, r.info))
      /\ s4.ok <=> SignatureHash(r) # OtherAlg
      /\ s5.ok <=> r.signature = Sign(KeyOf[c], SignatureHash(r), r.attrs)
      /\ s6.ok <=> CheckSigningCertAttr(r, c)
      /\ s7.ok <=> CheckTimestampingEKU(c)
      /\ s8.ok <=> r.info.alg \in HashAlg /\ r.info.hashed = opts.digest
      /\ s9.ok <=> NonceMatches(r, opts)
      /\ s10.ok <=> ValidAt(c, r.info.genTime)
      /\ s11.ok <=> (opts.roots => Chains(r, c, r.info.genTime))
  BY Zenon DEF Step
<1> HIDE DEF v, s1, s2, s3, s4, s5, s6, s7, s8, s9, s10, s11
<1>3. /\ DOMAIN v = 1..11
      /\ v[1] = s1 /\ v[2] = s2 /\ v[3] = s3 /\ v[4] = s4 /\ v[5] = s5 /\ v[6] = s6
      /\ v[7] = s7 /\ v[8] = s8 /\ v[9] = s9 /\ v[10] = s10 /\ v[11] = s11
  BY <1>1
<1>4. VerifyNames(v)
  BY <1>2, <1>3 DEF VerifyNames
<1>5. VerifyChecks(v, r, c, opts)
  BY <1>2, <1>3 DEF VerifyChecks
<1> QED  BY <1>4, <1>5 DEF v

\* Those of Response.Granted and ParseToken.
LEMMA ParseStepsAre ==
  ASSUME NEW r
  PROVE  LET v == ParseSteps(r)
         IN  /\ DOMAIN v = 1..10
             /\ v[1].name = "status"
             /\ v[1].ok <=> Granted(r)
             /\ v[2].ok <=> r.contentType = "signedData"
             /\ v[3].ok <=> r.eContentType = "TSTInfo"
             /\ v[4].ok <=> r.info # NoBytes
             /\ v[5].ok <=> r.signers = 1
             /\ v[6].ok <=> (r.info # NoBytes => r.info.version = 1 /\ r.info.genTime # BadTime)
             /\ v[7].ok <=> r.certs # <<>>
             /\ v[8].ok <=> r.attrs # <<>>
             /\ v[9].ok <=> r.digestAlg \in HashAlg
             /\ v[10].ok <=> \E i \in DOMAIN r.certs : IsSignerAt(r, i)
<1> DEFINE v == ParseSteps(r)
           s1 == Step("status", Granted(r))
           s2 == Step("content type", r.contentType = "signedData")
           s3 == Step("encapsulated content type", r.eContentType = "TSTInfo")
           s4 == Step("content", r.info # NoBytes)
           s5 == Step("signer infos", r.signers = 1)
           s6 == Step("TSTInfo",
                   r.info # NoBytes => r.info.version = 1 /\ r.info.genTime # BadTime)
           s7 == Step("certificates", r.certs # <<>>)
           s8 == Step("signed attributes", r.attrs # <<>>)
           s9 == Step("digest algorithm", r.digestAlg \in HashAlg)
           s10 == Step("signer certificate", \E i \in DOMAIN r.certs : IsSignerAt(r, i))
<1>1. v = <<s1, s2, s3, s4, s5, s6, s7, s8, s9, s10>>
  BY DEF ParseSteps
<1>2. /\ s1.name = "status"
      /\ s1.ok <=> Granted(r)
      /\ s2.ok <=> r.contentType = "signedData"
      /\ s3.ok <=> r.eContentType = "TSTInfo"
      /\ s4.ok <=> r.info # NoBytes
      /\ s5.ok <=> r.signers = 1
      /\ s6.ok <=> (r.info # NoBytes => r.info.version = 1 /\ r.info.genTime # BadTime)
      /\ s7.ok <=> r.certs # <<>>
      /\ s8.ok <=> r.attrs # <<>>
      /\ s9.ok <=> r.digestAlg \in HashAlg
      /\ s10.ok <=> \E i \in DOMAIN r.certs : IsSignerAt(r, i)
  BY Zenon DEF Step
<1> HIDE DEF v, s1, s2, s3, s4, s5, s6, s7, s8, s9, s10
<1>3. /\ DOMAIN v = 1..10
      /\ v[1] = s1 /\ v[2] = s2 /\ v[3] = s3 /\ v[4] = s4 /\ v[5] = s5 /\ v[6] = s6
      /\ v[7] = s7 /\ v[8] = s8 /\ v[9] = s9 /\ v[10] = s10
  BY <1>1
<1> QED  BY <1>2, <1>3, Zenon DEF v

\* When all the steps pass.
LEMMA VerifyPasses ==
  ASSUME NEW r, NEW c, NEW opts
  PROVE  Passed(VerifySteps(r, c, opts)) <=>
           /\ opts.digest # NoDigest
           /\ CmsHolds(r, c)
           /\ r.info.hashed = opts.digest
           /\ NonceMatches(r, opts)
           /\ ValidAt(c, r.info.genTime)
           /\ opts.roots => Chains(r, c, r.info.genTime)
<1> DEFINE v == VerifySteps(r, c, opts)
<1>1. VerifyNames(v) /\ VerifyChecks(v, r, c, opts)
  BY VerifyStepsAre
<1> HIDE DEF v
<1>2. Passed(v) <=>
        /\ v[1].ok /\ v[2].ok /\ v[3].ok /\ v[4].ok /\ v[5].ok /\ v[6].ok
        /\ v[7].ok /\ v[8].ok /\ v[9].ok /\ v[10].ok /\ v[11].ok
  <2>1. \A i : i \in 1..11 <=> i \in {1, 2, 3, 4, 5, 6, 7, 8, 9, 10, 11}
    OBVIOUS
  <2> QED  BY <1>1, <2>1, Zenon DEF Passed, VerifyNames
<1>3. Passed(v) <=>
        /\ opts.digest # NoDigest
        /\ CmsHolds(r, c)
        /\ r.info.hashed = opts.digest
        /\ NonceMatches(r, opts)
        /\ ValidAt(c, r.info.genTime)
        /\ opts.roots => Chains(r, c, r.info.genTime)
  BY <1>1, <1>2 DEF VerifyChecks, CmsHolds
<1> QED  BY <1>3 DEF v

\* When the steps of parsing pass.
LEMMA ParsePasses ==
  ASSUME NEW r, Granted(r), r.contentType = "signedData",
         r.eContentType = "TSTInfo", r.signers = 1,
         r.info # NoBytes, r.info.version = 1, r.info.genTime # BadTime,
         r.certs # <<>>, r.attrs # <<>>, r.digestAlg \in HashAlg,
         \E i \in DOMAIN r.certs : IsSignerAt(r, i)
  PROVE  Passed(ParseSteps(r))
<1> DEFINE v == ParseSteps(r)
<1>1. DOMAIN v = 1..10
  BY ParseStepsAre
<1>2. /\ v[1].ok /\ v[2].ok /\ v[3].ok /\ v[4].ok /\ v[5].ok
      /\ v[6].ok /\ v[7].ok /\ v[8].ok /\ v[9].ok /\ v[10].ok
  BY ParseStepsAre, Zenon
<1> HIDE DEF v
<1>3. \A i : i \in 1..10 <=> i \in {1, 2, 3, 4, 5, 6, 7, 8, 9, 10}
  OBVIOUS
<1>4. Passed(v)
  BY <1>1, <1>2, <1>3, Zenon DEF Passed
<1> QED  BY <1>4 DEF v

\* What has parsed has content, and a signer among its certificates.
LEMMA ParsedSigner ==
  ASSUME NEW r, Passed(ParseSteps(r))
  PROVE  r.info # NoBytes /\ \E i \in DOMAIN r.certs : IsSignerAt(r, i)
<1> DEFINE p == ParseSteps(r)
<1>1. DOMAIN p = 1..10
  BY ParseStepsAre
<1>2. /\ p[4].ok <=> r.info # NoBytes
      /\ p[10].ok <=> \E i \in DOMAIN r.certs : IsSignerAt(r, i)
  BY ParseStepsAre, Zenon
<1> HIDE DEF p
<1>3. Passed(p) => p[4].ok /\ p[10].ok
  BY <1>1 DEF Passed
<1> QED  BY <1>2, <1>3 DEF p

\* The step that fails first is the one that is named.
LEMMA FirstFails ==
  ASSUME NEW v, NEW n \in Nat, DOMAIN v = 1..n,
         NEW i \in 1..n, ~v[i].ok, \A j \in 1..(i - 1) : v[j].ok
  PROVE  ~Passed(v) /\ FirstFailed(v) = v[i].name
<1> DEFINE First(k) == ~v[k].ok /\ \A j \in 1..(k - 1) : v[j].ok
<1>1. i \in DOMAIN v /\ First(i)
  OBVIOUS
<1>2. ASSUME NEW k \in DOMAIN v, First(k)
      PROVE  k = i
  <2>1. CASE k < i
    <3>1. k \in 1..(i - 1)
      BY <2>1
    <3> QED  BY <1>2, <3>1
  <2>2. CASE i < k
    <3>1. i \in 1..(k - 1)
      BY <2>2
    <3> QED  BY <1>2, <3>1
  <2> QED  BY <2>1, <2>2
<1> HIDE DEF First
<1>3. (CHOOSE k \in DOMAIN v : First(k)) = i
  BY <1>1, <1>2
<1>4. FirstFailed(v) = v[i].name
  BY <1>3, Zenon DEF FirstFailed, First
<1> QED  BY <1>1, <1>4 DEF Passed

\* The signer is the first certificate that fits.
LEMMA SignerIsFirst ==
  ASSUME NEW r, r.certs \in Chain, NEW i, IsSignerAt(r, i)
  PROVE  SignerOf(r) = r.certs[i] /\ SignerOf(r) \in Cert
<1>1. /\ DOMAIN r.certs \subseteq Nat
      /\ \A k \in DOMAIN r.certs : r.certs[k] \in Cert /\ k >= 1
  BY DEF Chain
<1>2. ASSUME NEW k \in DOMAIN r.certs, IsSignerAt(r, k)
      PROVE  k = i
  <2>1. i \in DOMAIN r.certs /\ i \in Nat /\ k \in Nat /\ i >= 1 /\ k >= 1
    BY <1>1, <1>2 DEF IsSignerAt
  <2>2. CASE k < i
    <3>1. k \in 1..(i - 1)
      BY <2>1, <2>2
    <3> QED  BY <1>2, <3>1 DEF IsSignerAt
  <2>3. CASE i < k
    <3>1. i \in 1..(k - 1)
      BY <2>1, <2>3
    <3> QED  BY <1>2, <3>1 DEF IsSignerAt
  <2> QED  BY <2>1, <2>2, <2>3
<1>3. i \in DOMAIN r.certs
  BY DEF IsSignerAt
<1>4. (CHOOSE k \in DOMAIN r.certs : IsSignerAt(r, k)) = i
  BY <1>2, <1>3
<1> QED  BY <1>1, <1>3, <1>4 DEF SignerOf

\* The values of the first attribute of a type.
LEMMA FirstValues ==
  ASSUME NEW r, NEW type, DOMAIN r.attrs \subseteq Nat \ {0},
         NEW i \in DOMAIN r.attrs, r.attrs[i].type = type,
         \A j \in 1..(i - 1) : r.attrs[j].type # type
  PROVE  Values(r, type) = {r.attrs[i].values}
<1> DEFINE First(k) == /\ r.attrs[k].type = type
                       /\ \A j \in 1..(k - 1) : r.attrs[j].type # type
<1>1. i \in DOMAIN r.attrs /\ First(i)
  OBVIOUS
<1>2. \A k \in DOMAIN r.attrs : k \in Nat /\ k >= 1
  OBVIOUS
<1>3. ASSUME NEW k \in DOMAIN r.attrs, First(k)
      PROVE  k = i
  <2>1. CASE k < i
    <3>1. k \in 1..(i - 1)
      BY <1>2, <2>1
    <3> QED  BY <1>3, <3>1
  <2>2. CASE i < k
    <3>1. i \in 1..(k - 1)
      BY <1>2, <2>2
    <3> QED  BY <1>3, <3>1
  <2> QED  BY <1>2, <2>1, <2>2
<1>4. {k \in DOMAIN r.attrs : First(k)} = {i}
  <2> HIDE DEF First
  <2> QED  BY <1>1, <1>3
<1> QED  BY <1>4, Zenon DEF Values

LEMMA NoValues ==
  ASSUME NEW r, NEW type, \A i \in DOMAIN r.attrs : r.attrs[i].type # type
  PROVE  Values(r, type) = {}
BY DEF Values

\* What is in a sequence after two elements.
LEMMA TwoAndRest ==
  ASSUME NEW V, NEW x \in V, NEW y \in V, NEW rest \in Seq(V),
         NEW i \in DOMAIN (<<x, y>> \o rest)
  PROVE  LET z == (<<x, y>> \o rest)[i]
         IN  z = x \/ z = y \/ \E j \in DOMAIN rest : z = rest[j]
<1> DEFINE xy == <<x, y>>
<1>1. xy \in Seq(V) /\ Len(xy) = 2 /\ xy[1] = x /\ xy[2] = y
  OBVIOUS
<1> HIDE DEF xy
<1>2. /\ DOMAIN (xy \o rest) = 1..(Len(xy) + Len(rest))
      /\ \A k \in 1..(Len(xy) + Len(rest)) :
           (xy \o rest)[k] = IF k <= Len(xy) THEN xy[k] ELSE rest[k - Len(xy)]
  <2>1. /\ xy \o rest \in Seq(V)
        /\ Len(xy \o rest) = Len(xy) + Len(rest)
        /\ \A k \in 1..(Len(xy) + Len(rest)) :
             (xy \o rest)[k] = IF k <= Len(xy) THEN xy[k] ELSE rest[k - Len(xy)]
    BY <1>1, ConcatProperties
  <2> QED  BY <2>1
<1>3. i \in 1..(2 + Len(rest))
  BY <1>1, <1>2 DEF xy
<1>4. CASE i <= 2
  <2>1. i = 1 \/ i = 2
    BY <1>3, <1>4
  <2> QED  BY <1>1, <1>2, <1>3, <1>4, <2>1 DEF xy
<1>5. CASE i > 2
  <2>1. i - 2 \in 1..Len(rest)
    BY <1>3, <1>5
  <2>2. (xy \o rest)[i] = rest[i - 2]
    BY <1>1, <1>2, <1>3, <1>5
  <2> QED  BY <2>1, <2>2 DEF xy
<1> QED  BY <1>3, <1>4, <1>5

\* The attributes that bind a signature to its certificate.
LEMMA EssByType ==
  ASSUME NEW c, NEW form \in EssForm
  PROVE  /\ \E V : Ess(form, c) \in Seq(V)
         /\ \A j \in DOMAIN Ess(form, c) :
              /\ Ess(form, c)[j].type
                   \in {"signingCertificate", "signingCertificateV2"}
              /\ \E h \in {"sha1", "sha256"} :
                   Ess(form, c)[j].values[1][1] = Hash(h, c)
<1> DEFINE v1 == Attribute("signingCertificate", << <<Hash("sha1", c)>> >>)
           v2 == Attribute("signingCertificateV2", << <<Hash("sha256", c)>> >>)
           all == Attribute("signingCertificateV2",
                    << <<Hash("sha256", c), Hash("sha256", IssuerOf[c])>> >>)
           ess == Ess(form, c)
<1>1. \/ ess = <<v1>> \/ ess = <<v2>> \/ ess = <<v1, v2>> \/ ess = <<all>>
  BY DEF Ess, EssForm
<1>2. \A a \in {v1, v2, all} :
        /\ a.type \in {"signingCertificate", "signingCertificateV2"}
        /\ \E h \in {"sha1", "sha256"} : a.values[1][1] = Hash(h, c)
  <2>1. /\ v1.type = "signingCertificate"
        /\ v1.values = << <<Hash("sha1", c)>> >>
        /\ v2.type = "signingCertificateV2"
        /\ v2.values = << <<Hash("sha256", c)>> >>
        /\ all.type = "signingCertificateV2"
        /\ all.values = << <<Hash("sha256", c), Hash("sha256", IssuerOf[c])>> >>
    BY DEF Attribute
  <2> HIDE DEF v1, v2, all
  <2>2. /\ v1.values[1][1] = Hash("sha1", c)
        /\ v2.values[1][1] = Hash("sha256", c)
        /\ all.values[1][1] = Hash("sha256", c)
    BY <2>1
  <2> QED  BY <2>1, <2>2
<1> HIDE DEF v1, v2, all, ess
<1>3. ess \in Seq({v1, v2, all}) /\ \A j \in DOMAIN ess : ess[j] \in {v1, v2, all}
  <2>1. CASE ess = <<v1>>
    BY <2>1
  <2>2. CASE ess = <<v2>>
    BY <2>2
  <2>3. CASE ess = <<v1, v2>>
    BY <2>3
  <2>4. CASE ess = <<all>>
    BY <2>4
  <2> QED  BY <1>1, <2>1, <2>2, <2>3, <2>4
<1> QED  BY <1>2, <1>3 DEF ess

\* What a signature of the authority is over.
LEMMA SignedByType ==
  ASSUME NEW c, NEW info, NEW form \in EssForm, NEW bent,
         NEW i \in DOMAIN SignedAttributes(c, info, form, bent)
  PROVE  LET a == SignedAttributes(c, info, form, bent)[i]
         IN  /\ a.type = "contentType" /\ a.values = <<"TSTInfo">> =>
                  "OtherContent" \notin bent
             /\ a.type = "messageDigest" =>
                  a.values = <<Hash("sha256",
                     IF "WrongAttrDigest" \in bent THEN OtherBytes ELSE info)>>
             /\ a.type \in {"signingCertificate", "signingCertificateV2"} =>
                  /\ "OmitSigningCertAttr" \notin bent
                  /\ \E h \in {"sha1", "sha256"} : a.values[1][1] = Hash(h, c)
<1> DEFINE content == IF "OtherContent" \in bent THEN "data" ELSE "TSTInfo"
           covered == IF "WrongAttrDigest" \in bent THEN OtherBytes ELSE info
           x == Attribute("contentType", <<content>>)
           y == Attribute("messageDigest", <<Hash("sha256", covered)>>)
           rest == IF "OmitSigningCertAttr" \in bent THEN <<>> ELSE Ess(form, c)
           a == SignedAttributes(c, info, form, bent)[i]
<1>1. SignedAttributes(c, info, form, bent) = <<x, y>> \o rest
  BY DEF SignedAttributes
<1>2. /\ x.type = "contentType" /\ x.values = <<content>>
      /\ y.type = "messageDigest" /\ y.values = <<Hash("sha256", covered)>>
  BY DEF Attribute
<1>3. /\ \E V : rest \in Seq(V)
      /\ \A j \in DOMAIN rest :
           /\ "OmitSigningCertAttr" \notin bent
           /\ rest[j].type \in {"signingCertificate", "signingCertificateV2"}
           /\ \E h \in {"sha1", "sha256"} : rest[j].values[1][1] = Hash(h, c)
  <2>1. CASE "OmitSigningCertAttr" \in bent
    <3>1. rest = <<>> /\ rest \in Seq({}) /\ DOMAIN rest = {}
      BY <2>1
    <3> QED  BY <3>1
  <2>2. CASE "OmitSigningCertAttr" \notin bent
    <3>1. rest = Ess(form, c)
      BY <2>2
    <3> QED  BY <2>2, <3>1, EssByType
  <2> QED  BY <2>1, <2>2
<1> HIDE DEF x, y, rest
<1>4. a = x \/ a = y \/ \E j \in DOMAIN rest : a = rest[j]
  <2>1. PICK V : rest \in Seq(V)
    BY <1>3
  <2>2. rest \in Seq(V \cup {x, y})
    BY <2>1, LenProperties
  <2>3. i \in DOMAIN (<<x, y>> \o rest)
    BY <1>1
  <2> QED  BY <1>1, <2>2, <2>3, TwoAndRest
<1> HIDE DEF a
<1>5. CASE a = x
  BY <1>2, <1>5 DEF a
<1>6. CASE a = y
  BY <1>2, <1>6 DEF a
<1>7. ASSUME NEW j \in DOMAIN rest, a = rest[j]
      PROVE  /\ a.type \in {"signingCertificate", "signingCertificateV2"}
             /\ "OmitSigningCertAttr" \notin bent
             /\ \E h \in {"sha1", "sha256"} : a.values[1][1] = Hash(h, c)
  BY <1>3, <1>7
<1>8. CASE \E j \in DOMAIN rest : a = rest[j]
  BY <1>7, <1>8 DEF a
<1> QED  BY <1>4, <1>5, <1>6, <1>8

\* Where the attributes of the authority are.
LEMMA AfterTwo ==
  ASSUME NEW V, NEW x \in V, NEW y \in V, NEW rest \in Seq(V)
  PROVE  LET q == <<x, y>> \o rest
         IN  /\ Len(rest) \in Nat /\ DOMAIN q = 1..(2 + Len(rest))
             /\ q # <<>> /\ q[1] = x /\ q[2] = y
             /\ \A j \in 1..Len(rest) : q[2 + j] = rest[j]
<1> DEFINE xy == <<x, y>>
<1>1. xy \in Seq(V) /\ Len(xy) = 2 /\ xy[1] = x /\ xy[2] = y
  OBVIOUS
<1> HIDE DEF xy
<1> DEFINE q == xy \o rest
<1>2. /\ q \in Seq(V) /\ Len(q) = Len(xy) + Len(rest)
      /\ \A k \in 1..(Len(xy) + Len(rest)) :
           q[k] = IF k <= Len(xy) THEN xy[k] ELSE rest[k - Len(xy)]
  BY <1>1, ConcatProperties
<1>3. Len(rest) \in Nat
  OBVIOUS
<1> HIDE DEF q
<1>4. /\ DOMAIN q = 1..(2 + Len(rest)) /\ Len(q) >= 2
      /\ \A k \in 1..(2 + Len(rest)) :
           q[k] = IF k <= 2 THEN xy[k] ELSE rest[k - 2]
  BY <1>1, <1>2, <1>3
<1>5. q[1] = x /\ q[2] = y
  BY <1>1, <1>3, <1>4
<1>6. ASSUME NEW j \in 1..Len(rest)
      PROVE  q[2 + j] = rest[j]
  <2>1. 2 + j \in 1..(2 + Len(rest)) /\ ~(2 + j <= 2) /\ (2 + j) - 2 = j
    BY <1>3
  <2> QED  BY <1>4, <2>1
<1>7. q # <<>>
  BY <1>4
<1> QED  BY <1>3, <1>4, <1>5, <1>6, <1>7 DEF q, xy

\* What the attributes of a bent token say.
Content(bent) == IF "OtherContent" \in bent THEN "data" ELSE "TSTInfo"
Covered(info, bent) == IF "WrongAttrDigest" \in bent THEN OtherBytes ELSE info
Binding(c, form, bent) ==
  IF "OmitSigningCertAttr" \in bent THEN <<>> ELSE Ess(form, c)

\* The first two attributes are in every token, those of Ess if not left out.
AreSigned(a, c, info, form, bent) ==
  LET rest == Binding(c, form, bent)
  IN  /\ Len(rest) \in Nat /\ DOMAIN a = 1..(2 + Len(rest)) /\ a # <<>>
      /\ a[1].type = "contentType" /\ a[1].values = <<Content(bent)>>
      /\ a[2].type = "messageDigest"
      /\ a[2].values = <<Hash("sha256", Covered(info, bent))>>
      /\ \A j \in 1..Len(rest) : a[2 + j] = rest[j]

LEMMA SignedAttributesAre ==
  ASSUME NEW c, NEW info, NEW form \in EssForm, NEW bent
  PROVE  AreSigned(SignedAttributes(c, info, form, bent), c, info, form, bent)
<1> DEFINE x == Attribute("contentType", <<Content(bent)>>)
           y == Attribute("messageDigest", <<Hash("sha256", Covered(info, bent))>>)
           rest == Binding(c, form, bent)
           a == SignedAttributes(c, info, form, bent)
<1>1. a = <<x, y>> \o rest
  BY DEF SignedAttributes, Content, Covered, Binding
<1>2. /\ x.type = "contentType" /\ x.values = <<Content(bent)>>
      /\ y.type = "messageDigest" /\ y.values = <<Hash("sha256", Covered(info, bent))>>
  BY DEF Attribute
<1>3. PICK V : rest \in Seq(V)
  <2>1. CASE "OmitSigningCertAttr" \in bent
    <3>1. rest = <<>> /\ rest \in Seq({})
      BY <2>1 DEF Binding
    <3> QED  BY <3>1
  <2>2. CASE "OmitSigningCertAttr" \notin bent
    <3>1. rest = Ess(form, c)
      BY <2>2 DEF Binding
    <3> QED  BY <3>1, EssByType
  <2> QED  BY <2>1, <2>2
<1> HIDE DEF x, y, rest, a
<1>4. rest \in Seq(V \cup {x, y})
  BY <1>3, LenProperties
<1>5. /\ Len(rest) \in Nat /\ DOMAIN a = 1..(2 + Len(rest))
      /\ a # <<>> /\ a[1] = x /\ a[2] = y
      /\ \A j \in 1..Len(rest) : a[2 + j] = rest[j]
  BY <1>1, <1>4, AfterTwo
<1>6. /\ a[1].type = "contentType" /\ a[1].values = <<Content(bent)>>
      /\ a[2].type = "messageDigest" /\ a[2].values = <<Hash("sha256", Covered(info, bent))>>
  BY <1>2, <1>5
<1> QED  BY <1>5, <1>6 DEF rest, a, AreSigned

\* The attributes of the authority bind the signature to its certificate.
LEMMA EssIsChecked ==
  ASSUME NEW r, NEW c, NEW info, NEW form \in EssForm, NEW bent,
         r.attrs = SignedAttributes(c, info, form, bent)
  PROVE  CheckSigningCertAttr(r, c) <=> "OmitSigningCertAttr" \notin bent
<1> DEFINE V1 == "signingCertificate"
           V2 == "signingCertificateV2"
           v1 == Attribute(V1, << <<Hash("sha1", c)>> >>)
           v2 == Attribute(V2, << <<Hash("sha256", c)>> >>)
           all == Attribute(V2, << <<Hash("sha256", c), Hash("sha256", IssuerOf[c])>> >>)
           rest == Binding(c, form, bent)
<1>1. /\ Len(rest) \in Nat /\ DOMAIN r.attrs = 1..(2 + Len(rest))
      /\ \A i \in {1, 2} : r.attrs[i].type \notin {V1, V2}
      /\ \A j \in 1..Len(rest) : r.attrs[2 + j] = rest[j]
  <2> HIDE DEF rest
  <2>1. AreSigned(r.attrs, c, info, form, bent)
    BY SignedAttributesAre
  <2>2. r.attrs[1].type = "contentType" /\ r.attrs[2].type = "messageDigest"
    BY <2>1 DEF AreSigned
  <2> QED  BY <2>1, <2>2 DEF AreSigned, rest
<1>2. \A a \in {v1, v2, all} :
        /\ a \in {v2, all} => a.type = V2
        /\ Len(a.values) = 1 /\ a.values[1] # <<>>
        /\ a.values[1][1] = IF a.type = V2 THEN Hash("sha256", c) ELSE Hash("sha1", c)
  BY DEF Attribute
<1>3. v1.type = V1
  BY DEF Attribute
<1>4. CASE "OmitSigningCertAttr" \in bent
  <2>1. rest = <<>>
    BY <1>4 DEF Binding
  <2>2. \A i \in DOMAIN r.attrs : r.attrs[i].type \notin {V1, V2}
    BY <1>1, <2>1
  <2>3. Values(r, V1) = {} /\ Values(r, V2) = {}
    BY <2>2, NoValues
  <2> QED  BY <1>4, <2>3 DEF CheckSigningCertAttr, Lists
<1>5. ASSUME "OmitSigningCertAttr" \notin bent
      PROVE  CheckSigningCertAttr(r, c)
  <2>1. \/ rest = <<v1>> \/ rest = <<v2>> \/ rest = <<v1, v2>> \/ rest = <<all>>
    BY <1>5 DEF Binding, Ess, EssForm
  <2> HIDE DEF v1, v2, all, rest
  <2>2. ASSUME NEW a \in {v2, all}, Values(r, V2) = {a.values}
        PROVE  CheckSigningCertAttr(r, c)
    BY <1>2, <2>2, AlgorithmAssumption DEF CheckSigningCertAttr, Lists
  <2>3. CASE rest = <<v1>>
    <3>1. DOMAIN r.attrs = 1..3 /\ r.attrs[3] = v1
      BY <1>1, <2>3
    <3>2. Values(r, V2) = {}
      <4>1. \A i \in DOMAIN r.attrs : r.attrs[i].type # V2
        <5>1. \A i \in 1..3 : i \in {1, 2} \/ i = 3
          OBVIOUS
        <5> QED  BY <1>1, <1>3, <3>1, <5>1
      <4> QED  BY <4>1, NoValues
    <3>3. Values(r, V1) = {v1.values}
      <4>1. r.attrs[3].type = V1 /\ \A j \in 1..(3 - 1) : r.attrs[j].type # V1
        BY <1>1, <1>3, <3>1
      <4>2. 3 \in DOMAIN r.attrs /\ DOMAIN r.attrs \subseteq Nat \ {0}
        BY <3>1
      <4> QED  BY <3>1, <4>1, <4>2, FirstValues
    <3> QED  BY <1>2, <1>3, <3>2, <3>3 DEF CheckSigningCertAttr, Lists
  <2>4. ASSUME NEW a \in {v2, all}, rest = <<a>>
        PROVE  CheckSigningCertAttr(r, c)
    <3>1. DOMAIN r.attrs = 1..3 /\ r.attrs[3] = a
      BY <1>1, <2>4
    <3>2. Values(r, V2) = {a.values}
      <4>1. r.attrs[3].type = V2 /\ \A j \in 1..(3 - 1) : r.attrs[j].type # V2
        BY <1>1, <1>2, <3>1
      <4>2. 3 \in DOMAIN r.attrs /\ DOMAIN r.attrs \subseteq Nat \ {0}
        BY <3>1
      <4> QED  BY <3>1, <4>1, <4>2, FirstValues
    <3> QED  BY <2>2, <3>2
  <2>5. CASE rest = <<v1, v2>>
    <3>1. DOMAIN r.attrs = 1..4 /\ r.attrs[3] = v1 /\ r.attrs[4] = v2
      BY <1>1, <2>5
    <3>2. Values(r, V2) = {v2.values}
      <4>1. r.attrs[4].type = V2 /\ \A j \in 1..(4 - 1) : r.attrs[j].type # V2
        BY <1>1, <1>2, <1>3, <3>1
      <4>2. 4 \in DOMAIN r.attrs /\ DOMAIN r.attrs \subseteq Nat \ {0}
        BY <3>1
      <4> QED  BY <3>1, <4>1, <4>2, FirstValues
    <3> QED  BY <2>2, <3>2
  <2> QED  BY <2>1, <2>3, <2>4, <2>5
<1> QED  BY <1>4, <1>5

-----------------------------------------------------------------------------
\* A signature that the authority made, and what it vouched for thereby.
Genuine(signature) ==
  \E c \in Cert, info \in Vouchable, form \in EssForm, bent \in SUBSET Defect :
    /\ "CorruptSignature" \notin bent
    /\ signature = Sign(KeyOf[c], "sha256", SignedAttributes(c, info, form, bent))
    /\ bent \subseteq {"Status"} => [info |-> info, cert |-> c] \in issued

\* The inductive invariant.
TokenInv ==
  /\ response = NoResponse => client.pc = "idle"
  /\ response # NoResponse =>
       /\ {"info", "signature"} \subseteq DOMAIN response
       /\ response.info \in Info \cup {NoBytes}
       /\ response.signature = NoSignature \/ Genuine(response.signature)
  /\ AcceptedWasIssued

\* A response whose signature is genuine and that passes every step was issued.
LEMMA PassedWasIssued ==
  ASSUME NEW signer, NEW opts, response.info \in Info \cup {NoBytes},
         response.signature = NoSignature \/ Genuine(response.signature),
         Passed(VerifySteps(response, signer, opts))
  PROVE  [info |-> response.info, cert |-> signer] \in issued
<1> DEFINE r == response
<1>1. /\ AttrIs(r, "contentType", "TSTInfo")
      /\ AttrIs(r, "messageDigest", Hash(r.digestAlg, r.info))
      /\ r.signature = Sign(KeyOf[signer], SignatureHash(r), r.attrs)
      /\ CheckSigningCertAttr(r, signer)
  BY VerifyPasses DEF CmsHolds
<1>2. r.signature # NoSignature
  BY <1>1 DEF Sign, NoSignature
<1>3. PICK c \in Cert, info \in Vouchable, form \in EssForm, bent \in SUBSET Defect :
        /\ "CorruptSignature" \notin bent
        /\ r.signature = Sign(KeyOf[c], "sha256", SignedAttributes(c, info, form, bent))
        /\ bent \subseteq {"Status"} => [info |-> info, cert |-> c] \in issued
  BY <1>2 DEF Genuine
<1>4. r.attrs = SignedAttributes(c, info, form, bent)
  BY <1>1, <1>3 DEF Sign
<1>5. "OtherContent" \notin bent
  <2>1. PICK i \in DOMAIN r.attrs :
          r.attrs[i].type = "contentType" /\ r.attrs[i].values = <<"TSTInfo">>
    BY <1>1 DEF AttrIs, Values
  <2> QED  BY <1>4, <2>1, SignedByType
<1>6. "WrongAttrDigest" \notin bent /\ info = r.info
  <2>1. PICK i \in DOMAIN r.attrs :
          /\ r.attrs[i].type = "messageDigest"
          /\ r.attrs[i].values = <<Hash(r.digestAlg, r.info)>>
    BY <1>1 DEF AttrIs, Values
  <2> DEFINE covered == IF "WrongAttrDigest" \in bent THEN OtherBytes ELSE info
  <2>2. r.attrs[i].values = <<Hash("sha256", covered)>>
    BY <1>4, <2>1, SignedByType
  <2>3. \A y, z : <<y>> = <<z>> => y = z
    OBVIOUS
  <2>4. \A g, h, y, z : <<g, y>> = <<h, z>> => y = z
    OBVIOUS
  <2> HIDE DEF covered
  <2>5. <<Hash(r.digestAlg, r.info)>> = <<Hash("sha256", covered)>>
    BY <2>1, <2>2, Zenon
  <2>6. Hash(r.digestAlg, r.info) = Hash("sha256", covered)
    BY <2>3, <2>5, Zenon
  <2>7. r.info = covered
    BY <2>4, <2>6, Zenon DEF Hash
  <2> QED  BY <2>7, OtherBytesAssumption DEF covered
<1>7. "OmitSigningCertAttr" \notin bent /\ c = signer
  <2>1. \E h, type : type \in {"signingCertificate", "signingCertificateV2"}
                     /\ Lists(r, type, h, signer)
    BY <1>1 DEF CheckSigningCertAttr
  <2>2. PICK i \in DOMAIN r.attrs :
          /\ r.attrs[i].type \in {"signingCertificate", "signingCertificateV2"}
          /\ \E h : r.attrs[i].values[1][1] = Hash(h, signer)
    BY <2>1 DEF Lists, Values
  <2>3. /\ "OmitSigningCertAttr" \notin bent
        /\ \E g \in {"sha1", "sha256"} : r.attrs[i].values[1][1] = Hash(g, c)
    BY <1>4, <2>2, SignedByType
  <2> QED  BY <2>2, <2>3 DEF Hash
<1>8. bent \subseteq {"Status"}
  BY <1>3, <1>5, <1>6, <1>7 DEF Defect
<1> QED  BY <1>3, <1>6, <1>7, <1>8

\* A change of a response makes no signature.
LEMMA BentKeepsSignature ==
  ASSUME {"info", "signature"} \subseteq DOMAIN response,
         response.info \in Info \cup {NoBytes},
         NEW x \in ResponsesBent
  PROVE  /\ {"info", "signature"} \subseteq DOMAIN x
         /\ x.info \in Info \cup {NoBytes}
         /\ x.signature \in {response.signature, NoSignature}
<1> DEFINE r == response
<1>1. PICK f, v :
        /\ x = [r EXCEPT ![f] = v]
        /\ f = "info" => v \in Info \cup {NoBytes}
        /\ f = "signature" => v = NoSignature
  BY DEF ResponsesBent, InfosBent
<1> QED  BY <1>1

\* The invariant holds at first and is kept by every step.
LEMMA TokenInvHolds == TokenSpec => []TokenInv
<1>1. TokenInit => TokenInv
  BY DEF TokenInit, TokenInv, AcceptedWasIssued
<1>2. TokenInv /\ [TokenNext]_tokenVars => TokenInv'
  <2> SUFFICES ASSUME TokenInv, [TokenNext]_tokenVars
               PROVE  TokenInv'
    OBVIOUS
  <2>1. CASE Issue
    <3>1. PICK c \in Cert, info \in Vouchable, form \in EssForm,
               sid \in {"ski", "serial"}, certs \in Chain, bent \in SUBSET Defect :
            /\ response = NoResponse /\ client' = client
            /\ response' = Stamp(c, info, form, sid, certs, bent)
            /\ issued' = IF bent \subseteq {"Status"}
                         THEN {[info |-> info, cert |-> c]} ELSE {}
      BY <2>1 DEF Issue
    <3>2. client'.pc = "idle"
      BY <3>1 DEF TokenInv
    <3>3. /\ {"info", "signature"} \subseteq DOMAIN response'
          /\ response'.info = info
          /\ response'.signature =
               IF "CorruptSignature" \in bent THEN NoSignature
               ELSE Sign(KeyOf[c], "sha256", SignedAttributes(c, info, form, bent))
      BY <3>1 DEF Stamp
    <3>4. response'.signature = NoSignature \/ Genuine(response.signature)'
      BY <3>1, <3>3 DEF Genuine
    <3> QED  BY <3>2, <3>3, <3>4 DEF TokenInv, AcceptedWasIssued, Vouchable
  <2>2. CASE Bend
    <3>1. /\ response # NoResponse /\ client.pc = "idle"
          /\ response' \in ResponsesBent
          /\ issued' = issued /\ client' = client
      BY <2>2 DEF Bend
    <3>2. /\ {"info", "signature"} \subseteq DOMAIN response'
          /\ response'.info \in Info \cup {NoBytes}
          /\ response'.signature \in {response.signature, NoSignature}
      BY <3>1, BentKeepsSignature DEF TokenInv
    <3>3. Genuine(response.signature) /\ response'.signature = response.signature
            => Genuine(response.signature)'
      BY <3>1 DEF Genuine
    <3> QED  BY <3>1, <3>2, <3>3 DEF TokenInv, AcceptedWasIssued
  <2>3. ASSUME NEW opts \in Options, ParseToken(opts)
        PROVE  TokenInv'
    <3>1. /\ response # NoResponse
          /\ response' = response /\ issued' = issued
          /\ client'.pc \in {"parsed", "rejected"}
      BY <2>3 DEF ParseToken
    <3>2. Genuine(response.signature) => Genuine(response.signature)'
      BY <3>1 DEF Genuine
    <3> QED  BY <3>1, <3>2 DEF TokenInv, AcceptedWasIssued
  <2>4. CASE VerifyToken
    <3> DEFINE steps == VerifySteps(response, client.signer, client.opts)
    <3>1. response # NoResponse
      BY <2>4 DEF VerifyToken, TokenInv
    <3>2. /\ response' = response /\ issued' = issued
          /\ client'.pc \in {"accepted", "rejected"}
          /\ client'.pc = "accepted" => Passed(steps) /\ client'.signer = client.signer
      BY <2>4 DEF VerifyToken
    <3>3. AcceptedWasIssued'
      BY <3>1, <3>2, PassedWasIssued DEF TokenInv, AcceptedWasIssued
    <3>4. Genuine(response.signature) => Genuine(response.signature)'
      BY <3>2 DEF Genuine
    <3> QED  BY <3>1, <3>2, <3>3, <3>4 DEF TokenInv
  <2>5. CASE UNCHANGED tokenVars
    BY <2>5 DEF tokenVars, TokenInv, AcceptedWasIssued, Genuine
  <2> QED  BY <2>1, <2>2, <2>3, <2>4, <2>5 DEF TokenNext
<1> QED  BY <1>1, <1>2, PTL DEF TokenSpec

(***************************************************************************)
(* Only what the authority issued is accepted, and only under the          *)
(* certificate it issued it under (ParseToken, Token.Verify).              *)
(***************************************************************************)
THEOREM OnlyIssuedAccepted == TokenSpec => []AcceptedWasIssued
<1>1. TokenInv => AcceptedWasIssued
  BY DEF TokenInv
<1> QED  BY <1>1, TokenInvHolds, PTL

-----------------------------------------------------------------------------
(***************************************************************************)
(* What becomes of a token on its way through the client.                  *)
(***************************************************************************)
\* A token as it was issued fails exactly the steps that its defects are about.
Shows(r, c, info, certs, bent) ==
  /\ Granted(r) <=> "Status" \notin bent
  /\ r.contentType = "signedData" /\ r.eContentType = "TSTInfo"
  /\ r.signers = 1 /\ r.attrs # <<>> /\ r.digestAlg \in HashAlg
  /\ r.certs = certs /\ r.info = info
  /\ AttrIs(r, "contentType", "TSTInfo") <=> "OtherContent" \notin bent
  /\ AttrIs(r, "messageDigest", Hash(r.digestAlg, r.info))
       <=> "WrongAttrDigest" \notin bent
  /\ SignatureHash(r) # OtherAlg
  /\ r.signature = Sign(KeyOf[c], SignatureHash(r), r.attrs)
       <=> "CorruptSignature" \notin bent
  /\ CheckSigningCertAttr(r, c) <=> "OmitSigningCertAttr" \notin bent

LEMMA StampedSteps ==
  ASSUME NEW r, NEW c, NEW info \in Vouchable, NEW form \in EssForm,
         NEW sid, NEW certs, NEW bent,
         r = Stamp(c, info, form, sid, certs, bent)
  PROVE  Shows(r, c, info, certs, bent)
<1> DEFINE a == SignedAttributes(c, info, form, bent)
<1>1. /\ r.status = IF "Status" \in bent THEN "rejection" ELSE "granted"
      /\ r.contentType = "signedData" /\ r.eContentType = "TSTInfo"
      /\ r.signers = 1 /\ r.certs = certs /\ r.info = info /\ r.attrs = a
      /\ r.digestAlg = "sha256" /\ r.signatureAlg = "rsaEncryption"
      /\ r.signature = IF "CorruptSignature" \in bent THEN NoSignature
                       ELSE Sign(KeyOf[c], "sha256", a)
  <2> HIDE DEF a
  <2>1. r = [status |-> IF "Status" \in bent THEN "rejection" ELSE "granted",
       contentType |-> "signedData", eContentType |-> "TSTInfo",
       info |-> info, signers |-> 1, certs |-> certs, sid |-> Sid(sid, c),
       attrs |-> a, digestAlg |-> "sha256",
       signatureAlg |-> "rsaEncryption",
       signature |-> IF "CorruptSignature" \in bent THEN NoSignature
                     ELSE Sign(KeyOf[c], "sha256", a),
       by |-> c, bent |-> bent]
    BY DEF Stamp, a
  <2> QED  BY <2>1
<1>2. AreSigned(r.attrs, c, info, form, bent)
  BY <1>1, SignedAttributesAre
<1> HIDE DEF a
<1>3. /\ r.attrs # <<>> /\ DOMAIN r.attrs \subseteq Nat \ {0} /\ {1, 2} \subseteq DOMAIN r.attrs
      /\ r.attrs[1].type = "contentType" /\ r.attrs[1].values = <<Content(bent)>>
      /\ r.attrs[2].type = "messageDigest"
      /\ r.attrs[2].values = <<Hash("sha256", Covered(info, bent))>>
  <2>1. /\ r.attrs # <<>> /\ r.attrs[1].type = "contentType"
        /\ r.attrs[1].values = <<Content(bent)>>
        /\ r.attrs[2].type = "messageDigest"
        /\ r.attrs[2].values = <<Hash("sha256", Covered(info, bent))>>
    BY <1>2 DEF AreSigned
  <2>2. PICK n \in Nat : DOMAIN r.attrs = 1..(2 + n)
    BY <1>2 DEF AreSigned
  <2>3. DOMAIN r.attrs \subseteq Nat \ {0} /\ {1, 2} \subseteq DOMAIN r.attrs
    BY <2>2
  <2> QED  BY <2>1, <2>3
<1>4. Values(r, "contentType") = {<<Content(bent)>>}
  <2>1. \A j \in 1..(1 - 1) : r.attrs[j].type # "contentType"
    OBVIOUS
  <2>2. /\ 1 \in DOMAIN r.attrs /\ DOMAIN r.attrs \subseteq Nat \ {0}
        /\ r.attrs[1].type = "contentType"
    BY <1>3
  <2>3. Values(r, "contentType") = {r.attrs[1].values}
    BY <2>1, <2>2, FirstValues
  <2> QED  BY <1>3, <2>3
<1>5. Values(r, "messageDigest") = {<<Hash("sha256", Covered(info, bent))>>}
  <2>1. \A j \in 1..(2 - 1) : r.attrs[j].type # "messageDigest"
    BY <1>3
  <2>2. /\ 2 \in DOMAIN r.attrs /\ DOMAIN r.attrs \subseteq Nat \ {0}
        /\ r.attrs[2].type = "messageDigest"
    BY <1>3
  <2>3. Values(r, "messageDigest") = {r.attrs[2].values}
    BY <2>1, <2>2, FirstValues
  <2> QED  BY <1>3, <2>3
<1>6. AttrIs(r, "contentType", "TSTInfo") <=> "OtherContent" \notin bent
  <2>1. \A x, y : <<x>> = <<y>> <=> x = y
    OBVIOUS
  <2>2. Content(bent) = "TSTInfo" <=> "OtherContent" \notin bent
    BY DEF Content
  <2> QED  BY <1>4, <2>1, <2>2, Zenon DEF AttrIs
<1>7. AttrIs(r, "messageDigest", Hash(r.digestAlg, r.info))
        <=> "WrongAttrDigest" \notin bent
  <2>1. \A x, y : <<x>> = <<y>> <=> x = y
    OBVIOUS
  <2>2. \A x, y : Hash("sha256", x) = Hash("sha256", y) <=> x = y
    BY DEF Hash
  <2>3. Covered(info, bent) = info <=> "WrongAttrDigest" \notin bent
    BY OtherBytesAssumption DEF Covered, Vouchable
  <2>4. AttrIs(r, "messageDigest", Hash("sha256", info))
          <=> Hash("sha256", info) = Hash("sha256", Covered(info, bent))
    BY <1>5, <2>1, Zenon DEF AttrIs
  <2>5. r.digestAlg = "sha256" /\ r.info = info
    BY <1>1
  <2> QED  BY <2>2, <2>3, <2>4, <2>5, Zenon
<1>8. SignatureHash(r) = "sha256" /\ "sha256" \in HashAlg
  BY <1>1, AlgorithmAssumption DEF SignatureHash
<1>9. r.signature = Sign(KeyOf[c], SignatureHash(r), r.attrs)
        <=> "CorruptSignature" \notin bent
  <2>1. NoSignature # Sign(KeyOf[c], "sha256", a)
    BY DEF NoSignature, Sign
  <2> QED  BY <1>1, <1>8, <2>1
<1>10. CheckSigningCertAttr(r, c) <=> "OmitSigningCertAttr" \notin bent
  BY <1>1, EssIsChecked DEF a
<1>11. Granted(r) <=> "Status" \notin bent
  BY <1>1 DEF Granted
<1> QED  BY <1>1, <1>3, <1>6, <1>7, <1>8, <1>9, <1>10, <1>11,
            AlgorithmAssumption DEF Shows

\* The verdict on a response, and the step at which it is refused.
Verdict(r, opts) ==
  Passed(ParseSteps(r)) /\ Passed(VerifySteps(r, SignerOf(r), opts))

AtStep(r, opts) ==
  IF Passed(ParseSteps(r)) THEN FirstFailed(VerifySteps(r, SignerOf(r), opts))
  ELSE FirstFailed(ParseSteps(r))

\* The client has reached the verdict on the response that it was given.
ClientInv ==
  /\ client.pc # "idle" => response # NoResponse /\ client.opts \in Options
  /\ client.pc = "parsed" =>
       Passed(ParseSteps(response)) /\ client.signer = SignerOf(response)
  /\ client.pc = "accepted" =>
       /\ Verdict(response, client.opts)
       /\ client.chainVerified = client.opts.roots
  /\ client.pc = "rejected" =>
       /\ ~Verdict(response, client.opts)
       /\ client.at = AtStep(response, client.opts)

\* A response that nobody has changed is what the authority made.
AsStamped ==
  /\ bends \in Nat
  /\ response # NoResponse =>
       "certs" \in DOMAIN response /\ response.certs \in Chain
  /\ response # NoResponse /\ bends = 0 =>
       /\ response.by \in Cert /\ response.info \in Vouchable
       /\ response.bent \subseteq Defect
       /\ \E form \in EssForm, sid \in {"ski", "serial"} :
            response = Stamp(response.by, response.info, form, sid,
                             response.certs, response.bent)
       /\ issued = IF response.bent \subseteq {"Status"}
                   THEN {[info |-> response.info, cert |-> response.by]} ELSE {}

LEMMA ClientStep ==
  ASSUME ClientInv, [TokenNext]_tokenVars
  PROVE  ClientInv'
<1>1. CASE Issue \/ Bend
  <2>1. client.pc = "idle" /\ client' = client
    BY <1>1 DEF Issue, Bend, ClientInv
  <2> QED  BY <2>1 DEF ClientInv
<1>2. ASSUME NEW opts \in Options, ParseToken(opts)
      PROVE  ClientInv'
  <2>1. response # NoResponse /\ response' = response
    BY <1>2 DEF ParseToken
  <2>2. CASE Passed(ParseSteps(response))
    <3>1. client' = [pc |-> "parsed", opts |-> opts, signer |-> SignerOf(response)]
      BY <1>2, <2>2 DEF ParseToken
    <3>2. /\ client'.pc = "parsed" /\ client'.opts = opts
          /\ client'.signer = SignerOf(response)
      BY <3>1
    <3> QED  BY <2>1, <2>2, <3>2 DEF ClientInv
  <2>3. CASE ~Passed(ParseSteps(response))
    <3>1. client' = [pc |-> "rejected", opts |-> opts,
                     at |-> FirstFailed(ParseSteps(response))]
      BY <1>2, <2>3 DEF ParseToken
    <3>2. /\ client'.pc = "rejected" /\ client'.opts = opts
          /\ client'.at = FirstFailed(ParseSteps(response))
      BY <3>1
    <3> QED  BY <2>1, <2>3, <3>2 DEF ClientInv, Verdict, AtStep
  <2> QED  BY <2>2, <2>3
<1>3. CASE VerifyToken
  <2> DEFINE steps == VerifySteps(response, client.signer, client.opts)
  <2>1. /\ response # NoResponse /\ response' = response /\ client.opts \in Options
        /\ Passed(ParseSteps(response)) /\ client.signer = SignerOf(response)
    BY <1>3 DEF VerifyToken, ClientInv
  <2>2. CASE Passed(steps)
    <3>1. client' = [pc |-> "accepted", opts |-> client.opts, signer |-> client.signer,
                     chainVerified |-> client.opts.roots]
      BY <1>3, <2>2 DEF VerifyToken
    <3>2. /\ client'.pc = "accepted" /\ client'.opts = client.opts
          /\ client'.chainVerified = client.opts.roots
      BY <3>1
    <3>3. Verdict(response, client'.opts)
      BY <2>1, <2>2, <3>2 DEF Verdict
    <3> QED  BY <2>1, <3>2, <3>3 DEF ClientInv, Verdict
  <2>3. CASE ~Passed(steps)
    <3>1. client' = [pc |-> "rejected", opts |-> client.opts, at |-> FirstFailed(steps)]
      BY <1>3, <2>3 DEF VerifyToken
    <3>2. /\ client'.pc = "rejected" /\ client'.opts = client.opts
          /\ client'.at = FirstFailed(steps)
      BY <3>1
    <3>3. ~Verdict(response, client'.opts) /\ client'.at = AtStep(response, client'.opts)
      BY <2>1, <2>3, <3>2 DEF Verdict, AtStep
    <3> QED  BY <2>1, <3>2, <3>3 DEF ClientInv, Verdict, AtStep
  <2> QED  BY <2>2, <2>3
<1>4. CASE UNCHANGED tokenVars
  BY <1>4 DEF tokenVars, ClientInv, Verdict, AtStep
<1> QED  BY <1>1, <1>2, <1>3, <1>4 DEF TokenNext

LEMMA StampedStep ==
  ASSUME AsStamped, [TokenNext]_tokenVars
  PROVE  AsStamped'
<1>1. CASE Issue
  <2>1. PICK c \in Cert, info \in Vouchable, form \in EssForm,
             sid \in {"ski", "serial"}, certs \in Chain, bent \in SUBSET Defect :
          /\ response' = Stamp(c, info, form, sid, certs, bent) /\ bends' = bends
          /\ issued' = IF bent \subseteq {"Status"}
                       THEN {[info |-> info, cert |-> c]} ELSE {}
    BY <1>1 DEF Issue
  <2>2. /\ response'.by = c /\ response'.info = info /\ response'.certs = certs
        /\ response'.bent = bent /\ "certs" \in DOMAIN response'
    BY <2>1 DEF Stamp
  <2> QED  BY <2>1, <2>2 DEF AsStamped
<1>2. CASE Bend
  <2>1. /\ response # NoResponse /\ response' \in ResponsesBent /\ bends' = bends + 1
    BY <1>2 DEF Bend
  <2>2. PICK f, v : response' = [response EXCEPT ![f] = v]
                    /\ (f = "certs" => v \in Chain)
    BY <2>1 DEF ResponsesBent
  <2>3. "certs" \in DOMAIN response' /\ response'.certs \in Chain
    BY <2>1, <2>2 DEF AsStamped
  <2> QED  BY <2>1, <2>3 DEF AsStamped
<1>3. CASE UNCHANGED <<response, issued, bends>>
  BY <1>3 DEF AsStamped
<1>4. (\E opts \in Options : ParseToken(opts)) \/ VerifyToken \/ UNCHANGED tokenVars
        => UNCHANGED <<response, issued, bends>>
  BY DEF ParseToken, VerifyToken, tokenVars
<1> QED  BY <1>1, <1>2, <1>3, <1>4 DEF TokenNext

LEMMA ClientInvHolds == TokenSpec => [](ClientInv /\ AsStamped)
<1>1. TokenInit => ClientInv /\ AsStamped
  BY DEF TokenInit, ClientInv, AsStamped
<1>2. ClientInv /\ AsStamped /\ [TokenNext]_tokenVars => ClientInv' /\ AsStamped'
  BY ClientStep, StampedStep
<1> QED  BY <1>1, <1>2, PTL DEF TokenSpec

\* The verdict on a token as it was issued, named by what it is signed under.
LEMMA StampedVerdict ==
  ASSUME AsStamped, response # NoResponse, bends = 0, NamedFirst(response.by),
         NEW opts
  PROVE  LET r == response
             c == response.by
             v == VerifySteps(response, SignerOf(response), opts)
         IN  /\ SignerOf(r) = c /\ c \in Cert /\ r.info \in Vouchable
             /\ Passed(ParseSteps(r)) <=> "Status" \notin r.bent
             /\ "Status" \in r.bent => FirstFailed(ParseSteps(r)) = "status"
             /\ v[1].ok <=> opts.digest # NoDigest
             /\ v[2].ok <=> "OtherContent" \notin r.bent
             /\ v[3].ok <=> "WrongAttrDigest" \notin r.bent
             /\ v[4].ok
             /\ v[5].ok <=> "CorruptSignature" \notin r.bent
             /\ v[6].ok <=> "OmitSigningCertAttr" \notin r.bent
             /\ r.bent = {} => (CmsHolds(r, c) <=> CheckTimestampingEKU(c))
<1> DEFINE r == response
           c == response.by
           v == VerifySteps(r, SignerOf(r), opts)
<1>1. PICK form \in EssForm, sid \in {"ski", "serial"} :
        r = Stamp(c, r.info, form, sid, r.certs, r.bent)
  BY DEF AsStamped
<1>2. c \in Cert /\ r.info \in Vouchable /\ r.certs \in Chain
  BY DEF AsStamped
<1>3. PICK i \in DOMAIN r.certs : r.certs[i] = c /\ IsSignerAt(r, i)
  BY DEF NamedFirst
<1>4. SignerOf(r) = c
  BY <1>2, <1>3, SignerIsFirst
<1>5. /\ Granted(r) <=> "Status" \notin r.bent
      /\ r.contentType = "signedData" /\ r.eContentType = "TSTInfo"
      /\ r.signers = 1 /\ r.attrs # <<>> /\ r.digestAlg \in HashAlg
      /\ AttrIs(r, "contentType", "TSTInfo") <=> "OtherContent" \notin r.bent
      /\ AttrIs(r, "messageDigest", Hash(r.digestAlg, r.info))
           <=> "WrongAttrDigest" \notin r.bent
      /\ SignatureHash(r) # OtherAlg
      /\ r.signature = Sign(KeyOf[c], SignatureHash(r), r.attrs)
           <=> "CorruptSignature" \notin r.bent
      /\ CheckSigningCertAttr(r, c) <=> "OmitSigningCertAttr" \notin r.bent
  <2>1. Shows(r, c, r.info, r.certs, r.bent)
    BY <1>1, <1>2, StampedSteps
  <2> QED  BY <2>1 DEF Shows
<1>6. /\ r.info # NoBytes /\ r.info.version = 1 /\ r.info.genTime # BadTime
      /\ r.info.alg \in HashAlg
  BY <1>2, AlgorithmAssumption, OtherBytesAssumption DEF Vouchable
<1>7. r.certs # <<>>
  BY <1>3
<1>8. "Status" \notin r.bent => Passed(ParseSteps(r))
  BY <1>3, <1>5, <1>6, <1>7, ParsePasses
<1>9. "Status" \in r.bent =>
        ~Passed(ParseSteps(r)) /\ FirstFailed(ParseSteps(r)) = "status"
  <2> DEFINE p == ParseSteps(r)
  <2>1. DOMAIN p = 1..10 /\ p[1].name = "status" /\ (p[1].ok <=> Granted(r))
    BY ParseStepsAre, Zenon
  <2> HIDE DEF p, r
  <2>2. 1 \in 1..10 /\ 10 \in Nat /\ \A j \in 1..(1 - 1) : p[j].ok
    OBVIOUS
  <2>3. ~p[1].ok => ~Passed(p) /\ FirstFailed(p) = p[1].name
    BY <2>1, <2>2, FirstFails
  <2> QED  BY <1>5, <2>1, <2>3, Zenon DEF p
<1>10. /\ v[1].ok <=> opts.digest # NoDigest
       /\ v[2].ok <=> AttrIs(r, "contentType", "TSTInfo")
       /\ v[3].ok <=> AttrIs(r, "messageDigest", Hash(r.digestAlg, r.info))
       /\ v[4].ok <=> SignatureHash(r) # OtherAlg
       /\ v[5].ok <=> r.signature = Sign(KeyOf[c], SignatureHash(r), r.attrs)
       /\ v[6].ok <=> CheckSigningCertAttr(r, c)
  <2>1. VerifyChecks(v, r, SignerOf(r), opts)
    BY VerifyStepsAre
  <2> HIDE DEF v
  <2> QED  BY <1>4, <2>1 DEF VerifyChecks
<1>11. r.bent = {} => (CmsHolds(r, c) <=> CheckTimestampingEKU(c))
  BY <1>5, <1>6 DEF CmsHolds
<1> QED  BY <1>2, <1>4, <1>5, <1>8, <1>9, <1>10, <1>11, Zenon

(***************************************************************************)
(* A defective token is refused, for the first of its defects (Stamp of    *)
(* tsatest; ParseToken, Token.Verify).                                     *)
(***************************************************************************)
THEOREM DefectsNamed == TokenSpec => []DefectIsNamed
<1>1. ASSUME ClientInv, AsStamped
      PROVE  DefectIsNamed
  <2> SUFFICES ASSUME response # NoResponse, bends = 0, Judged,
                      response.bent # {}, NamedFirst(response.by),
                      client.opts.digest # NoDigest
               PROVE  /\ client.pc = "rejected"
                      /\ \E i \in DOMAIN ShowsAt :
                           /\ ShowsAt[i][1] \in response.bent
                           /\ client.at = ShowsAt[i][2]
                           /\ \A j \in 1..(i - 1) : ShowsAt[j][1] \notin response.bent
    BY DEF DefectIsNamed
  <2> DEFINE bent == response.bent
             p == ParseSteps(response)
             v == VerifySteps(response, SignerOf(response), client.opts)
             Failing == [i \in 1..5 |-> ShowsAt[i][1]]
             At == [i \in 1..5 |-> ShowsAt[i][2]]
  <2>1. /\ Passed(p) <=> "Status" \notin bent
        /\ "Status" \in bent => FirstFailed(p) = "status"
        /\ v[1].ok
        /\ v[2].ok <=> "OtherContent" \notin bent
        /\ v[3].ok <=> "WrongAttrDigest" \notin bent
        /\ v[4].ok
        /\ v[5].ok <=> "CorruptSignature" \notin bent
        /\ v[6].ok <=> "OmitSigningCertAttr" \notin bent
    BY <1>1, StampedVerdict
  <2>2. /\ DOMAIN v = 1..11
        /\ v[2].name = "content type attribute" /\ v[3].name = "message digest"
        /\ v[5].name = "signature" /\ v[6].name = "signing certificate"
    <3>1. VerifyNames(v)
      BY VerifyStepsAre
    <3> HIDE DEF v
    <3> QED  BY <3>1 DEF VerifyNames
  <2>3. bent \subseteq Defect /\ bent # {}
    BY <1>1 DEF AsStamped
  <2>4. DOMAIN ShowsAt = 1..5
    BY DEF ShowsAt
  <2>5. /\ Failing[1] = "Status" /\ Failing[2] = "OtherContent"
        /\ Failing[3] = "WrongAttrDigest" /\ Failing[4] = "CorruptSignature"
        /\ Failing[5] = "OmitSigningCertAttr"
        /\ At[1] = "status" /\ At[2] = "content type attribute"
        /\ At[3] = "message digest" /\ At[4] = "signature"
        /\ At[5] = "signing certificate"
    <3>1. /\ ShowsAt[1][1] = "Status" /\ ShowsAt[1][2] = "status"
          /\ ShowsAt[2][1] = "OtherContent" /\ ShowsAt[2][2] = "content type attribute"
          /\ ShowsAt[3][1] = "WrongAttrDigest" /\ ShowsAt[3][2] = "message digest"
          /\ ShowsAt[4][1] = "CorruptSignature" /\ ShowsAt[4][2] = "signature"
          /\ ShowsAt[5][1] = "OmitSigningCertAttr" /\ ShowsAt[5][2] = "signing certificate"
      BY DEF ShowsAt
    <3>2. \A i \in 1..5 : Failing[i] = ShowsAt[i][1] /\ At[i] = ShowsAt[i][2]
      OBVIOUS
    <3> HIDE DEF Failing, At
    <3>3. 1 \in 1..5 /\ 2 \in 1..5 /\ 3 \in 1..5 /\ 4 \in 1..5 /\ 5 \in 1..5
      OBVIOUS
    <3> QED  BY <3>1, <3>2, <3>3, Zenon
  <2>6. ASSUME NEW i \in 1..5, Failing[i] \in bent,
               \A j \in 1..(i - 1) : Failing[j] \notin bent,
               ~Verdict(response, client.opts),
               AtStep(response, client.opts) = At[i]
        PROVE  /\ client.pc = "rejected"
               /\ \E k \in DOMAIN ShowsAt :
                    /\ ShowsAt[k][1] \in response.bent
                    /\ client.at = ShowsAt[k][2]
                    /\ \A j \in 1..(k - 1) : ShowsAt[j][1] \notin response.bent
    <3>1. client.pc = "rejected" /\ client.at = At[i]
      BY <1>1, <2>6 DEF ClientInv, Judged
    <3>2. \A j \in 1..(i - 1) : j \in 1..5
      OBVIOUS
    <3>3. \A j \in 1..5 : Failing[j] = ShowsAt[j][1] /\ At[j] = ShowsAt[j][2]
      OBVIOUS
    <3> HIDE DEF Failing, At
    <3> QED  BY <2>4, <2>6, <3>1, <3>2, <3>3
  <2> HIDE DEF bent, p, v, Failing, At
  <2>7. CASE "Status" \in bent
    <3>1. AtStep(response, client.opts) = At[1] /\ ~Verdict(response, client.opts)
      BY <2>1, <2>5, <2>7 DEF Verdict, AtStep, p
    <3>2. 1 \in 1..5 /\ \A j \in 1..(1 - 1) : Failing[j] \notin bent
      OBVIOUS
    <3> QED  BY <2>5, <2>6, <2>7, <3>1, <3>2
  <2>8. CASE /\ "OtherContent" \in bent
             /\ "Status" \notin bent
    <3>1. 2 \in 1..11 /\ 11 \in Nat /\ ~v[2].ok /\ \A j \in 1..(2 - 1) : v[j].ok
      BY <2>1, <2>8
    <3>2. ~Passed(v) /\ FirstFailed(v) = At[2]
      BY <2>2, <2>5, <3>1, FirstFails
    <3>3. AtStep(response, client.opts) = At[2] /\ ~Verdict(response, client.opts)
      BY <2>1, <2>8, <3>2 DEF Verdict, AtStep, p, v
    <3>4. /\ 2 \in 1..5 /\ Failing[2] \in bent
          /\ \A j \in 1..(2 - 1) : Failing[j] \notin bent
      <4>1. \A j \in 1..(2 - 1) : j = 1
        OBVIOUS
      <4>2. 2 \in 1..5
        OBVIOUS
      <4>3. \A j \in 1..(2 - 1) : Failing[j] \notin bent
        BY <2>5, <2>8, <4>1
      <4> QED  BY <2>5, <2>8, <4>2, <4>3
    <3> QED  BY <2>6, <3>3, <3>4
  <2>9. CASE /\ "WrongAttrDigest" \in bent
             /\ "Status" \notin bent
             /\ "OtherContent" \notin bent
    <3>1. 3 \in 1..11 /\ 11 \in Nat /\ ~v[3].ok /\ \A j \in 1..(3 - 1) : v[j].ok
      BY <2>1, <2>9
    <3>2. ~Passed(v) /\ FirstFailed(v) = At[3]
      BY <2>2, <2>5, <3>1, FirstFails
    <3>3. AtStep(response, client.opts) = At[3] /\ ~Verdict(response, client.opts)
      BY <2>1, <2>9, <3>2 DEF Verdict, AtStep, p, v
    <3>4. /\ 3 \in 1..5 /\ Failing[3] \in bent
          /\ \A j \in 1..(3 - 1) : Failing[j] \notin bent
      <4>1. \A j \in 1..(3 - 1) : j = 1 \/ j = 2
        OBVIOUS
      <4>2. 3 \in 1..5
        OBVIOUS
      <4>3. \A j \in 1..(3 - 1) : Failing[j] \notin bent
        BY <2>5, <2>9, <4>1
      <4> QED  BY <2>5, <2>9, <4>2, <4>3
    <3> QED  BY <2>6, <3>3, <3>4
  <2>10. CASE /\ "CorruptSignature" \in bent
              /\ "Status" \notin bent
              /\ "OtherContent" \notin bent
              /\ "WrongAttrDigest" \notin bent
    <3>1. 5 \in 1..11 /\ 11 \in Nat /\ ~v[5].ok /\ \A j \in 1..(5 - 1) : v[j].ok
      BY <2>1, <2>10
    <3>2. ~Passed(v) /\ FirstFailed(v) = At[4]
      BY <2>2, <2>5, <3>1, FirstFails
    <3>3. AtStep(response, client.opts) = At[4] /\ ~Verdict(response, client.opts)
      BY <2>1, <2>10, <3>2 DEF Verdict, AtStep, p, v
    <3>4. /\ 4 \in 1..5 /\ Failing[4] \in bent
          /\ \A j \in 1..(4 - 1) : Failing[j] \notin bent
      <4>1. \A j \in 1..(4 - 1) : j = 1 \/ j = 2 \/ j = 3
        OBVIOUS
      <4>2. 4 \in 1..5
        OBVIOUS
      <4>3. \A j \in 1..(4 - 1) : Failing[j] \notin bent
        BY <2>5, <2>10, <4>1
      <4> QED  BY <2>5, <2>10, <4>2, <4>3
    <3> QED  BY <2>6, <3>3, <3>4
  <2>11. CASE /\ "OmitSigningCertAttr" \in bent
              /\ "Status" \notin bent
              /\ "OtherContent" \notin bent
              /\ "WrongAttrDigest" \notin bent
              /\ "CorruptSignature" \notin bent
    <3>1. 6 \in 1..11 /\ 11 \in Nat /\ ~v[6].ok /\ \A j \in 1..(6 - 1) : v[j].ok
      BY <2>1, <2>11
    <3>2. ~Passed(v) /\ FirstFailed(v) = At[5]
      BY <2>2, <2>5, <3>1, FirstFails
    <3>3. AtStep(response, client.opts) = At[5] /\ ~Verdict(response, client.opts)
      BY <2>1, <2>11, <3>2 DEF Verdict, AtStep, p, v
    <3>4. /\ 5 \in 1..5 /\ Failing[5] \in bent
          /\ \A j \in 1..(5 - 1) : Failing[j] \notin bent
      <4>1. \A j \in 1..(5 - 1) : j = 1 \/ j = 2 \/ j = 3 \/ j = 4
        OBVIOUS
      <4>2. 5 \in 1..5
        OBVIOUS
      <4>3. \A j \in 1..(5 - 1) : Failing[j] \notin bent
        BY <2>5, <2>11, <4>1
      <4> QED  BY <2>5, <2>11, <4>2, <4>3
    <3> QED  BY <2>6, <3>3, <3>4
  <2> QED  BY <2>3, <2>7, <2>8, <2>9, <2>10, <2>11 DEF Defect
<1> QED  BY <1>1, ClientInvHolds, PTL

(***************************************************************************)
(* An intact token is accepted exactly when its certificate is the first   *)
(* embedded that fits its identifier, it is over what was asked for, and   *)
(* its certificate is good for it (ParseToken, Token.Verify).              *)
(***************************************************************************)
THEOREM IntactJudged == TokenSpec => []IntactIsJudgedRight
<1>1. ASSUME TokenInv, ClientInv, AsStamped
      PROVE  IntactIsJudgedRight
  <2> SUFFICES ASSUME NEW q \in issued, bends = 0, response.bent = {}, Judged
               PROVE  client.pc = "accepted" <=>
                        /\ NamedFirst(q.cert)
                        /\ q.cert \in TsaCert
                        /\ q.info.hashed = client.opts.digest
                        /\ client.opts.nonce \in {q.info.nonce, NoNonce}
                        /\ ValidAt(q.cert, q.info.genTime)
                        /\ client.opts.roots =>
                             Chains(response, q.cert, q.info.genTime)
    BY DEF IntactIsJudgedRight
  <2> DEFINE r == response
             c == response.by
             opts == client.opts
             v == VerifySteps(r, SignerOf(r), opts)
  <2>1. r # NoResponse
    BY <1>1 DEF Judged, ClientInv
  <2>2. /\ q.cert = c /\ q.info = r.info /\ r.info \in Vouchable /\ r.certs \in Chain
        /\ issued = {[info |-> r.info, cert |-> c]}
    BY <1>1, <2>1 DEF AsStamped
  <2>3. NamedFirst(c) =>
          /\ SignerOf(r) = c
          /\ Passed(ParseSteps(r))
          /\ CmsHolds(r, c) <=> CheckTimestampingEKU(c)
    BY <1>1, <2>1, StampedVerdict
  <2>4. NamedFirst(c) =>
         (Passed(v) <=>
          /\ opts.digest # NoDigest
          /\ CmsHolds(r, c)
          /\ r.info.hashed = opts.digest
          /\ NonceMatches(r, opts)
          /\ ValidAt(c, r.info.genTime)
          /\ opts.roots => Chains(r, c, r.info.genTime))
    BY <2>3, VerifyPasses, Zenon
  <2>5. client.pc = "accepted" <=> Passed(ParseSteps(r)) /\ Passed(v)
    BY <1>1 DEF ClientInv, Verdict, Judged
  \* Another certificate found in its place is not the one that was signed.
  <2>6. ASSUME Passed(ParseSteps(r)), Passed(v)
        PROVE  NamedFirst(c)
    <3>1. [info |-> r.info, cert |-> SignerOf(r)] \in issued
      BY <1>1, <2>1, <2>6, PassedWasIssued DEF TokenInv
    <3>2. SignerOf(r) = c
      BY <2>2, <3>1
    <3>3. PICK i \in DOMAIN r.certs : IsSignerAt(r, i)
      BY <2>6, ParsedSigner
    <3>4. SignerOf(r) = r.certs[i]
      BY <2>2, <3>3, SignerIsFirst
    <3> QED  BY <3>2, <3>3, <3>4 DEF NamedFirst
  <2>7. NonceMatches(r, opts) <=> opts.nonce \in {r.info.nonce, NoNonce}
    BY DEF NonceMatches
  <2>8. CheckTimestampingEKU(c) <=> c \in TsaCert
    BY DEF CheckTimestampingEKU
  <2>9. r.info.hashed = opts.digest => opts.digest # NoDigest
    BY <2>2, AlgorithmAssumption DEF Vouchable, Info
  <2> HIDE DEF v
  <2> QED  BY <2>2, <2>3, <2>4, <2>5, <2>6, <2>7, <2>8, <2>9
<1> QED  BY <1>1, TokenInvHolds, ClientInvHolds, PTL

(***************************************************************************)
(* The token of the commands has the verdict of the token of this module   *)
(* (Token.Verify; Rfc3161!TokenVerifies).                                  *)
(***************************************************************************)
THEOREM PlainJudgement == TokenSpec => []JudgedAsPlain
<1>1. ASSUME TokenInv, ClientInv, AsStamped
      PROVE  JudgedAsPlain
  <2> SUFFICES ASSUME Judged
               PROVE  /\ client.pc = "accepted" <=>
                           /\ Passed(ParseSteps(response))
                           /\ R!TokenVerifies(Plain(response), client.opts.digest,
                                {client.opts.nonce} \ {NoNonce}, client.opts.roots)
                      /\ client.pc = "accepted" =>
                           (client.chainVerified <=>
                              R!ChainVerified(Plain(response), client.opts.roots))
    BY DEF JudgedAsPlain
  <2> DEFINE r == response
             c == SignerOf(r)
             opts == client.opts
             v == VerifySteps(r, c, opts)
             t == Plain(r)
  <2>1. /\ r # NoResponse /\ opts \in Options /\ r.certs \in Chain
        /\ opts.roots \in BOOLEAN
    BY <1>1, ClientAssumption DEF ClientInv, AsStamped, Judged
  <2>2. Passed(ParseSteps(r)) => c \in Cert /\ r.info \in Info
    <3>1. Passed(ParseSteps(r)) =>
            r.info # NoBytes /\ \E i \in DOMAIN r.certs : IsSignerAt(r, i)
      BY ParsedSigner
    <3> QED  BY <1>1, <2>1, <3>1, SignerIsFirst DEF TokenInv
  <2>3. ASSUME c \in Cert, r.info \in Info
        PROVE  /\ R!TokenVerifies(t, opts.digest, {opts.nonce} \ {NoNonce}, opts.roots)
                    <=> Passed(v)
               /\ R!ChainVerified(t, opts.roots)
                    <=> opts.roots /\ Chains(r, c, r.info.genTime)
    <3>1. /\ t.imprint = r.info.hashed /\ t.nonce = r.info.nonce
          /\ t.genTime = r.info.genTime /\ t.cms = CmsHolds(r, c)
          /\ t.signer = [cert |-> c, chains |-> Chains(r, c, r.info.genTime)]
      BY Zenon DEF Plain
    <3> DEFINE chains == Chains(r, c, r.info.genTime)
    <3>2. chains \in BOOLEAN
      BY DEF Chains
    <3> HIDE DEF t, chains, c
    <3>3. t.signer.cert = c /\ t.signer.chains = chains /\ t.signer \in PlainSigner
      BY <2>3, <3>1, <3>2 DEF PlainSigner, chains
    <3>4. R!ValidAtGenTime(t) <=> ValidAt(c, r.info.genTime)
      BY <3>1, <3>3 DEF R!ValidAtGenTime, ValidAt
    <3>5. R!ChainVerified(t, opts.roots) <=> opts.roots /\ chains
      BY <3>3 DEF R!ChainVerified
    <3>6. LET asked == {opts.nonce} \ {NoNonce}
          IN  (asked # {} => t.nonce \in asked) <=> NonceMatches(r, opts)
      BY <3>1 DEF NonceMatches
    <3>7. /\ t.cms <=> CmsHolds(r, c)
          /\ t.imprint = opts.digest <=> r.info.hashed = opts.digest
      BY <3>1
    <3>8. R!TokenVerifies(t, opts.digest, {opts.nonce} \ {NoNonce}, opts.roots)
            <=> /\ CmsHolds(r, c)
                /\ r.info.hashed = opts.digest
                /\ NonceMatches(r, opts)
                /\ ValidAt(c, r.info.genTime)
                /\ opts.roots => chains
      BY <3>4, <3>5, <3>6, <3>7, Zenon DEF R!TokenVerifies
    <3>9. r.info.hashed = opts.digest => opts.digest # NoDigest
      BY <2>3, AlgorithmAssumption DEF Info
    <3> QED  BY <3>5, <3>8, <3>9, VerifyPasses, Zenon DEF chains
  <2>4. client.pc = "accepted" <=> Passed(ParseSteps(r)) /\ Passed(v)
    BY <1>1 DEF ClientInv, Verdict, Judged
  <2>5. client.pc = "accepted" => client.chainVerified = opts.roots
    BY <1>1 DEF ClientInv
  <2>6. Passed(v) /\ opts.roots => Chains(r, c, r.info.genTime)
    BY VerifyPasses, Zenon
  <2> HIDE DEF v, t
  <2> QED  BY <2>1, <2>2, <2>3, <2>4, <2>5, <2>6 DEF v, t
<1> QED  BY <1>1, TokenInvHolds, ClientInvHolds, PTL
=============================================================================
