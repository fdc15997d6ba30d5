------------------------------- MODULE MCToken ------------------------------
(* Small instances of TimeStampToken, with the view of it in Rfc3161, for TLC. *)
EXTENDS PlainToken

CONSTANTS ca, mid, old, new, plain,   \* certificates
          d, e                        \* digests

\* new renews old: the same key, the next period, and another issuer, mid.
\* plain has that key as well, was issued by nobody, and is for anything.
MCKeyOf == [c \in Cert |-> CASE c = ca -> 0 [] c = mid -> 1 [] OTHER -> 2]

MCSerialOf ==
  [c \in Cert |->
     CASE c = ca -> 0 [] c = mid -> 1 [] c = old -> 2 [] c = new -> 3 [] c = plain -> 4]

MCIssuerOf ==
  [c \in Cert |->
     CASE c \in {mid, old, ca} -> ca [] c = new -> mid [] c = plain -> plain]

MCNotBefore == [c \in Cert |-> IF c = new THEN 1 ELSE 0]
MCNotAfter == [c \in Cert |-> IF c = old THEN 0 ELSE 1]

Asked ==
  [digest : {d}, nonce : {1, NoNonce}, roots : BOOLEAN]
  \cup {[digest |-> NoDigest, nonce |-> NoNonce, roots |-> FALSE]}
=============================================================================
