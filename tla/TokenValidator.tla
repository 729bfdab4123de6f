--------------------------- MODULE TokenValidator ---------------------------
(***************************************************************************)
(* auth: what becomes of a request on its way through BearerAuth and       *)
(* Authorize (bearer.go, auth.go), the JWT validation between them (jwt.go)*)
(* and the key sets it verifies against (jwtkeys.go).  Parsing, base64 and *)
(* cryptography are abstract: a signature is the key and the algorithm it  *)
(* was made with, and a JSON value is tagged with its type.                *)
(***************************************************************************)
EXTENDS Integers, Sequences, SequencesExt

Missing == [type |-> "missing"]
Text(words) == [type |-> "string", words |-> words]
Number(n) == [type |-> "number", number |-> n]
Array(items) == [type |-> "array", items |-> items]

\* The string items of an array claim, the rest is ignored.
Strings(items) == {v.words : v \in {w \in ToSet(items) : w.type = "string"}}

-----------------------------------------------------------------------------
\* algProperties
Family == [HS256 |-> "HMAC", HS384 |-> "HMAC", HS512 |-> "HMAC",
           RS256 |-> "RSA", RS384 |-> "RSA", RS512 |-> "RSA",
           ES256 |-> "ECDSA", ES384 |-> "ECDSA", ES512 |-> "ECDSA"]

\* NewValidator panics on a policy that would trust anything.
PolicyIsUsable(policy) ==
  /\ policy.algs # {} /\ policy.issuers # {} /\ policy.audiences # {}
  /\ policy.algs \subseteq DOMAIN Family

\* toVerificationKey: skipped, malformed, or a key of a family.  Too short a modulus, an
\* implausible exponent, an unknown curve and a point off its curve are all malformed.
FamilyOf(jwk) == IF jwk.kty = "RSA" THEN "RSA" ELSE "ECDSA"
IsSkipped(jwk) == jwk.use = "enc" \/ jwk.kty \notin {"RSA", "EC"}
VerificationKey(jwk) == [family |-> FamilyOf(jwk), name |-> jwk.name]

\* Wrong variant: a key with no use for signatures fails the set like a malformed one.
ParseJWKSetStrict(jwks) ==
  IF \E i \in 1..Len(jwks) : IsSkipped(jwks[i]) \/ ~jwks[i].wellFormed
  THEN [ok |-> FALSE, keys |-> {}]
  ELSE [ok |-> TRUE, keys |-> {[kid |-> jwks[i].kid, key |-> VerificationKey(jwks[i])] : i \in 1..Len(jwks)}]

\* parseJWKSet: keys that are not for signatures are skipped, one malformed fails the set.
ParseJWKSet(jwks) ==
  LET usable == {i \in 1..Len(jwks) : ~IsSkipped(jwks[i])}
  IN IF \E i \in usable : ~jwks[i].wellFormed
     THEN [ok |-> FALSE, keys |-> {}]
     ELSE [ok |-> TRUE, keys |-> {[kid |-> jwks[i].kid, key |-> VerificationKey(jwks[i])] : i \in usable}]

\* The candidates for a kid: the keys that carry it and the keyless ones.
ResolveKeys(keys, kid) == {k.key : k \in {e \in keys : e.kid = "" \/ (kid # "" /\ e.kid = kid)}}

\* verify, by a key of the algorithm's family
Verifies(token, key) == token.signature = [key |-> key.name, alg |-> token.alg]

\* Wrong variant: a key of another family is tried as well and found not to match.
VerifyAnyAllFamilies(token, candidates) ==
  IF \E k \in candidates : Verifies(token, k) THEN "ok" ELSE "signature invalid"

\* verifyAny: keys of another family are no candidates.
VerifyAny(token, candidates) ==
  LET right == {k \in candidates : k.family = Family[token.alg]}
  IN IF right = {} THEN "no key"
     ELSE IF \E k \in right : Verifies(token, k) THEN "ok" ELSE "signature invalid"

-----------------------------------------------------------------------------
IsDate(v) == v.type = "number"

\* Wrong variant: the tolerance works against a token that was issued just now.
TooEarlyStrict(claim, now, skew) == IsDate(claim) /\ now + skew <= claim.number

\* nbf and iat: not before, with the tolerated skew
TooEarly(claim, now, skew) == IsDate(claim) /\ now < claim.number - skew

\* audiences
Audiences(aud) ==
  IF aud.type = "string" THEN {aud.words}
  ELSE IF aud.type = "array" THEN Strings(aud.items) ELSE {}

\* Wrong variant: an expiration that is present but is no date is held against nobody.
ClaimsVerdictLenient(policy, c, now) ==
  IF policy.requireExp /\ c.exp = Missing THEN "no expiration"
  ELSE IF IsDate(c.exp) /\ now > c.exp.number + policy.skew THEN "expired"
  ELSE IF TooEarly(c.nbf, now, policy.skew) THEN "not yet valid"
  ELSE IF TooEarly(c.iat, now, policy.skew) THEN "issued in the future"
  ELSE IF ~(c.iss.type = "string" /\ c.iss.words \in policy.issuers) THEN "issuer"
  ELSE IF Audiences(c.aud) \cap policy.audiences = {} THEN "audience"
  ELSE "ok"

\* validateClaims, in its order
ClaimsVerdict(policy, c, now) ==
  IF policy.requireExp /\ ~IsDate(c.exp) THEN "no expiration"
  ELSE IF IsDate(c.exp) /\ now > c.exp.number + policy.skew THEN "expired"
  ELSE IF TooEarly(c.nbf, now, policy.skew) THEN "not yet valid"
  ELSE IF TooEarly(c.iat, now, policy.skew) THEN "issued in the future"
  ELSE IF ~(c.iss.type = "string" /\ c.iss.words \in policy.issuers) THEN "issuer"
  ELSE IF Audiences(c.aud) \cap policy.audiences = {} THEN "audience"
  ELSE "ok"

\* Validate: parse, critical extensions, the allowlist before any key, the signature
\* before any claim.
Validate(policy, keys, token, now) ==
  IF ~token.wellFormed THEN "malformed"
  ELSE IF token.crit THEN "critical extension"
  ELSE IF token.alg \notin policy.algs THEN "algorithm"
  ELSE LET candidates == ResolveKeys(keys, token.kid)
           signature == IF candidates = {} THEN "no key" ELSE VerifyAny(token, candidates)
       IN IF signature # "ok" THEN signature ELSE ClaimsVerdict(policy, token.claims, now)

-----------------------------------------------------------------------------
\* stringOrArray: the words of a string one by one, or the string items of an array
Words(claim) ==
  IF claim.type = "string" THEN {<<w>> : w \in ToSet(claim.words)}
  ELSE IF claim.type = "array" THEN Strings(claim.items) ELSE {}

\* Wrong variant: scp is read only where scope is missing.
GrantedScopesEither(c) == IF c.scope = Missing THEN Words(c.scp) ELSE Words(c.scope)

\* GrantedScopes merges the two claims that carry them.
GrantedScopes(c) == Words(c.scope) \union Words(c.scp)

\* RequireScope looks for a word of the granted scopes, joined again.
HasScope(c, scope) == \E granted \in GrantedScopes(c) : scope \in ToSet(granted)

Unauthorized == [status |-> "unauthorized", challenge |-> TRUE]

\* BearerAuth and then Authorize with RequireScope: the status, and whether the answer
\* carries the challenge that says how to authenticate.
Bearer(policy, keys, request, now, scope) ==
  IF ~request.bearer THEN Unauthorized
  ELSE IF Validate(policy, keys, request.token, now) # "ok" THEN Unauthorized
  ELSE IF ~HasScope(request.token.claims, scope)
  THEN [status |-> "forbidden", challenge |-> FALSE]
  ELSE [status |-> "handled", challenge |-> FALSE]
-----------------------------------------------------------------------------
\* A request is handled if and only if a key of the issuer's published set, of the
\* token's own algorithm's family and fit for signatures, made its signature, the
\* policy trusts algorithm, issuer and audience, now lies in the token's lifetime
\* widened by the skew, and either scope claim grants the scope.
Authentic(policy, jwks, t) ==
  \E i \in 1..Len(jwks) :
    /\ jwks[i].use # "enc"
    /\ jwks[i].kid \in {"", t.kid}
    /\ t.alg \in policy.algs /\ <<jwks[i].kty, Family[t.alg]>> \in {<<"RSA", "RSA">>, <<"EC", "ECDSA">>}
    /\ t.signature = [key |-> jwks[i].name, alg |-> t.alg]

Alive(policy, c, now) ==
  /\ IF IsDate(c.exp) THEN now <= c.exp.number + policy.skew ELSE ~policy.requireExp
  /\ \A claim \in {c.nbf, c.iat} : IsDate(claim) => claim.number <= now + policy.skew

Handled(policy, jwks, request, now, scope) ==
  LET t == request.token
  IN /\ request.bearer /\ t.wellFormed /\ ~t.crit
     /\ Authentic(policy, jwks, t)
     /\ Alive(policy, t.claims, now)
     /\ t.claims.iss.type = "string" /\ t.claims.iss.words \in policy.issuers
     /\ Audiences(t.claims.aud) \cap policy.audiences # {}
     /\ \E claim \in {t.claims.scope, t.claims.scp} : \E s \in Words(claim) : scope \in ToSet(s)

\* The request against the reference; and only an unauthenticated answer asks for a token.
BearerIsExact(policy, jwks, request, now, scope) ==
  LET set == ParseJWKSet(jwks)
      answer == Bearer(policy, set.keys, request, now, scope)
  IN PolicyIsUsable(policy) /\ set.ok =>
       /\ answer.status = "handled" <=> Handled(policy, jwks, request, now, scope)
       /\ answer.challenge <=> answer.status = "unauthorized"
       /\ answer.status = "forbidden" =>
            Handled(policy, jwks, [request EXCEPT !.token.claims.scp = Text(<<scope>>)], now, scope)

\* A set is refused as a whole only for a key that was meant for signatures.
KeySetIsExact(jwks) ==
  ParseJWKSet(jwks).ok <=>
    \A i \in 1..Len(jwks) :
      jwks[i].wellFormed \/ jwks[i].use = "enc" \/ jwks[i].kty \notin {"RSA", "EC"}
=============================================================================
