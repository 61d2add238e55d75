--------------------------- MODULE Authenticator ---------------------------
(***************************************************************************)
(* Who a request is from and what it may call: Authenticator               *)
(* (pkg/interceptors/auth.go) and authorize (authz.go), as operators.      *)
(*                                                                         *)
(* Metadata has the values of two headers: authorization, each a scheme    *)
(* and a credential, and apiKey, each a credential or Blank.  A credential *)
(* is an opaque string [kind |-> "opaque", value |-> v] or a token.  A     *)
(* token's claims are Absent where they are absent and Bad where they do not *)
(* parse; its signature sig is the pair of the algorithm and the key it    *)
(* was made with, or Bad: cryptography is taken to tell these apart.       *)
(***************************************************************************)
EXTENDS Integers, Sequences

CONSTANTS
  AuthConfig,     \* config.AuthConfig
  Policy,         \* the scopes required for each listed method
  DefaultDeny,    \* whether methods that are not listed are denied
  Skew,           \* jwtClockSkew
  Absent, Blank, Bad

Anonymous == ""   \* the subject of a token without one

\* Either no authenticator, with the reason to refuse to start, or one with the
\* key material of each class.
NewAuthenticator(cfg) ==
  LET keys == {k \in cfg.apiKeys : k # Blank}
      pub  == cfg.jwtPublicKey
  IN  CASE cfg.jwtSecret \in {Absent, Blank} /\ cfg.apiKeys = {} /\ pub = Absent -> Absent
        [] pub # Absent /\ pub.kind \notin {"RSA", "EC"}  -> Absent
        [] pub # Absent /\ ~pub.strong                    -> Absent
        [] OTHER ->
             [jwtSecret |-> cfg.jwtSecret, apiKeys |-> keys,
              jwtRSAKey |-> IF pub # Absent /\ pub.kind = "RSA" THEN pub.key ELSE Absent,
              jwtECKey  |-> IF pub # Absent /\ pub.kind = "EC" THEN pub.key ELSE Absent,
              jwtIssuer |-> cfg.jwtIssuer, jwtAudience |-> cfg.jwtAudience,
              apiKeyScopes |-> cfg.apiKeyScopes]

authenticator == NewAuthenticator(AuthConfig)

\* A single well-formed authorization header is preferred.
credentialFromContext(md) ==
  CASE Len(md.authorization) = 1 /\ md.authorization[1].scheme = "bearer" ->
         md.authorization[1].credential
    [] OTHER -> IF Len(md.apiKey) = 1 /\ md.apiKey[1] # Blank THEN md.apiKey[1] ELSE Absent

verifyAnyKey(a, t) ==
  t.sig # Bad /\ t.sig[2] \in {a.jwtSecret, a.jwtRSAKey, a.jwtECKey} \ {Absent}

\* With the key configured for the token's algorithm, and no other.
verifySignature(a, t) ==
  LET key == CASE t.alg = "HS256" -> a.jwtSecret
               [] t.alg = "RS256" -> a.jwtRSAKey
               [] t.alg = "ES256" -> a.jwtECKey
               [] OTHER           -> Absent
  IN  key # Absent /\ t.sig = <<t.alg, key>>

audienceMatches(aud, want) == aud # Absent /\ want \in aud

\* scope, scp and scopes add up.
extractScopes(t) == UNION {t.scopes[claim] : claim \in DOMAIN t.scopes}

InTime(t, now) ==
  /\ t.exp \notin {Absent, Bad} /\ now < t.exp
  /\ t.nbf # Absent => t.nbf # Bad /\ now >= t.nbf
  /\ t.iat # Absent => t.iat # Bad /\ now >= t.iat - Skew

tokenClaims(t) ==
  [subject |-> IF t.sub = Absent THEN Anonymous ELSE t.sub, scopes |-> extractScopes(t)]

parseClaims(a, t, now) ==
  IF /\ t.kind = "token" /\ t.wellFormed
     /\ verifySignature(a, t)
     /\ InTime(t, now)
     /\ a.jwtIssuer # Absent => t.iss = a.jwtIssuer
     /\ a.jwtAudience # Absent => audienceMatches(t.aud, a.jwtAudience)
  THEN tokenClaims(t)
  ELSE Absent

keyClaims(a, key) == [subject |-> "apikey:" \o key, scopes |-> a.apiKeyScopes]

\* The claims of the caller, or Absent.  API keys are tried first.
authenticate(md, now) ==
  LET a == authenticator
      c == credentialFromContext(md)
  IN  IF a = Absent \/ c = Absent THEN Absent
      ELSE IF c.kind = "opaque" /\ c.value \in a.apiKeys THEN keyClaims(a, c.value)
      ELSE parseClaims(a, c, now)

hasAnyScope(have, required) == have \cap required # {}

authorize(method, claims) ==
  IF method \notin DOMAIN Policy THEN ~DefaultDeny
  ELSE \/ Policy[method] = {}
       \/ claims # Absent /\ hasAnyScope(claims.scopes, Policy[method])
-----------------------------------------------------------------------------
\* What it means that a credential is vouched for, claim by claim, at a time:
\* the reference for authenticate.
Vouched(c, now) ==
  \/ c.kind = "opaque" /\ c.value \in AuthConfig.apiKeys \ {Blank}
  \/ /\ c.kind = "token" /\ c.wellFormed
     /\ \/ c.sig = <<"HS256", AuthConfig.jwtSecret>> /\ c.alg = "HS256"
        \/ /\ AuthConfig.jwtPublicKey # Absent
           /\ c.sig = <<c.alg, AuthConfig.jwtPublicKey.key>>
           /\ c.alg = IF AuthConfig.jwtPublicKey.kind = "RSA" THEN "RS256" ELSE "ES256"
     /\ \E exp \in Int \cap {c.exp} : now < exp
     /\ c.nbf = Absent \/ \E nbf \in Int \cap {c.nbf} : nbf <= now
     /\ c.iat = Absent \/ \E iat \in Int \cap {c.iat} : iat <= now + Skew
     /\ AuthConfig.jwtIssuer \in {Absent, c.iss}
     /\ AuthConfig.jwtAudience # Absent => c.aud # Absent /\ AuthConfig.jwtAudience \in c.aud

Presented(md) ==
  {md.authorization[k].credential : k \in DOMAIN md.authorization}
    \cup ({md.apiKey[k] : k \in DOMAIN md.apiKey} \ {Blank})

Alone(md) ==
  /\ Len(md.authorization) + Len(md.apiKey) = 1
  /\ \A k \in DOMAIN md.authorization : md.authorization[k].scheme = "bearer"
=============================================================================
