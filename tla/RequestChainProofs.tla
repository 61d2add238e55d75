------------------------- MODULE RequestChainProofs -------------------------
(***************************************************************************)
(* Proofs, for any number of requests, limits, callers, keys and policies: *)
(* only vouched credentials authenticate, the interceptors act in order,   *)
(* the audit log and the metrics tell the truth, every stored user is one  *)
(* CreateUser would have accepted, and the semaphore and the gauges count  *)
(* the requests inside their interceptors.                                 *)
(***************************************************************************)
EXTENDS RequestChain, TLAPS

\* Where a request can be: index and phase.  Out stops only at interceptors
\* that have something to do.
Position(r) ==
  /\ {"phase", "at", "method"} \subseteq DOMAIN r /\ r.method \in RPCs
  /\ IF Unary(r.method)
     THEN \/ r.phase = "in" /\ r.at \in 3 .. 8
          \/ r.phase = "handler" /\ r.at = 9
          \/ r.phase = "out" /\ r.at \in {1, 2, 7, 8, 9}
     ELSE \/ r.phase = "in" /\ r.at \in 3 .. 6
          \/ r.phase = "handler" /\ r.at = 7
          \/ r.phase = "out" /\ r.at \in {1, 2, 7}

\* The request is inside the named interceptor.
Holds(r, name) ==
  /\ r.phase # "none"
  /\ \E k \in DOMAIN Chain(r.method) :
       Chain(r.method)[k] = name /\ IF r.phase = "out" THEN r.at >= k ELSE r.at > k

LEMMA MaxIs ==
  ASSUME NEW S \in SUBSET Int, NEW x \in S, \A y \in S : y <= x
  PROVE  Max(S) = x
<1>1. Max(S) \in S /\ \A y \in S : Max(S) >= y
  <2>1. \E m \in S : \A y \in S : m >= y
    BY Zenon
  <2>. QED  BY <2>1, Zenon DEF Max
<1>. DEFINE m == Max(S)
<1>2. m \in S /\ m >= x
  BY <1>1, Zenon
<1>. HIDE DEF m
<1>3. m = x
  BY <1>2
<1>. QED  BY <1>3, Zenon DEF m

\* The interceptors by index.
LEMMA Chains ==
  /\ DOMAIN UnaryChain = 1 .. 9 /\ DOMAIN StreamChain = 1 .. 7
  /\ Len(UnaryChain) = 9 /\ Len(StreamChain) = 7
  /\ \A k \in 1 .. 9 :
       /\ UnaryChain[k] = "recovery" <=> k = 1
       /\ UnaryChain[k] = "metrics" <=> k = 2
       /\ UnaryChain[k] = "limit" <=> k = 3
       /\ UnaryChain[k] = "auth" <=> k = 4
       /\ UnaryChain[k] = "quota" <=> k = 5
       /\ UnaryChain[k] = "authorize" <=> k = 6
       /\ UnaryChain[k] = "acquire" <=> k = 7
       /\ UnaryChain[k] = "gauge" <=> k = 8
       /\ UnaryChain[k] = "audit" <=> k = 9
  /\ \A k \in 1 .. 7 :
       /\ StreamChain[k] = "recovery" <=> k = 1
       /\ StreamChain[k] = "metrics" <=> k = 2
       /\ StreamChain[k] = "limit" <=> k = 3
       /\ StreamChain[k] = "auth" <=> k = 4
       /\ StreamChain[k] = "quota" <=> k = 5
       /\ StreamChain[k] = "authorize" <=> k = 6
       /\ StreamChain[k] = "audit" <=> k = 7
       /\ StreamChain[k] \notin {"acquire", "gauge"}
  BY DEF UnaryChain, StreamChain


Stops(r) == {k \in 1 .. r.at - 1 :
               Chain(r.method)[k] \in {"recovery", "metrics", "acquire", "gauge", "audit"}}

\* Where Back leads to from each index.
LEMMA BackTo ==
  ASSUME NEW r, {"phase", "at", "method"} \subseteq DOMAIN r, r.method \in RPCs,
         IF Unary(r.method) THEN r.at \in 2 .. 10 ELSE r.at \in 2 .. 8
  PROVE  /\ Position(Back(r)) /\ Back(r).phase = "out" /\ Back(r).method = r.method
         /\ r.at = 2 => Back(r).at = 1
         /\ r.at \in 3 .. 7 => Back(r).at = 2
         /\ Unary(r.method) /\ r.at >= 8 => Back(r).at = r.at - 1
         /\ ~Unary(r.method) /\ r.at = 8 => Back(r).at = 7
<1>1. /\ Back(r).phase = "out" /\ Back(r).method = r.method /\ Back(r).at = Max(Stops(r))
      /\ DOMAIN Back(r) = DOMAIN r
  BY Zenon DEF Back, Stops
<1>2. CASE Unary(r.method)
  <2>1. Stops(r) = {k \in 1 .. r.at - 1 : k \in {1, 2, 7, 8, 9}}
    BY <1>2, Chains DEF Stops, Chain
  <2>2. CASE r.at = 2
    BY <1>1, <1>2, <2>1, <2>2, MaxIs DEF Position
  <2>3. CASE r.at \in 3 .. 7
    <3>1. 2 \in Stops(r) /\ Stops(r) \in SUBSET Int /\ \A y \in Stops(r) : y <= 2
      BY <2>1, <2>3
    <3>2. Back(r).at = 2
      BY <3>1, <1>1, MaxIs, Zenon
    <3>. QED  BY <3>2, <1>1, <1>2, <2>3 DEF Position
  <2>4. CASE r.at \in 8 .. 10
    <3>1. /\ r.at - 1 \in Stops(r) /\ Stops(r) \in SUBSET Int
          /\ \A y \in Stops(r) : y <= r.at - 1
      BY <2>1, <2>4
    <3>2. Back(r).at = r.at - 1
      BY <3>1, <1>1, MaxIs, Zenon
    <3>. QED  BY <3>2, <1>1, <1>2, <2>4 DEF Position
  <2>. QED  BY <1>2, <2>2, <2>3, <2>4
<1>3. CASE ~Unary(r.method)
  <2>1. Stops(r) = {k \in 1 .. r.at - 1 : k \in {1, 2, 7}}
    BY <1>3, Chains DEF Stops, Chain
  <2>2. CASE r.at = 2
    BY <1>1, <1>3, <2>1, <2>2, MaxIs DEF Position
  <2>3. CASE r.at \in 3 .. 7
    <3>1. 2 \in Stops(r) /\ Stops(r) \in SUBSET Int /\ \A y \in Stops(r) : y <= 2
      BY <2>1, <2>3
    <3>2. Back(r).at = 2
      BY <3>1, <1>1, MaxIs, Zenon
    <3>. QED  BY <3>2, <1>1, <1>3, <2>3 DEF Position
  <2>4. CASE r.at = 8
    BY <1>1, <1>3, <2>1, <2>4, MaxIs DEF Position
  <2>. QED  BY <1>3, <2>2, <2>3, <2>4
<1>. QED  BY <1>2, <1>3, Zenon

\* Where Onward leads to.
LEMMA OnwardTo ==
  ASSUME NEW r, Position(r), r.phase = "in"
  PROVE  /\ Position(Onward(r)) /\ Onward(r).method = r.method
         /\ Onward(r).phase # "out" /\ Onward(r).at = r.at + 1
<1>1. /\ Onward(r).method = r.method /\ Onward(r).at = r.at + 1 /\ DOMAIN Onward(r) = DOMAIN r
      /\ Onward(r).phase = IF r.at + 1 = Len(Chain(r.method)) THEN "handler" ELSE "in"
  BY Zenon DEF Position, Onward
<1>2. CASE Unary(r.method)
  BY <1>1, <1>2, Chains DEF Position, Chain
<1>3. CASE ~Unary(r.method)
  BY <1>1, <1>3, Chains DEF Position, Chain
<1>. QED  BY <1>2, <1>3, Zenon
-----------------------------------------------------------------------------
\* Every request is nowhere or somewhere on its chain.
Placed ==
  /\ DOMAIN req = Slots
  /\ \A s \in Slots : req[s] = NoRequest \/ Position(req[s])

\* A step of one request moves that request alone.
LEMMA OneMoves ==
  ASSUME Placed, NEW s \in Slots, NEW r, r = NoRequest \/ Position(r), Set(s, r)
  PROVE  /\ Placed' /\ req'[s] = r
         /\ \A t \in Slots \ {s} : req'[t] = req[t]
<1>1. /\ DOMAIN req' = Slots /\ req'[s] = r
      /\ \A t \in Slots \ {s} : req'[t] = req[t]
  BY Zenon DEF Placed, Set
<1>. QED  BY <1>1, Zenon DEF Placed

\* q is the request r at the same place of the same chain.
SameSpot(q, r) ==
  DOMAIN q = DOMAIN r /\ q.method = r.method /\ q.at = r.at /\ q.phase = r.phase

LEMMA SamePosition ==
  ASSUME NEW r, NEW q, Position(r), SameSpot(q, r)
  PROVE  Position(q)
  BY Zenon DEF Position, SameSpot

\* Where a request is whose next step is known.
LEMMA Whereabouts ==
  ASSUME Placed, NEW s \in Slots
  PROVE  /\ req[s].phase # "none" => Position(req[s])
         /\ req[s].phase = "none" => req[s] = NoRequest
         /\ Entering(s, "limit") => req[s].at = 3
         /\ Entering(s, "auth") => req[s].at = 4
         /\ Entering(s, "quota") => req[s].at = 5
         /\ Entering(s, "authorize") => req[s].at = 6
         /\ Entering(s, "acquire") => req[s].at = 7 /\ Unary(req[s].method)
         /\ Entering(s, "gauge") => req[s].at = 8 /\ Unary(req[s].method)
         /\ Leaving(s, "audit") => req[s].at = IF Unary(req[s].method) THEN 9 ELSE 7
         /\ Leaving(s, "gauge") => req[s].at = 8 /\ Unary(req[s].method)
         /\ Leaving(s, "acquire") => req[s].at = 7 /\ Unary(req[s].method)
         /\ Leaving(s, "metrics") => req[s].at = 2
         /\ Leaving(s, "recovery") => req[s].at = 1
<1>1. /\ req[s].phase # "none" => Position(req[s])
      /\ req[s].phase = "none" => req[s] = NoRequest
  BY DEF Placed, NoRequest, Position
<1>. DEFINE k == req[s].at
            c == Chain(req[s].method)
<1>e. \A n : (Entering(s, n) => c[k] = n) /\ (Leaving(s, n) => c[k] = n)
  BY Zenon DEF Entering, Leaving
<1>2. CASE Position(req[s]) /\ Unary(req[s].method)
  <2>1. k \in 1 .. 9 /\ c = UnaryChain
    BY <1>2 DEF Position, Chain
  <2>. HIDE DEF k, c
  <2>2. /\ c[k] = "recovery" <=> k = 1
        /\ c[k] = "metrics" <=> k = 2
        /\ c[k] = "limit" <=> k = 3
        /\ c[k] = "auth" <=> k = 4
        /\ c[k] = "quota" <=> k = 5
        /\ c[k] = "authorize" <=> k = 6
        /\ c[k] = "acquire" <=> k = 7
        /\ c[k] = "gauge" <=> k = 8
        /\ c[k] = "audit" <=> k = 9
    BY <2>1, Chains
  <2>3. /\ Entering(s, "limit") => k = 3
        /\ Entering(s, "auth") => k = 4
        /\ Entering(s, "quota") => k = 5
        /\ Entering(s, "authorize") => k = 6
        /\ Entering(s, "acquire") => k = 7
        /\ Entering(s, "gauge") => k = 8
        /\ Leaving(s, "audit") => k = 9
        /\ Leaving(s, "gauge") => k = 8
        /\ Leaving(s, "acquire") => k = 7
        /\ Leaving(s, "metrics") => k = 2
        /\ Leaving(s, "recovery") => k = 1
    BY <1>e, <2>2, Zenon
  <2>. QED  BY <1>1, <1>2, <2>3, Zenon DEF k
<1>3. CASE Position(req[s]) /\ ~Unary(req[s].method)
  <2>1. k \in 1 .. 7 /\ c = StreamChain
    BY <1>3 DEF Position, Chain
  <2>. HIDE DEF k, c
  <2>2. /\ c[k] = "recovery" <=> k = 1
        /\ c[k] = "metrics" <=> k = 2
        /\ c[k] = "limit" <=> k = 3
        /\ c[k] = "auth" <=> k = 4
        /\ c[k] = "quota" <=> k = 5
        /\ c[k] = "authorize" <=> k = 6
        /\ c[k] = "audit" <=> k = 7
        /\ c[k] \notin {"acquire", "gauge"}
    BY <2>1, Chains, Zenon
  <2>3. /\ Entering(s, "limit") => k = 3
        /\ Entering(s, "auth") => k = 4
        /\ Entering(s, "quota") => k = 5
        /\ Entering(s, "authorize") => k = 6
        /\ ~Entering(s, "acquire") /\ ~Entering(s, "gauge")
        /\ Leaving(s, "audit") => k = 7
        /\ ~Leaving(s, "acquire") /\ ~Leaving(s, "gauge")
        /\ Leaving(s, "metrics") => k = 2
        /\ Leaving(s, "recovery") => k = 1
    BY <1>e, <2>2, Zenon
  <2>. QED  BY <1>1, <1>3, <2>3, Zenon DEF k
<1>4. CASE req[s].phase = "none"
  BY <1>1, <1>4, Zenon DEF Entering, Leaving
<1>. QED  BY <1>1, <1>2, <1>3, <1>4, Zenon
-----------------------------------------------------------------------------
LEMMA BackFrom ==
  ASSUME NEW r, Position(r), r.phase = "out", r.at # 1
  PROVE  /\ Position(Back(r)) /\ Back(r).phase = "out" /\ Back(r).method = r.method
         /\ r.at = 2 => Back(r).at = 1
         /\ r.at = 7 => Back(r).at = 2
         /\ r.at = 8 => Back(r).at = 7
         /\ r.at = 9 => Back(r).at = 8
<1>1. /\ {"phase", "at", "method"} \subseteq DOMAIN r /\ r.method \in RPCs
      /\ Unary(r.method) => r.at \in {2, 7, 8, 9}
      /\ ~Unary(r.method) => r.at \in {2, 7}
  BY Zenon DEF Position
<1>2. IF Unary(r.method) THEN r.at \in 2 .. 10 ELSE r.at \in 2 .. 8
  BY <1>1
<1>3. /\ Position(Back(r)) /\ Back(r).phase = "out" /\ Back(r).method = r.method
      /\ r.at = 2 => Back(r).at = 1
      /\ r.at \in 3 .. 7 => Back(r).at = 2
      /\ Unary(r.method) /\ r.at >= 8 => Back(r).at = r.at - 1
  BY <1>1, <1>2, BackTo, Zenon
<1>. QED  BY <1>1, <1>3

(* Authentication *)

\* What NewAuthenticator keeps of a configuration it accepts.
LEMMA Keys ==
  LET a == authenticator
      pub == AuthConfig.jwtPublicKey
  IN  /\ a.jwtSecret = AuthConfig.jwtSecret /\ a.apiKeys = AuthConfig.apiKeys \ {Blank}
      /\ a.jwtIssuer = AuthConfig.jwtIssuer /\ a.jwtAudience = AuthConfig.jwtAudience
      /\ pub # Absent => pub.kind \in {"RSA", "EC"}
      /\ a.jwtRSAKey = IF pub # Absent /\ pub.kind = "RSA" THEN pub.key ELSE Absent
      /\ a.jwtECKey = IF pub # Absent /\ pub.kind = "EC" THEN pub.key ELSE Absent
  BY CredentialAssumption, Zenon DEF authenticator, NewAuthenticator

\* Each algorithm has its own key.
LEMMA Signature ==
  ASSUME NEW c \in Credentials, c.kind = "token"
  PROVE  verifySignature(authenticator, c) <=>
           \/ c.sig = <<"HS256", AuthConfig.jwtSecret>> /\ c.alg = "HS256"
           \/ /\ AuthConfig.jwtPublicKey # Absent
              /\ c.sig = <<c.alg, AuthConfig.jwtPublicKey.key>>
              /\ c.alg = IF AuthConfig.jwtPublicKey.kind = "RSA" THEN "RS256" ELSE "ES256"
<1>1. c.sig # <<c.alg, Absent>>
  BY CredentialAssumption, Zenon
<1>2. AuthConfig.jwtPublicKey # Absent => AuthConfig.jwtPublicKey.key # Absent
  BY CredentialAssumption, Zenon
<1>. DEFINE key == CASE c.alg = "HS256" -> authenticator.jwtSecret
                     [] c.alg = "RS256" -> authenticator.jwtRSAKey
                     [] c.alg = "ES256" -> authenticator.jwtECKey
                     [] OTHER           -> Absent
<1>3. verifySignature(authenticator, c) <=> c.sig = <<c.alg, key>>
  BY <1>1, Zenon DEF verifySignature
<1>4. CASE c.alg = "HS256"
  BY <1>1, <1>3, <1>4, Keys, Zenon
<1>5. CASE c.alg = "RS256"
  BY <1>1, <1>2, <1>3, <1>5, Keys, Zenon
<1>6. CASE c.alg = "ES256"
  BY <1>1, <1>2, <1>3, <1>6, Keys, Zenon
<1>7. CASE c.alg \notin {"HS256", "RS256", "ES256"}
  BY <1>1, <1>3, <1>7, Zenon
<1>. QED  BY <1>4, <1>5, <1>6, <1>7, Zenon

\* Claims are given for a vouched token, and for no other.
LEMMA TokenVouched ==
  ASSUME NEW c \in Credentials, c.kind = "token", NEW t \in Nat
  PROVE  parseClaims(authenticator, c, t) # Absent <=> Vouched(c, t)
<1>1. {c.exp, c.nbf, c.iat} \subseteq Int \cup {Absent, Bad} /\ tokenClaims(c) # Absent
  BY CredentialAssumption, Zenon
<1>2. InTime(c, t) <=>
        /\ \E exp \in Int \cap {c.exp} : t < exp
        /\ c.nbf = Absent \/ \E nbf \in Int \cap {c.nbf} : nbf <= t
        /\ c.iat = Absent \/ \E iat \in Int \cap {c.iat} : iat <= t + Skew
  <2>1. (c.exp \notin {Absent, Bad} /\ t < c.exp) <=> \E exp \in Int \cap {c.exp} : t < exp
    BY <1>1, CredentialAssumption, Zenon
  <2>2. (c.nbf # Absent => c.nbf # Bad /\ t >= c.nbf) <=>
          c.nbf = Absent \/ \E nbf \in Int \cap {c.nbf} : nbf <= t
    BY <1>1, CredentialAssumption, Zenon
  <2>3. (c.iat # Absent => c.iat # Bad /\ t >= c.iat - Skew) <=>
          c.iat = Absent \/ \E iat \in Int \cap {c.iat} : iat <= t + Skew
    BY <1>1, CredentialAssumption
  <2>. QED  BY <2>1, <2>2, <2>3, Zenon DEF InTime
<1>3. (authenticator.jwtIssuer # Absent => c.iss = authenticator.jwtIssuer)
        <=> AuthConfig.jwtIssuer \in {Absent, c.iss}
  BY Keys, Zenon
<1>4. (authenticator.jwtAudience # Absent => audienceMatches(c.aud, authenticator.jwtAudience))
        <=> (AuthConfig.jwtAudience # Absent => c.aud # Absent /\ AuthConfig.jwtAudience \in c.aud)
  BY Keys, Zenon DEF audienceMatches
<1>5. parseClaims(authenticator, c, t) # Absent <=>
        /\ c.kind = "token" /\ c.wellFormed
        /\ verifySignature(authenticator, c)
        /\ InTime(c, t)
        /\ authenticator.jwtIssuer # Absent => c.iss = authenticator.jwtIssuer
        /\ authenticator.jwtAudience # Absent => audienceMatches(c.aud, authenticator.jwtAudience)
  BY <1>1, Zenon DEF parseClaims
<1>. QED  BY <1>2, <1>3, <1>4, <1>5, Signature, Zenon DEF Vouched

\* The credential that is judged is one of those presented; alone, it is judged.
LEMMA Judged ==
  ASSUME NEW md \in Metadata \cup Senders
  PROVE  /\ credentialFromContext(md) \in Presented(md) \cup {Absent}
         /\ Alone(md) => Presented(md) \subseteq {credentialFromContext(md)}
<1>. DEFINE h == md.authorization
            k == md.apiKey
<1>1. Len(h) \in Nat /\ DOMAIN h = 1 .. Len(h) /\ Len(k) \in Nat /\ DOMAIN k = 1 .. Len(k)
  BY CredentialAssumption, Zenon
<1>2. Presented(md) = {h[i].credential : i \in DOMAIN h} \cup ({k[i] : i \in DOMAIN k} \ {Blank})
  BY Zenon DEF Presented
<1>3. credentialFromContext(md) =
        IF Len(h) = 1 /\ h[1].scheme = "bearer" THEN h[1].credential
        ELSE IF Len(k) = 1 /\ k[1] # Blank THEN k[1] ELSE Absent
  BY Zenon DEF credentialFromContext
<1>4. Alone(md) => Len(h) + Len(k) = 1 /\ \A i \in DOMAIN h : h[i].scheme = "bearer"
  BY Zenon DEF Alone
<1>. HIDE DEF h, k
<1>5. credentialFromContext(md) \in Presented(md) \cup {Absent}
  BY <1>1, <1>2, <1>3
<1>6. ASSUME Alone(md) PROVE Presented(md) \subseteq {credentialFromContext(md)}
  <2>1. CASE Len(h) = 1 /\ Len(k) = 0
    BY <1>1, <1>2, <1>3, <1>4, <1>6, <2>1
  <2>2. CASE Len(h) = 0 /\ Len(k) = 1
    BY <1>1, <1>2, <1>3, <2>2
  <2>. QED  BY <1>1, <1>4, <1>6, <2>1, <2>2
<1>. QED  BY <1>5, <1>6, Zenon

\* Metadata is accepted for the credential that is judged, if that is vouched.
LEMMA Accepted ==
  ASSUME NEW md \in Metadata \cup Senders, NEW t \in Nat
  PROVE  LET c == credentialFromContext(md) IN
         authenticate(md, t) # Absent <=> c # Absent /\ Vouched(c, t)
<1>. DEFINE c == credentialFromContext(md)
<1>1. authenticate(md, t) =
        IF c = Absent THEN Absent
        ELSE IF c.kind = "opaque" /\ c.value \in authenticator.apiKeys
        THEN keyClaims(authenticator, c.value)
        ELSE parseClaims(authenticator, c, t)
  BY CredentialAssumption, Zenon DEF authenticate
<1>2. c # Absent => c \in Credentials
  BY Judged, Zenon DEF Credentials
<1>. HIDE DEF c
<1>3. CASE c = Absent
  BY <1>1, <1>3, Zenon DEF c
<1>4. CASE c # Absent /\ c.kind = "opaque"
  <2>1. keyClaims(authenticator, c.value) # Absent
    BY <1>2, <1>4, CredentialAssumption, Zenon
  <2>2. Vouched(c, t) <=> c.value \in authenticator.apiKeys
    BY <1>4, Keys, Zenon DEF Vouched
  <2>3. parseClaims(authenticator, c, t) = Absent
    BY <1>4, Zenon DEF parseClaims
  <2>. QED  BY <1>1, <1>4, <2>1, <2>2, <2>3, Zenon DEF c
<1>5. CASE c # Absent /\ c.kind = "token"
  <2>1. parseClaims(authenticator, c, t) # Absent <=> Vouched(c, t)
    BY <1>2, <1>5, TokenVouched, Zenon
  <2>. QED  BY <1>1, <1>5, <2>1, Zenon DEF c
<1>6. c # Absent => c.kind \in {"opaque", "token"}
  BY <1>2, CredentialAssumption, Zenon
<1>. QED  BY <1>3, <1>4, <1>5, <1>6, Zenon

-----------------------------------------------------------------------------
(* What the chain knows of a request, and what it writes down *)

Fields == {"method", "md", "claims", "phase", "at", "err", "applied", "n", "open",
           "judged", "charged", "audit", "denied", "recorded"}

\* The ways a handler may end.
Ends == Codes \ {"Unauthenticated", "PermissionDenied", "Unknown"}

Known(r) ==
  requiresAuth(r.method) =>
    r.judged \in 0 .. MaxNow /\ r.claims # Absent /\ r.claims = authenticate(r.md, r.judged)
Permitted(r) == requiresAuth(r.method) => authorize(r.method, r.claims)

\* Nothing has been said of the request yet.
Untold(r) == r.denied = None /\ r.audit = None /\ r.recorded = None /\ r.applied = FALSE

GoingIn(r) ==
  /\ Untold(r)
  /\ r.charged = IF r.at \in {3, 4, 5} THEN FALSE ELSE TRUE
  /\ r.at \notin {3, 4} => Known(r)
  /\ r.at \notin {3, 4, 5, 6} => Permitted(r)

\* Why a request was refused: denied agrees with the error, and with what it paid.
Denial(r) ==
  /\ r.denied # None <=> r.err \in {"Unauthenticated", "PermissionDenied"}
  /\ r.denied = "authz" => r.charged = TRUE
  /\ r.denied = "authn" => r.charged = FALSE

\* What was applied is in the audit record, which is that of this request.
Audited(r) ==
  /\ r.applied = TRUE /\ r.err # "panic" => r.audit # None /\ r.audit.client = r.claims.subject
  /\ r.audit # None =>
       /\ isMutation(r.method) /\ r.denied = None
       /\ r.err # "panic" /\ r.audit.code = getErrorCode(r.err)

GoingOut(r) ==
  /\ r.err \in Ends \cup {"Unauthenticated", "PermissionDenied"}
  /\ Denial(r)
  /\ r.at \notin {1, 2} => Known(r) /\ Permitted(r) /\ r.denied = None
  /\ r.applied = TRUE => isMutation(r.method) /\ Known(r)
  /\ IF r.at = Len(Chain(r.method)) THEN r.audit = None ELSE Audited(r)
  /\ r.recorded = IF r.at = 1 /\ r.err # "panic" THEN getErrorCode(r.err) ELSE None

Honest(r) ==
  /\ Position(r) /\ DOMAIN r = Fields /\ r.md \in Senders
  /\ IF r.phase = "out" THEN GoingOut(r) ELSE GoingIn(r)

HonestInv ==
  /\ now \in 0 .. MaxNow /\ Placed
  /\ \A s \in Slots : req[s] = NoRequest \/ Honest(req[s])

LEMMA AuditIsLast ==
  ASSUME NEW m
  PROVE  Len(Chain(m)) = IF Unary(m) THEN 9 ELSE 7
  BY Chains, Zenon DEF Chain

\* b is the request q, perhaps elsewhere.
SameStory(b, q) ==
  /\ b.method = q.method /\ b.md = q.md /\ b.claims = q.claims /\ b.err = q.err
  /\ b.applied = q.applied /\ b.judged = q.judged /\ b.charged = q.charged
  /\ b.audit = q.audit /\ b.denied = q.denied /\ b.recorded = q.recorded

LEMMA Moves ==
  ASSUME NEW q, DOMAIN q = Fields
  PROVE  /\ DOMAIN Back(q) = Fields /\ SameStory(Back(q), q)
         /\ DOMAIN Onward(q) = Fields /\ SameStory(Onward(q), q)
  BY Zenon DEF Back, Onward, SameStory, Fields

LEMMA Retold ==
  ASSUME NEW b, NEW q, SameStory(b, q)
  PROVE  /\ Known(b) <=> Known(q)
         /\ Permitted(b) <=> Permitted(q)
         /\ Untold(b) <=> Untold(q)
         /\ Denial(b) <=> Denial(q)
         /\ Audited(b) <=> Audited(q)
  BY Zenon DEF SameStory, Known, Permitted, Untold, Denial, Audited

\* A request that goes on has what the next interceptor relies on.
LEMMA HonestOnward ==
  ASSUME NEW r, NEW q, Honest(r), r.phase = "in", SameSpot(q, r), q.md = r.md, Untold(q),
         q.charged = IF r.at \in {3, 4} THEN FALSE ELSE TRUE,
         r.at # 3 => Known(q), r.at \notin {3, 4, 5} => Permitted(q)
  PROVE  Honest(Onward(q))
<1>1. Position(r) /\ DOMAIN q = Fields /\ q.md \in Senders
  BY Zenon DEF Honest, SameSpot
<1>2. Position(q) /\ q.phase = "in"
  BY <1>1, SamePosition, Zenon DEF SameSpot
<1>. DEFINE b == Onward(q)
<1>3. Position(b) /\ b.phase # "out" /\ b.at = r.at + 1
  BY <1>2, OnwardTo, Zenon DEF SameSpot
<1>4. DOMAIN b = Fields /\ SameStory(b, q)
  BY <1>1, Moves, Zenon
<1>. HIDE DEF b
<1>5. r.at \in 3 .. 8
  BY <1>1 DEF Position
<1>6. b.md \in Senders /\ b.charged = q.charged
  BY <1>1, <1>4, Zenon DEF SameStory
<1>7. /\ b.at \in {3, 4, 5} <=> r.at \in {3, 4}
      /\ b.at \in {3, 4} <=> r.at = 3
      /\ b.at \in {3, 4, 5, 6} <=> r.at \in {3, 4, 5}
  BY <1>3, <1>5
<1>8. /\ Untold(b)
      /\ b.at \notin {3, 4} => Known(b)
      /\ b.at \notin {3, 4, 5, 6} => Permitted(b)
  BY <1>4, <1>7, Retold, Zenon
<1>9. GoingIn(b)
  BY <1>6, <1>7, <1>8, Zenon DEF GoingIn
<1>. QED  BY <1>3, <1>4, <1>6, <1>9, Zenon DEF Honest, b

\* A request that is refused on its way in leaves no audit record.
LEMMA HonestReject ==
  ASSUME NEW r, NEW q, NEW err \in Codes \ {"Unknown"},
         Honest(r), r.phase = "in", r.at \in 3 .. 7, SameSpot(q, r), q.md = r.md,
         q.audit = None, q.recorded = None, q.applied = FALSE,
         q.denied # None <=> err \in {"Unauthenticated", "PermissionDenied"},
         q.denied = "authz" => q.charged = TRUE,
         q.denied = "authn" => q.charged = FALSE
  PROVE  Honest(Reject(q, err))
<1>. DEFINE p == [q EXCEPT !.err = err]
            b == Back(p)
<1>1. Position(r) /\ DOMAIN q = Fields /\ q.md \in Senders /\ r.method \in RPCs
  BY Zenon DEF Honest, SameSpot, Position
<1>2. /\ DOMAIN p = Fields /\ p.err = err /\ p.md = q.md /\ p.audit = None /\ p.recorded = None
      /\ p.applied = FALSE /\ p.denied = q.denied /\ p.charged = q.charged
      /\ p.at = r.at /\ p.method = r.method
  BY <1>1, Zenon DEF Fields, SameSpot
<1>3. Reject(q, err) = b
  BY Zenon DEF Reject
<1>. HIDE DEF p
<1>4. Position(b) /\ b.phase = "out" /\ b.at = 2 /\ b.method = r.method
  BY <1>1, <1>2, BackTo DEF Fields
<1>5. DOMAIN b = Fields /\ SameStory(b, p)
  BY <1>2, Moves, Zenon
<1>. HIDE DEF b
<1>6. Denial(b)
  BY <1>2, <1>5, Zenon DEF Denial, SameStory
<1>7. Audited(b)
  BY <1>2, <1>5, Zenon DEF Audited, SameStory
<1>8. b.at # Len(Chain(b.method)) /\ b.at # 1
  BY <1>4, Chains DEF Chain
<1>9. b.err \in Ends \cup {"Unauthenticated", "PermissionDenied"} /\ b.applied = FALSE /\ b.recorded = None
  BY <1>2, <1>5, Zenon DEF SameStory, Ends
<1>10. GoingOut(b)
  BY <1>4, <1>6, <1>7, <1>8, <1>9, Zenon DEF GoingOut
<1>. QED  BY <1>1, <1>2, <1>3, <1>4, <1>5, <1>10, Zenon DEF Honest, SameStory

LEMMA HonestShed ==
  ASSUME NEW r, Honest(r), r.phase = "in", r.at \in 3 .. 7
  PROVE  Honest(Reject(r, "ResourceExhausted"))
<1>1. Untold(r)
  BY Zenon DEF Honest, GoingIn
<1>2. /\ SameSpot(r, r) /\ r.audit = None /\ r.recorded = None /\ r.applied = FALSE
      /\ r.denied = None /\ r.denied # "authz" /\ r.denied # "authn"
  BY <1>1, ClientAssumption, Zenon DEF SameSpot, Untold
<1>3. "ResourceExhausted" \in Codes \ {"Unknown"}
  BY Zenon DEF Codes
<1>. QED  BY <1>2, <1>3, HonestReject, Zenon

\* A handler is left for the audit interceptor.
LEMMA HonestFinish ==
  ASSUME NEW r, NEW err \in Ends, NEW applied \in BOOLEAN, Honest(r), r.phase = "handler",
         applied = TRUE => isMutation(r.method)
  PROVE  Honest(Finish(r, err, applied))
<1>. DEFINE p == [r EXCEPT !.err = err, !.applied = applied, !.at = @ + 1, !.n = 0, !.open = FALSE]
            b == Back(p)
<1>1. /\ Position(r) /\ DOMAIN r = Fields /\ r.md \in Senders /\ GoingIn(r)
      /\ r.at = (IF Unary(r.method) THEN 9 ELSE 7) /\ r.method \in RPCs
  BY Zenon DEF Honest, Position
<1>2. /\ DOMAIN p = Fields /\ p.at = r.at + 1 /\ p.method = r.method /\ p.err = err
      /\ p.applied = applied /\ p.md = r.md /\ p.claims = r.claims /\ p.judged = r.judged
      /\ p.audit = r.audit /\ p.denied = r.denied /\ p.recorded = r.recorded
  BY <1>1, Zenon DEF Fields
<1>3. Finish(r, err, applied) = b
  BY Zenon DEF Finish
<1>. HIDE DEF p
<1>4. Position(b) /\ b.phase = "out" /\ b.at = r.at /\ b.method = r.method
  BY <1>1, <1>2, BackTo DEF Fields
<1>5. DOMAIN b = Fields /\ SameStory(b, p)
  BY <1>2, Moves, Zenon
<1>. HIDE DEF b
<1>6. Known(b) /\ Permitted(b)
  BY <1>1, <1>2, <1>5 DEF GoingIn, Known, Permitted, SameStory
<1>7. b.denied = None /\ b.audit = None /\ b.recorded = None
  BY <1>1, <1>2, <1>5, Zenon DEF GoingIn, Untold, SameStory
<1>8. b.err = err /\ b.applied = applied /\ b.md \in Senders
  BY <1>1, <1>2, <1>5, Zenon DEF SameStory
<1>9. b.at = Len(Chain(b.method)) /\ b.at # 1
  <2>1. Len(Chain(b.method)) = IF Unary(r.method) THEN 9 ELSE 7
    BY <1>4, AuditIsLast, Zenon
  <2>. QED  BY <1>1, <1>4, <2>1
<1>10. Denial(b)
  BY <1>7, <1>8, ClientAssumption, Zenon DEF Denial, Ends
<1>11. GoingOut(b)
  BY <1>4, <1>6, <1>7, <1>8, <1>9, <1>10, Zenon DEF GoingOut
<1>. QED  BY <1>3, <1>4, <1>5, <1>8, <1>11, Zenon DEF Honest

\* One step out, with what an interceptor writes down as it is left.
LEMMA HonestBack ==
  ASSUME NEW r, NEW q, Honest(r), r.phase = "out", r.at # 1, SameSpot(q, r),
         q.md = r.md, q.claims = r.claims, q.err = r.err, q.applied = r.applied,
         q.judged = r.judged, q.charged = r.charged, q.denied = r.denied,
         Audited(q),
         q.recorded = IF r.at = 2 /\ r.err # "panic" THEN getErrorCode(r.err) ELSE None
  PROVE  Honest(Back(q))
<1>. DEFINE b == Back(q)
<1>1. Position(r) /\ DOMAIN q = Fields /\ q.md \in Senders /\ GoingOut(r)
  BY Zenon DEF Honest, SameSpot
<1>2. Position(q) /\ q.phase = "out" /\ q.at = r.at /\ q.method = r.method
  BY <1>1, SamePosition, Zenon DEF SameSpot
<1>3. /\ Position(b) /\ b.phase = "out" /\ b.method = r.method
      /\ r.at = 2 => b.at = 1
      /\ r.at = 7 => b.at = 2
      /\ r.at = 8 => b.at = 7
      /\ r.at = 9 => b.at = 8
  BY <1>2, BackFrom
<1>4. DOMAIN b = Fields /\ SameStory(b, q)
  BY <1>1, Moves, Zenon
<1>. HIDE DEF b
<1>5. /\ Unary(r.method) => r.at \in {2, 7, 8, 9}
      /\ ~Unary(r.method) => r.at \in {2, 7}
  BY <1>1, Zenon DEF Position
<1>6. (b.at = 1 <=> r.at = 2) /\ (b.at \notin {1, 2} => r.at \notin {1, 2}) /\ b.at # Len(Chain(b.method))
  <2>1. Len(Chain(b.method)) = IF Unary(r.method) THEN 9 ELSE 7
    BY <1>3, AuditIsLast, Zenon
  <2>2. CASE Unary(r.method)
    BY <1>3, <1>5, <2>1, <2>2
  <2>3. CASE ~Unary(r.method)
    BY <1>3, <1>5, <2>1, <2>3
  <2>. QED  BY <2>2, <2>3, Zenon
<1>7. b.at \notin {1, 2} => Known(b) /\ Permitted(b) /\ b.denied = None
  BY <1>1, <1>2, <1>4, <1>6, Zenon DEF GoingOut, SameStory, Known, Permitted
<1>8. Denial(b) /\ b.err \in Ends \cup {"Unauthenticated", "PermissionDenied"}
  BY <1>1, <1>4, Zenon DEF GoingOut, Denial, SameStory
<1>9. b.applied = TRUE => isMutation(b.method) /\ Known(b)
  BY <1>1, <1>2, <1>4 DEF GoingOut, SameStory, Known
<1>10. Audited(b) /\ b.recorded = IF b.at = 1 /\ b.err # "panic" THEN getErrorCode(b.err) ELSE None
  BY <1>4, <1>6, Retold, Zenon DEF SameStory
<1>11. GoingOut(b)
  BY <1>6, <1>7, <1>8, <1>9, <1>10, Zenon DEF GoingOut
<1>. QED  BY <1>1, <1>3, <1>4, <1>11, Zenon DEF Honest, SameStory, b

\* The errors a unary handler returns, and the methods whose handler applies
\* something.
LEMMA HandlerEnds ==
  ASSUME NEW m \in {"GetUser", "CreateUser", "UpdateUser", "DeleteUser", "HealthCheck"},
         NEW d \in Data, NEW o \in UserHandler(m, d)
  PROVE  o.err \in Ends /\ o.applied \in BOOLEAN /\ (o.applied = TRUE => isMutation(m))
<1>1. ASSUME NEW us, NEW x,
             \/ x \in Refuses(us) \/ x \in Fails(us)
             \/ x \in Outcomes({"OK"}, FALSE, us)
             \/ x \in Outcomes({"InvalidArgument", "Internal"}, FALSE, us)
             \/ \E e \in {"nil", "ErrNotFound", "ErrCapacity"} : x \in Answers(e, us)
      PROVE  x.err \in Ends /\ x.applied = FALSE
  <2>1. /\ mapStorageError("nil") = "OK" /\ mapStorageError("ErrNotFound") = "NotFound"
        /\ mapStorageError("ErrCapacity") = "ResourceExhausted"
        /\ mapStorageError("context") = "context" /\ mapStorageError("other") = "Unavailable"
    BY Zenon DEF mapStorageError
  <2>. QED  BY <1>1, <2>1 DEF Refuses, Fails, Answers, Outcomes, Ends, Codes
<1>2. ASSUME NEW us, NEW errs \in SUBSET {"ErrCapacity", "ErrAlreadyExists", "ErrNotFound"},
             NEW x \in Applies(errs, us)
      PROVE  x.err \in Ends /\ x.applied = TRUE
  <2>1. ASSUME NEW e \in {"nil", "context", "other"} \cup errs PROVE mapStorageError(e) \in Ends
    <3>1. /\ mapStorageError("nil") = "OK" /\ mapStorageError("ErrNotFound") = "NotFound"
          /\ mapStorageError("ErrCapacity") = "ResourceExhausted"
          /\ mapStorageError("ErrAlreadyExists") = "AlreadyExists"
          /\ mapStorageError("context") = "context" /\ mapStorageError("other") = "Unavailable"
      BY Zenon DEF mapStorageError
    <3>2. e \in {"nil", "context", "other", "ErrCapacity", "ErrAlreadyExists", "ErrNotFound"}
      BY <2>1, Zenon
    <3>. QED  BY <3>1, <3>2, Zenon DEF Ends, Codes
  <2>2. PICK err \in {mapStorageError(e) : e \in {"nil", "context", "other"} \cup errs} \cup {"panic"} :
          x = [err |-> err, applied |-> TRUE, users |-> us]
    BY <1>2, Zenon DEF Applies, Outcomes
  <2>3. err \in Ends
    BY <2>1, <2>2, Zenon DEF Ends, Codes
  <2>. QED  BY <2>2, <2>3, Zenon
<1>3. CASE m = "GetUser"
  BY <1>1, <1>3, Zenon DEF UserHandler, GetUser
<1>4. CASE m = "HealthCheck"
  BY <1>1, <1>4, Zenon DEF UserHandler
<1>5. CASE m \in {"UpdateUser", "DeleteUser"}
  BY <1>1, <1>2, <1>5, Zenon DEF UserHandler, UpdateUser, DeleteUser, isMutation
<1>6. CASE m = "CreateUser"
  <2>. DEFINE App(id) == Applies({"ErrCapacity", "ErrAlreadyExists", "ErrNotFound"},
                                 [users EXCEPT ![id] =
                                    [name |-> d.name, email |-> d.email, age |-> d.age]])
  <2>1. \/ o \in Refuses(users) \/ o \in Fails(users)
        \/ o \in Outcomes({"InvalidArgument", "Internal"}, FALSE, users)
        \/ \E e \in {"nil", "ErrNotFound", "ErrCapacity"} : o \in Answers(e, users)
        \/ \E id \in Ids : o \in App(id)
    <3>1. o \in CreateUser(users, d)
      BY <1>6, Zenon DEF UserHandler
    <3>2. CASE ~validateUserFields(d)
      BY <3>1, <3>2, Zenon DEF CreateUser
    <3>3. CASE validateUserFields(d)
      <4>. DEFINE Replays == IF Live(users) = {} THEN {}
                             ELSE Answers("nil", users) \cup Answers("ErrNotFound", users)
                  Stores == IF Cardinality(Live(users)) >= MaxUsers THEN Answers("ErrCapacity", users)
                            ELSE UNION {App(id) : id \in Ids \ Live(users)}
      <4>1. CreateUser(users, d) =
              UNION {Fails(users), Outcomes({"InvalidArgument", "Internal"}, FALSE, users),
                     Replays, Stores}
        BY <3>3, Zenon DEF CreateUser
      <4>. HIDE DEF App
      <4>2. o \in Replays => o \in Answers("nil", users) \/ o \in Answers("ErrNotFound", users)
        BY Zenon
      <4>3. o \in Stores => o \in Answers("ErrCapacity", users) \/ \E id \in Ids : o \in App(id)
        BY Zenon
      <4>. HIDE DEF Replays, Stores
      <4>. QED  BY <3>1, <4>1, <4>2, <4>3, Zenon
    <3>. QED  BY <3>2, <3>3, Zenon
  <2>. QED  BY <1>1, <1>2, <1>6, <2>1, Zenon DEF isMutation
<1>. QED  BY <1>3, <1>4, <1>5, <1>6, Zenon

LEMMA HonestSet ==
  ASSUME HonestInv, NEW s \in Slots, NEW r, r = NoRequest \/ Honest(r), Set(s, r), now' = now
  PROVE  HonestInv'
<1>1. Placed'
  BY OneMoves, Zenon DEF HonestInv, Honest
<1>2. \A t \in Slots : req'[t] = req[t] \/ req'[t] = r
  BY Zenon DEF HonestInv, Placed, Set
<1>. QED  BY <1>1, <1>2, Zenon DEF HonestInv

LEMMA HonestActive ==
  ASSUME HonestInv, NEW s \in Slots, req[s].phase # "none"
  PROVE  Honest(req[s]) /\ Position(req[s])
  BY DEF HonestInv, Honest, NoRequest

LEMMA ArriveHonest ==
  ASSUME HonestInv, NEW s \in Slots, NEW m \in Methods[s], NEW md \in Senders, Arrive(s, m, md)
  PROVE  HonestInv'
<1>. DEFINE r == [method |-> m, md |-> md, claims |-> Absent, phase |-> "in", at |-> 3,
                  err |-> None, applied |-> FALSE, n |-> 0, open |-> FALSE,
                  judged |-> None, charged |-> FALSE, audit |-> None, denied |-> None,
                  recorded |-> None]
<1>1. Set(s, r) /\ now' = now
  BY Zenon DEF Arrive
<1>2. Position(r)
  BY ChainAssumption DEF Position
<1>3. DOMAIN r = Fields /\ r.md \in Senders /\ r.phase # "out"
  BY Zenon DEF Fields
<1>4. GoingIn(r)
  BY Zenon DEF GoingIn, Untold
<1>5. Honest(r)
  BY <1>2, <1>3, <1>4, Zenon DEF Honest
<1>. HIDE DEF r
<1>. QED  BY <1>1, <1>5, HonestSet, Zenon

\* The interceptors in front of the handler.
LEMMA GateHonest ==
  ASSUME HonestInv, NEW s \in Slots,
         \/ RateLimit(s) \/ Authenticate(s) \/ PerClientLimit(s) \/ Authorize(s)
         \/ Acquire(s) \/ AddInFlight(s)
  PROVE  HonestInv'
<1>. DEFINE r == req[s]
<1>1. r.phase = "in" /\ now' = now
  BY Zenon DEF RateLimit, Authenticate, PerClientLimit, Authorize, Acquire, AddInFlight, Entering
<1>2. Honest(r) /\ Position(r) /\ DOMAIN r = Fields
  BY <1>1, HonestActive, Zenon DEF Honest
<1>3. GoingIn(r)
  BY <1>1, <1>2, Zenon DEF Honest
<1>4. SameSpot(r, r)
  BY Zenon DEF SameSpot
<1>5. ASSUME NEW q, q = NoRequest \/ Honest(q), Set(s, q) PROVE HonestInv'
  BY <1>1, <1>5, HonestSet, Zenon
<1>6. CASE RateLimit(s)
  <2>1. r.at = 3 /\ (Set(s, Onward(r)) \/ Set(s, Reject(r, "ResourceExhausted")))
    BY <1>6, Whereabouts, Zenon DEF RateLimit, HonestInv
  <2>. HIDE DEF r
  <2>2. r.charged = (IF r.at \in {3, 4} THEN FALSE ELSE TRUE) /\ Untold(r)
    BY <1>3, <2>1, Zenon DEF GoingIn
  <2>3. Honest(Onward(r))
    BY <1>1, <1>2, <1>4, <2>1, <2>2, HonestOnward, Zenon
  <2>4. Honest(Reject(r, "ResourceExhausted"))
    BY <1>1, <1>2, <2>1, HonestShed
  <2>. QED  BY <1>5, <2>1, <2>3, <2>4, Zenon
<1>7. CASE Authenticate(s)
  <2>. DEFINE p == [r EXCEPT !.judged = now]
              claims == authenticate(p.md, now)
              p1 == [p EXCEPT !.claims = claims]
              p2 == [p EXCEPT !.denied = "authn"]
  <2>1. /\ r.at = 4
        /\ \/ ~requiresAuth(p.method) /\ Set(s, Onward(r))
           \/ requiresAuth(p.method) /\ claims # Absent /\ Set(s, Onward(p1))
           \/ requiresAuth(p.method) /\ claims = Absent /\ Set(s, Reject(p2, "Unauthenticated"))
    BY <1>7, Whereabouts, Zenon DEF Authenticate, HonestInv
  <2>. HIDE DEF r
  <2>2. r.charged = (IF r.at \in {3, 4} THEN FALSE ELSE TRUE) /\ Untold(r)
    BY <1>3, <2>1, Zenon DEF GoingIn
  <2>3. p.md = r.md /\ p.method = r.method /\ claims = authenticate(r.md, now)
    BY <1>2, Zenon DEF Fields
  <2>4. /\ SameSpot(p1, r) /\ p1.md = r.md /\ p1.charged = r.charged /\ p1.claims = claims
        /\ p1.judged = now /\ p1.denied = r.denied /\ p1.audit = r.audit
        /\ p1.recorded = r.recorded /\ p1.applied = r.applied /\ p1.method = r.method
    BY <1>2, Zenon DEF SameSpot, Fields
  <2>5. /\ SameSpot(p2, r) /\ p2.md = r.md /\ p2.charged = r.charged /\ p2.denied = "authn"
        /\ p2.audit = r.audit /\ p2.recorded = r.recorded /\ p2.applied = r.applied
    BY <1>2, Zenon DEF SameSpot, Fields
  <2>. HIDE DEF p, claims, p1, p2
  <2>6. CASE ~requiresAuth(p.method) /\ Set(s, Onward(r))
    <3>1. Known(r)
      BY <2>3, <2>6, Zenon DEF Known
    <3>2. Honest(Onward(r))
      BY <1>1, <1>2, <1>4, <2>1, <2>2, <3>1, HonestOnward, Zenon
    <3>. QED  BY <1>5, <2>6, <3>2, Zenon
  <2>7. CASE requiresAuth(p.method) /\ claims # Absent /\ Set(s, Onward(p1))
    <3>1. Known(p1)
      BY <2>3, <2>4, <2>7, Zenon DEF Known, HonestInv
    <3>2. Untold(p1)
      BY <2>2, <2>4, Zenon DEF Untold
    <3>3. Honest(Onward(p1))
      BY <1>1, <1>2, <2>1, <2>2, <2>4, <3>1, <3>2, HonestOnward, Zenon
    <3>. QED  BY <1>5, <2>7, <3>3, Zenon
  <2>8. CASE requiresAuth(p.method) /\ claims = Absent /\ Set(s, Reject(p2, "Unauthenticated"))
    <3>1. p2.denied # None /\ p2.denied # "authz" /\ p2.charged = FALSE
      BY <2>1, <2>2, <2>5, ClientAssumption, Zenon
    <3>2. "Unauthenticated" \in Codes \ {"Unknown"}
      BY Zenon DEF Codes
    <3>3. p2.audit = None /\ p2.recorded = None /\ p2.applied = FALSE /\ r.at \in 3 .. 7
      BY <2>1, <2>2, <2>5 DEF Untold
    <3>4. SameSpot(p2, r) /\ p2.md = r.md
      BY <2>5, Zenon
    <3>5. Honest(Reject(p2, "Unauthenticated"))
      BY <1>1, <1>2, <3>1, <3>2, <3>3, <3>4, HonestReject, Zenon
    <3>. QED  BY <1>5, <2>8, <3>5, Zenon
  <2>. QED  BY <2>1, <2>6, <2>7, <2>8, Zenon
<1>8. CASE PerClientLimit(s)
  <2>. DEFINE p == [r EXCEPT !.charged = TRUE]
  <2>1. r.at = 5 /\ (Set(s, Onward(p)) \/ Set(s, Reject(r, "ResourceExhausted")))
    BY <1>8, Whereabouts, Zenon DEF PerClientLimit, HonestInv
  <2>. HIDE DEF r
  <2>2. Untold(r) /\ Known(r)
    BY <1>3, <2>1 DEF GoingIn
  <2>3. /\ SameSpot(p, r) /\ p.md = r.md /\ p.charged = TRUE /\ p.claims = r.claims
        /\ p.judged = r.judged /\ p.denied = r.denied /\ p.audit = r.audit
        /\ p.recorded = r.recorded /\ p.applied = r.applied /\ p.method = r.method
    BY <1>2, Zenon DEF SameSpot, Fields
  <2>. HIDE DEF p
  <2>4. Untold(p) /\ Known(p)
    BY <2>2, <2>3, Zenon DEF Untold, Known
  <2>5. Honest(Onward(p))
    <3>1. r.at \in {3, 4, 5} /\ r.at \notin {3, 4} /\ p.charged = TRUE
      <4>1. r.at = 5 /\ p.charged = TRUE
        BY <2>1, <2>3, Zenon
      <4>. QED  BY <4>1
    <3>2. SameSpot(p, r) /\ p.md = r.md
      BY <2>3, Zenon
    <3>. QED  BY <1>1, <1>2, <2>4, <3>1, <3>2, HonestOnward, Zenon
  <2>6. Honest(Reject(r, "ResourceExhausted"))
    BY <1>1, <1>2, <2>1, HonestShed
  <2>. QED  BY <1>5, <2>1, <2>5, <2>6, Zenon
<1>9. CASE Authorize(s)
  <2>. DEFINE p == [r EXCEPT !.denied = "authz"]
  <2>1. /\ r.at = 6
        /\ \/ Permitted(r) /\ Set(s, Onward(r))
           \/ Set(s, Reject(p, "PermissionDenied"))
    BY <1>9, Whereabouts, Zenon DEF Authorize, HonestInv, Permitted
  <2>. HIDE DEF r
  <2>2. Untold(r) /\ Known(r) /\ r.charged = TRUE /\ r.charged = (IF r.at \in {3, 4} THEN FALSE ELSE TRUE)
    BY <1>3, <2>1 DEF GoingIn
  <2>3. /\ SameSpot(p, r) /\ p.md = r.md /\ p.charged = r.charged /\ p.denied = "authz"
        /\ p.audit = r.audit /\ p.recorded = r.recorded /\ p.applied = r.applied
    BY <1>2, Zenon DEF SameSpot, Fields
  <2>. HIDE DEF p
  <2>4. CASE Permitted(r) /\ Set(s, Onward(r))
    <3>1. Honest(Onward(r))
      BY <1>1, <1>2, <1>4, <2>1, <2>2, <2>4, HonestOnward, Zenon
    <3>. QED  BY <1>5, <2>4, <3>1, Zenon
  <2>5. CASE Set(s, Reject(p, "PermissionDenied"))
    <3>1. p.denied # None /\ p.denied # "authn" /\ p.charged = TRUE
      BY <2>2, <2>3, ClientAssumption, Zenon
    <3>2. "PermissionDenied" \in Codes \ {"Unknown"}
      BY Zenon DEF Codes
    <3>3. p.audit = None /\ p.recorded = None /\ p.applied = FALSE /\ r.at \in 3 .. 7
      BY <2>1, <2>2, <2>3 DEF Untold
    <3>4. SameSpot(p, r) /\ p.md = r.md
      BY <2>3, Zenon
    <3>5. Honest(Reject(p, "PermissionDenied"))
      BY <1>1, <1>2, <3>1, <3>2, <3>3, <3>4, HonestReject, Zenon
    <3>. QED  BY <1>5, <2>5, <3>5, Zenon
  <2>. QED  BY <2>1, <2>4, <2>5, Zenon
<1>10. CASE Acquire(s) \/ AddInFlight(s)
  <2>1. \/ r.at = 7 /\ (Set(s, Onward(r)) \/ Set(s, Reject(r, "ResourceExhausted")))
        \/ r.at = 8 /\ Set(s, Onward(r))
    BY <1>10, Whereabouts, Zenon DEF Acquire, AddInFlight, HonestInv
  <2>. HIDE DEF r
  <2>2. Untold(r) /\ Known(r) /\ Permitted(r) /\ r.charged = (IF r.at \in {3, 4} THEN FALSE ELSE TRUE)
    BY <1>3, <2>1 DEF GoingIn
  <2>3. Honest(Onward(r))
    BY <1>1, <1>2, <1>4, <2>2, HonestOnward, Zenon
  <2>4. r.at = 7 => Honest(Reject(r, "ResourceExhausted"))
    BY <1>1, <1>2, HonestShed
  <2>. QED  BY <1>5, <2>1, <2>3, <2>4, Zenon
<1>. QED  BY <1>6, <1>7, <1>8, <1>9, <1>10, Zenon

\* The handlers: none of them denies anything.
LEMMA HandlerHonest ==
  ASSUME HonestInv, NEW s \in Slots,
         Handle(s) \/ OpenEvents(s) \/ SendEvent(s) \/ CollectMetric(s) \/ Chat(s)
  PROVE  HonestInv'
<1>. DEFINE r == req[s]
<1>1. r.phase = "handler" /\ now' = now
  BY Zenon DEF Handle, OpenEvents, SendEvent, CollectMetric, Chat, Handling, handlerFrame
<1>2. Honest(r) /\ Position(r) /\ DOMAIN r = Fields
  BY <1>1, HonestActive, Zenon DEF Honest
<1>3. \/ \E err \in Ends, applied \in BOOLEAN :
           (applied = TRUE => isMutation(r.method)) /\ Set(s, Finish(r, err, applied))
      \/ Set(s, [r EXCEPT !.open = TRUE])
      \/ Set(s, [r EXCEPT !.n = @ + 1])
  <2>1. CASE Handle(s)
    <3>1. r.method \in {"GetUser", "CreateUser", "UpdateUser", "DeleteUser", "HealthCheck"}
      BY <1>2, <2>1, Zenon DEF Handle, Unary, Position, RPCs
    <3>2. PICK d \in Data : \E o \in UserHandler(r.method, d) : Set(s, Finish(r, o.err, o.applied))
      BY <2>1, Zenon DEF Handle
    <3>. QED  BY <3>1, <3>2, HandlerEnds, Zenon
  <2>2. ASSUME NEW err, EndHandler(s, err),
               err \in {"OK", "InvalidArgument", "ResourceExhausted", "NotFound", "context",
                        "Unavailable", "Canceled", "Internal", "panic"}
        PROVE  \E e \in Ends, applied \in BOOLEAN :
                 (applied = TRUE => isMutation(r.method)) /\ Set(s, Finish(r, e, applied))
    BY <2>2, Zenon DEF EndHandler, Ends, Codes
  <2>3. CASE OpenEvents(s)
    <3>1. ASSUME NEW id \in Ids, NEW o \in GetUser(users, [id |-> id])
          PROVE  o.err \in {"OK", "NotFound", "context", "Unavailable", "panic"}
      BY <3>1, ChainAssumption DEF GetUser, Fails, Answers, Outcomes, mapStorageError
    <3>. QED  BY <2>2, <2>3, <3>1, Zenon DEF OpenEvents
  <2>4. CASE SendEvent(s) \/ CollectMetric(s) \/ Chat(s)
    BY <2>2, <2>4, Zenon DEF SendEvent, CollectMetric, Chat
  <2>. QED  BY <2>1, <2>3, <2>4, Zenon
<1>4. ASSUME NEW q, Honest(q), Set(s, q) PROVE HonestInv'
  BY <1>1, <1>4, HonestSet, Zenon
<1>5. ASSUME NEW q, SameSpot(q, r), SameStory(q, r) PROVE Honest(q)
  <2>1. Position(q)
    BY <1>2, <1>5, SamePosition, Zenon
  <2>2. GoingIn(q)
    <3>1. GoingIn(r)
      BY <1>1, <1>2, Zenon DEF Honest
    <3>. QED  BY <1>5, <3>1, Retold, Zenon DEF GoingIn, SameSpot, SameStory
  <2>. QED  BY <1>1, <1>2, <1>5, <2>1, <2>2, Zenon DEF Honest, SameSpot, SameStory
<1>6. Honest([r EXCEPT !.open = TRUE]) /\ Honest([r EXCEPT !.n = @ + 1])
  BY <1>2, <1>5, Zenon DEF SameSpot, SameStory, Fields
<1>7. ASSUME NEW err \in Ends, NEW applied \in BOOLEAN, applied = TRUE => isMutation(r.method)
      PROVE  Honest(Finish(r, err, applied))
  BY <1>1, <1>2, <1>7, HonestFinish, Zenon
<1>. QED  BY <1>3, <1>4, <1>6, <1>7, Zenon

\* On the way out what is written down is true of the request.
LEMMA OutHonest ==
  ASSUME HonestInv, NEW s \in Slots,
         Audit(s) \/ SubInFlight(s) \/ Release(s) \/ Record(s) \/ Recover(s)
  PROVE  HonestInv'
<1>. DEFINE r == req[s]
<1>1. r.phase = "out" /\ now' = now
  BY Zenon DEF Audit, SubInFlight, Release, Record, Recover, Leaving, handlerFrame
<1>2. Honest(r) /\ Position(r) /\ DOMAIN r = Fields
  BY <1>1, HonestActive, Zenon DEF Honest
<1>3. GoingOut(r)
  BY <1>1, <1>2, Zenon DEF Honest
<1>4. ASSUME NEW q, q = NoRequest \/ Honest(q), Set(s, q) PROVE HonestInv'
  BY <1>1, <1>4, HonestSet, Zenon
<1>5. Len(Chain(r.method)) = IF Unary(r.method) THEN 9 ELSE 7
  BY AuditIsLast, Zenon
<1>6. CASE Audit(s)
  <2>. DEFINE a == [code |-> getErrorCode(r.err), client |-> extractClientID(r)]
              q == [r EXCEPT !.audit = IF r.err # "panic" /\ isMutation(r.method) THEN a ELSE None]
  <2>1. Set(s, Back(q))
    BY <1>6, Zenon DEF Audit
  <2>2. r.at \in {7, 9}
    BY <1>6, Whereabouts, Zenon DEF Audit, HonestInv
  <2>. HIDE DEF r
  <2>3. /\ SameSpot(q, r) /\ q.md = r.md /\ q.claims = r.claims /\ q.err = r.err
        /\ q.applied = r.applied /\ q.judged = r.judged /\ q.charged = r.charged
        /\ q.denied = r.denied /\ q.recorded = r.recorded /\ q.method = r.method
        /\ q.audit = IF r.err # "panic" /\ isMutation(r.method) THEN a ELSE None
    BY <1>2, Zenon DEF SameSpot, Fields
  <2>4. a.code = getErrorCode(r.err) /\ a.client = extractClientID(r)
    BY Zenon
  <2>5. isMutation(r.method) => requiresAuth(r.method)
    BY Zenon DEF isMutation, requiresAuth
  <2>6. r.denied = None /\ Known(r) /\ r.recorded = None /\ r.err \in Codes
    <3>1. r.at \notin {1, 2}
      BY <2>2
    <3>2. r.err \in Ends \cup {"Unauthenticated", "PermissionDenied"}
      BY <1>3, Zenon DEF GoingOut
    <3>3. r.err \in Codes
      BY <3>2, Zenon DEF Ends, Codes
    <3>. QED  BY <1>3, <3>1, <3>3, Zenon DEF GoingOut
  <2>7. requiresAuth(r.method) => r.claims # Absent /\ extractClientID(r) = r.claims.subject
    BY <2>6, Zenon DEF Known, extractClientID
  <2>8. isMutation(r.method) => extractClientID(r) \in Clients
    BY <1>2, <2>5, <2>6, <2>7, ClientAssumption, Zenon DEF Known, Honest
  <2>9. getErrorCode(r.err) \in Codes
    BY <2>6, Zenon DEF getErrorCode, Codes
  <2>10. isMutation(r.method) => a # None
    BY <2>8, <2>9, ClientAssumption
  <2>. HIDE DEF q, a
  <2>11. r.applied = TRUE => isMutation(r.method)
    BY <1>3, Zenon DEF GoingOut
  <2>12. Audited(q)
    BY <2>3, <2>4, <2>5, <2>6, <2>7, <2>10, <2>11, Zenon DEF Audited
  <2>13. Honest(Back(q))
    <3>1. r.at # 1 /\ r.at # 2 /\ q.recorded = None
      BY <2>2, <2>3, <2>6
    <3>. QED  BY <1>1, <1>2, <2>3, <2>12, <3>1, HonestBack, Zenon
  <2>. QED  BY <1>4, <2>1, <2>13, Zenon
<1>7. CASE SubInFlight(s) \/ Release(s)
  <2>1. r.at \in {7, 8} /\ Unary(r.method) /\ Set(s, Back(r))
    BY <1>7, Whereabouts, Zenon DEF SubInFlight, Release, HonestInv
  <2>. HIDE DEF r
  <2>2. Audited(r) /\ r.recorded = None /\ r.at \notin {1, 2}
    BY <1>3, <1>5, <2>1 DEF GoingOut
  <2>3. Honest(Back(r))
    BY <1>1, <1>2, <2>2, HonestBack, Zenon DEF SameSpot
  <2>. QED  BY <1>4, <2>1, <2>3, Zenon
<1>8. CASE Record(s)
  <2>. DEFINE q == [r EXCEPT !.recorded = IF r.err = "panic" THEN None ELSE getErrorCode(r.err)]
  <2>1. r.at = 2 /\ Set(s, Back(q))
    BY <1>8, Whereabouts, Zenon DEF Record, HonestInv
  <2>. HIDE DEF r
  <2>2. /\ SameSpot(q, r) /\ q.md = r.md /\ q.claims = r.claims /\ q.err = r.err
        /\ q.applied = r.applied /\ q.judged = r.judged /\ q.charged = r.charged
        /\ q.denied = r.denied /\ q.audit = r.audit /\ q.method = r.method
        /\ q.recorded = IF r.err = "panic" THEN None ELSE getErrorCode(r.err)
    BY <1>2, Zenon DEF SameSpot, Fields
  <2>. HIDE DEF q
  <2>3. Audited(r)
    BY <1>3, <1>5, <2>1 DEF GoingOut
  <2>4. Audited(q)
    BY <2>2, <2>3, Zenon DEF Audited
  <2>5. Honest(Back(q))
    BY <1>1, <1>2, <2>1, <2>2, <2>4, HonestBack
  <2>. QED  BY <1>4, <2>1, <2>5, Zenon
<1>9. CASE Recover(s)
  BY <1>4, <1>9, Zenon DEF Recover
<1>. QED  BY <1>6, <1>7, <1>8, <1>9, Zenon

LEMMA HonestAlways == Spec => []HonestInv
<1>1. Init => HonestInv
  BY ChainAssumption DEF Init, HonestInv, Placed
<1>2. HonestInv /\ [Next]_vars => HonestInv'
  <2>. SUFFICES ASSUME HonestInv, [Next]_vars PROVE HonestInv'
    BY Zenon
  <2>1. CASE Tick
    BY <2>1, Zenon DEF Tick, HonestInv, Placed
  <2>2. CASE UNCHANGED vars
    BY <2>2, Zenon DEF vars, HonestInv, Placed
  <2>3. ASSUME NEW s \in Slots, Step(s) \/ Receive(s) PROVE HonestInv'
    BY <2>3, GateHonest, HandlerHonest, OutHonest, Zenon DEF Step, Receive
  <2>4. ASSUME NEW s \in Slots, NEW m \in Methods[s], NEW md \in Senders, Arrive(s, m, md)
        PROVE  HonestInv'
    BY <2>4, ArriveHonest, Zenon
  <2>. QED  BY <2>1, <2>2, <2>3, <2>4, Zenon DEF Next
<1>. QED  BY <1>1, <1>2, PTL DEF Spec

\* For every configuration the server starts with, and every token: nobody is
\* accepted without a vouched credential, and nobody who presents one alone is
\* turned away.
THEOREM Authentic == Spec => []OnlyVouchedAccepted
<1>1. HonestInv => OnlyVouchedAccepted
  <2>. SUFFICES ASSUME HonestInv, NEW md \in Metadata
       PROVE  IF authenticate(md, now) # Absent THEN \E c \in Presented(md) : Vouched(c, now)
              ELSE Alone(md) => \A c \in Presented(md) : ~Vouched(c, now)
    BY Zenon DEF OnlyVouchedAccepted
  <2>1. now \in Nat
    BY ChainAssumption DEF HonestInv
  <2>. DEFINE c == credentialFromContext(md)
  <2>2. authenticate(md, now) # Absent <=> c # Absent /\ Vouched(c, now)
    BY <2>1, Accepted, Zenon
  <2>3. c \in Presented(md) \cup {Absent} /\ (Alone(md) => Presented(md) \subseteq {c})
    BY Judged, Zenon
  <2>4. Absent \notin Presented(md)
    BY CredentialAssumption, Zenon DEF Credentials
  <2>. HIDE DEF c
  <2>. QED  BY <2>2, <2>3, <2>4, Zenon
<1>. QED  BY <1>1, HonestAlways, PTL

\* For every policy, limit and configuration: no slot is held and no handler
\* runs for a caller who was not vouched for and permitted, and who is denied
\* for lack of scope has paid for it.
THEOREM Ordered == Spec => []ChainOrder
<1>1. HonestInv => ChainOrder
  <2>. SUFFICES ASSUME HonestInv, NEW s \in Slots, Active(s)
       PROVE  /\ requiresAuth(req[s].method) /\ (Inside(s, "acquire") \/ req[s].phase = "handler") =>
                   /\ req[s].judged # None
                   /\ \E c \in Presented(req[s].md) : Vouched(c, req[s].judged)
                   /\ authorize(req[s].method, req[s].claims)
              /\ req[s].denied = "authz" => req[s].charged
              /\ req[s].denied = "authn" => ~req[s].charged
    BY Zenon DEF ChainOrder
  <2>. DEFINE r == req[s]
  <2>1. Honest(r) /\ Position(r)
    BY HonestActive, Zenon DEF Active
  <2>2. Inside(s, "acquire") <=> Holds(r, "acquire")
    BY Zenon DEF Inside, Holds, Active
  <2>. HIDE DEF r
  <2>3. Holds(r, "acquire") \/ r.phase = "handler" => r.at \in {7, 8, 9}
    <3>1. CASE Unary(r.method)
      BY <2>1, <3>1, Chains DEF Holds, Position, Chain
    <3>2. CASE ~Unary(r.method)
      BY <2>1, <3>2, Chains, Zenon DEF Holds, Position, Chain
    <3>. QED  BY <3>1, <3>2, Zenon
  <2>4. r.at \in {7, 8, 9} => Known(r) /\ Permitted(r)
    <3>1. CASE r.phase = "out"
      BY <2>1, <3>1 DEF Honest, GoingOut
    <3>2. CASE r.phase # "out"
      BY <2>1, <3>2 DEF Honest, GoingIn
    <3>. QED  BY <3>1, <3>2, Zenon
  <2>5. ASSUME requiresAuth(r.method), Known(r)
        PROVE  r.judged # None /\ \E c \in Presented(r.md) : Vouched(c, r.judged)
    <3>1. r.judged \in Nat /\ r.md \in Senders
      BY <2>1, <2>5, ChainAssumption DEF Known, Honest
    <3>2. authenticate(r.md, r.judged) # Absent
      BY <2>5, Zenon DEF Known
    <3>. DEFINE c == credentialFromContext(r.md)
    <3>3. c # Absent /\ Vouched(c, r.judged)
      BY <3>1, <3>2, Accepted, Zenon
    <3>4. c \in Presented(r.md) \cup {Absent}
      BY <3>1, Judged, Zenon
    <3>. QED  BY <3>1, <3>3, <3>4, ClientAssumption, Zenon
  <2>6. r.denied = "authz" => r.charged
    BY <2>1, ClientAssumption, Zenon DEF Honest, GoingIn, GoingOut, Denial, Untold
  <2>7. r.denied = "authn" => ~r.charged
    BY <2>1, ClientAssumption, Zenon DEF Honest, GoingIn, GoingOut, Denial, Untold
  <2>. QED  BY <2>2, <2>3, <2>4, <2>5, <2>6, <2>7, Zenon DEF Permitted, r
<1>. QED  BY <1>1, HonestAlways, PTL

\* Whatever a request meets on its way, the audit record and the metrics tell
\* how it ended, and the audit record is there if something was applied.
THEOREM Truthful == Spec => []RecordsTruthful
<1>1. HonestInv => RecordsTruthful
  <2>. SUFFICES ASSUME HonestInv, NEW s \in Slots, Done(s), NEW r, r = req[s]
       PROVE  /\ r.applied /\ r.err # "panic" => r.audit # None /\ r.audit.client = r.claims.subject
              /\ r.audit # None => isMutation(r.method) /\ r.denied = None /\ r.audit.code = r.recorded
              /\ r.err \in {"Unauthenticated", "PermissionDenied"} <=> r.denied # None
              /\ r.recorded = None <=> r.err = "panic"
              /\ r.recorded # None =>
                   \/ r.recorded = WireCode(r.err)
                   \/ r.recorded = "Unknown" /\ WireCode(r.err) = "DeadlineExceeded"
    BY Zenon DEF RecordsTruthful
  <2>1. r.phase = "out" /\ r.at = 1
    BY Whereabouts, Zenon DEF Done, Leaving, HonestInv
  <2>2. GoingOut(r)
    BY <2>1, HonestActive, Zenon DEF Honest
  <2>3. r.recorded = (IF r.err # "panic" THEN getErrorCode(r.err) ELSE None) /\ Audited(r)
    BY <2>1, <2>2, AuditIsLast DEF GoingOut
  <2>4. r.err \in Codes
    BY <2>2, Zenon DEF GoingOut, Ends, Codes
  <2>5. getErrorCode(r.err) # None
    BY <2>4, ClientAssumption, Zenon DEF getErrorCode, Codes
  <2>6. /\ r.recorded = None <=> r.err = "panic"
        /\ r.recorded # None =>
             \/ r.recorded = WireCode(r.err)
             \/ r.recorded = "Unknown" /\ WireCode(r.err) = "DeadlineExceeded"
    BY <2>3, <2>5, Zenon DEF getErrorCode, WireCode
  <2>7. /\ r.applied /\ r.err # "panic" => r.audit # None /\ r.audit.client = r.claims.subject
        /\ r.audit # None => isMutation(r.method) /\ r.denied = None /\ r.audit.code = r.recorded
    BY <2>3, Zenon DEF Audited
  <2>8. r.err \in {"Unauthenticated", "PermissionDenied"} <=> r.denied # None
    BY <2>2, Zenon DEF GoingOut, Denial
  <2>. QED  BY <2>6, <2>7, <2>8, Zenon
<1>. QED  BY <1>1, HonestAlways, PTL
-----------------------------------------------------------------------------
(* The stored users *)

UsersInv == DOMAIN users = Ids /\ StoredUsersValid

\* The users each kind of outcome leaves are the ones it names.
LEMMA OutcomeLeaves ==
  ASSUME NEW us, NEW o,
         \/ o \in Refuses(us) \/ o \in Fails(us) \/ \E errs : o \in Applies(errs, us)
         \/ \E e : o \in Answers(e, us)
  PROVE  o.users = us
<1>1. ASSUME NEW errs, NEW applied, o \in Outcomes(errs, applied, us) PROVE o.users = us
  BY <1>1 DEF Outcomes
<1>2. CASE o \in Refuses(us)
  BY <1>1, <1>2, Zenon DEF Refuses
<1>3. CASE o \in Fails(us)
  BY <1>1, <1>3, Zenon DEF Fails
<1>4. ASSUME NEW errs, o \in Applies(errs, us) PROVE o.users = us
  BY <1>1, <1>4, Zenon DEF Applies
<1>5. ASSUME NEW e, o \in Answers(e, us) PROVE o.users = us
  BY <1>1, <1>5, Zenon DEF Answers
<1>. QED  BY <1>2, <1>3, <1>4, <1>5, Zenon

\* A handler stores no user that is not valid, however its call ends.
LEMMA HandlersKeepValid ==
  ASSUME UsersInv, NEW m, NEW d \in Data, NEW o \in UserHandler(m, d),
         m \in {"GetUser", "CreateUser", "UpdateUser", "DeleteUser", "HealthCheck"}
  PROVE  DOMAIN o.users = Ids /\ \A i \in Ids : o.users[i] # None => ValidUser(o.users[i])
<1>. DEFINE Good(us) == DOMAIN us = Ids /\ \A i \in Ids : us[i] # None => ValidUser(us[i])
<1>1. Good(users)
  BY Zenon DEF UsersInv, StoredUsersValid, Live
<1>2. o.users = users \/ Good(o.users)
  <2>1. CASE m \in {"GetUser", "HealthCheck"}
    BY <2>1 DEF UserHandler, GetUser, Refuses, Fails, Answers, Outcomes
  <2>2. CASE m = "CreateUser"
    <3>1. o \in CreateUser(users, d)
      BY <2>2, Zenon DEF UserHandler
    <3>2. ASSUME NEW id \in Ids, validateUserFields(d),
                 o \in Applies({"ErrCapacity", "ErrAlreadyExists", "ErrNotFound"},
                               [users EXCEPT ![id] =
                                  [name |-> d.name, email |-> d.email, age |-> d.age]])
          PROVE  Good(o.users)
      <4>. DEFINE u == [name |-> d.name, email |-> d.email, age |-> d.age]
      <4>1. ValidUser(u)
        BY <3>2, Zenon DEF validateUserFields, validateOptionalText, validateText, parseEmail, ValidUser
      <4>2. o.users = [users EXCEPT ![id] = u]
        BY <3>2, OutcomeLeaves, Zenon
      <4>. HIDE DEF u
      <4>. QED  BY <1>1, <4>1, <4>2, Zenon
    <3>3. CASE ~validateUserFields(d)
      <4>1. o \in Refuses(users)
        BY <3>1, <3>3, Zenon DEF CreateUser
      <4>. QED  BY <4>1, OutcomeLeaves, Zenon
    <3>4. CASE validateUserFields(d)
      <4>. DEFINE Same == UNION {Fails(users), Outcomes({"InvalidArgument", "Internal"}, FALSE, users),
                                 Answers("nil", users), Answers("ErrNotFound", users),
                                 Answers("ErrCapacity", users)}
                  App(id) == Applies({"ErrCapacity", "ErrAlreadyExists", "ErrNotFound"},
                                     [users EXCEPT ![id] =
                                        [name |-> d.name, email |-> d.email, age |-> d.age]])
      <4>1. CreateUser(users, d) \subseteq Same \cup UNION {App(id) : id \in Ids}
        <5>. DEFINE Replays == IF Live(users) = {} THEN {}
                               ELSE Answers("nil", users) \cup Answers("ErrNotFound", users)
                    Stores == IF Cardinality(Live(users)) >= MaxUsers THEN Answers("ErrCapacity", users)
                              ELSE UNION {App(id) : id \in Ids \ Live(users)}
        <5>1. CreateUser(users, d) =
                UNION {Fails(users), Outcomes({"InvalidArgument", "Internal"}, FALSE, users),
                       Replays, Stores}
          BY <3>4, Zenon DEF CreateUser
        <5>. HIDE DEF App
        <5>2. Replays \subseteq Same
          BY Zenon
        <5>3. Stores \subseteq Same \cup UNION {App(id) : id \in Ids}
          BY Zenon
        <5>. HIDE DEF Replays, Stores
        <5>. QED  BY <5>1, <5>2, <5>3, Zenon
      <4>2. \A x \in Same : x.users = users
        BY DEF Fails, Answers, Outcomes
      <4>3. o \in Same \/ \E id \in Ids : o \in App(id)
        <5>. HIDE DEF App, Same
        <5>. QED  BY <3>1, <4>1, Zenon
      <4>. QED  BY <3>2, <3>4, <4>2, <4>3, Zenon
    <3>. QED  BY <3>3, <3>4, Zenon
  <2>3. CASE m = "UpdateUser"
    <3>1. o \in UpdateUser(users, d)
      BY <2>3, Zenon DEF UserHandler
    <3>2. CASE d.id = None \/ ~UpdateValid(d) \/ users[d.id] = None
      <4>1. o \in Refuses(users) \/ o \in Fails(users) \/ \E e : o \in Answers(e, users)
        BY <3>1, <3>2, Zenon DEF UpdateUser
      <4>. QED  BY <4>1, OutcomeLeaves, Zenon
    <3>3. CASE d.id # None /\ UpdateValid(d) /\ users[d.id] # None
      <4>1. \/ o \in Fails(users)
            \/ o \in Applies({"ErrNotFound"}, [users EXCEPT ![d.id] = Modify(users[d.id], d)])
        BY <3>1, <3>3, Zenon DEF UpdateUser
      <4>2. o.users = users \/ o.users = [users EXCEPT ![d.id] = Modify(users[d.id], d)]
        BY <4>1, OutcomeLeaves, Zenon
      <4>3. ValidUser(users[d.id])
        BY <1>1, <3>3, Zenon DEF Data
      <4>4. ValidUser(Modify(users[d.id], d))
        BY <3>3, <4>3, Zenon DEF UpdateValid, validateOptionalText, validateText, parseEmail, ValidUser, Modify
      <4>. QED  BY <1>1, <4>2, <4>4, Zenon
    <3>. QED  BY <3>2, <3>3, Zenon
  <2>4. CASE m = "DeleteUser"
    <3>1. o \in DeleteUser(users, d)
      BY <2>4, Zenon DEF UserHandler
    <3>2. o.users = users \/ o.users = [users EXCEPT ![d.id] = None]
      <4>1. \/ o \in Refuses(users) \/ o \in Fails(users) \/ \E e : o \in Answers(e, users)
            \/ o \in Applies({"ErrNotFound"}, [users EXCEPT ![d.id] = None])
        BY <3>1, Zenon DEF DeleteUser
      <4>. QED  BY <4>1, OutcomeLeaves, Zenon
    <3>. QED  BY <1>1, <3>2, Zenon
  <2>. QED  BY <2>1, <2>2, <2>3, <2>4, Zenon
<1>. QED  BY <1>1, <1>2, Zenon

\* Creates and updates in any order and number, of some fields or all, failing
\* or not, leave no stored user that CreateUser would have refused.
THEOREM UsersStayValid == Spec => []StoredUsersValid
<1>1. Init => UsersInv
  BY Zenon DEF Init, UsersInv, StoredUsersValid, Live
<1>2. UsersInv /\ Placed /\ [Next]_vars => UsersInv'
  <2>. SUFFICES ASSUME UsersInv, Placed, [Next]_vars PROVE UsersInv'
    BY Zenon
  <2>1. CASE UNCHANGED users
    BY <2>1, Zenon DEF UsersInv, StoredUsersValid, Live
  <2>2. ASSUME NEW s \in Slots, Handle(s) PROVE UsersInv'
    <3>1. PICK d \in Data : \E o \in UserHandler(req[s].method, d) : users' = o.users
      BY <2>2, Zenon DEF Handle
    <3>2. req[s].method \in {"GetUser", "CreateUser", "UpdateUser", "DeleteUser", "HealthCheck"}
      BY <2>2, Whereabouts, Zenon DEF Handle, Position, RPCs, Unary
    <3>. QED  BY <3>1, <3>2, HandlersKeepValid, Zenon DEF UsersInv, StoredUsersValid, Live
  <2>3. UNCHANGED users \/ \E s \in Slots : Handle(s)
    <3>1. ASSUME NEW s \in Slots,
                 \/ RateLimit(s) \/ Authenticate(s) \/ PerClientLimit(s) \/ Authorize(s)
                 \/ Acquire(s) \/ AddInFlight(s)
          PROVE  UNCHANGED users
      BY <3>1, Zenon DEF RateLimit, Authenticate, PerClientLimit, Authorize, Acquire, AddInFlight
    <3>2. ASSUME NEW s \in Slots,
                 \/ OpenEvents(s) \/ SendEvent(s) \/ CollectMetric(s) \/ Chat(s)
                 \/ Audit(s) \/ SubInFlight(s) \/ Release(s) \/ Record(s) \/ Recover(s)
          PROVE  UNCHANGED users
      BY <3>2, Zenon DEF OpenEvents, SendEvent, CollectMetric, Chat, Audit, SubInFlight,
         Release, Record, Recover, handlerFrame
    <3>3. ASSUME NEW s \in Slots, NEW m, NEW md, Arrive(s, m, md) PROVE UNCHANGED users
      BY <3>3, Zenon DEF Arrive
    <3>. QED  BY <3>1, <3>2, <3>3, Zenon DEF Next, Step, Receive, Tick, vars
  <2>. QED  BY <2>1, <2>2, <2>3, Zenon
<1>3. HonestInv => Placed
  BY Zenon DEF HonestInv
<1>4. UsersInv => StoredUsersValid
  BY Zenon DEF UsersInv
<1>. QED  BY <1>1, <1>2, <1>3, <1>4, HonestAlways, PTL DEF Spec
-----------------------------------------------------------------------------
(* The slots and the gauges *)

Count == INSTANCE FiniteSetTheorems

\* The library's facts are about the cardinality the specification uses.
LEMMA SameCount ==
  /\ \A S : Count!IsFiniteSet(S) <=> IsFiniteSet(S)
  /\ \A S : Count!Cardinality(S) = Cardinality(S)
<1>1. \A S : Count!IsFiniteSet(S) <=> IsFiniteSet(S)
  BY DEF Count!IsFiniteSet, IsFiniteSet
<1>2. \A S : Count!Cardinality(S) = Cardinality(S)
  BY <1>1 DEF Count!Cardinality, Cardinality
<1>. QED  BY <1>1, <1>2

HoldsSlot(r)   == Holds(r, "acquire") /\ Limited(r.method)
HoldsGauge(r)  == Holds(r, "gauge") /\ Limited(r.method)
HoldsStream(r) == Holds(r, "metrics") /\ ~Unary(r.method)

\* What a request holds, by its index.
LEMMA HoldsAt ==
  ASSUME NEW r, Position(r)
  PROVE  /\ HoldsSlot(r) <=> Limited(r.method) /\ Unary(r.method)
                             /\ r.at >= 7 /\ (r.phase # "out" => r.at # 7)
         /\ HoldsGauge(r) <=> Limited(r.method) /\ Unary(r.method)
                              /\ r.at >= 8 /\ (r.phase # "out" => r.at # 8)
         /\ HoldsStream(r) <=> ~Unary(r.method) /\ r.at >= 2
<1>1. CASE Unary(r.method)
  BY <1>1, Chains DEF Position, Holds, HoldsSlot, HoldsGauge, HoldsStream, Chain
<1>2. CASE ~Unary(r.method)
  BY <1>2, Chains DEF Position, Holds, HoldsSlot, HoldsGauge, HoldsStream, Chain
<1>. QED  BY <1>1, <1>2, Zenon

-----------------------------------------------------------------------------
SlotHolders   == {s \in Slots : HoldsSlot(req[s])}
GaugeHolders  == {s \in Slots : HoldsGauge(req[s])}
StreamHolders == {s \in Slots : HoldsStream(req[s])}

IInv ==
  /\ Placed
  /\ sem = Cardinality(SlotHolders) /\ sem <= MaxInFlight
  /\ inFlight = Cardinality(GaugeHolders)
  /\ activeStreams = Cardinality(StreamHolders)

LEMMA NobodyHolds == ~HoldsSlot(NoRequest) /\ ~HoldsGauge(NoRequest) /\ ~HoldsStream(NoRequest)
  BY Zenon DEF NoRequest, Holds, HoldsSlot, HoldsGauge, HoldsStream

\* One more, one less or as many as before.
LEMMA Recount ==
  ASSUME NEW A \in SUBSET Slots, NEW B \in SUBSET Slots, NEW s \in Slots,
         B \ {s} = A \ {s}
  PROVE  /\ IsFiniteSet(A) /\ Cardinality(A) \in Nat /\ Cardinality(B) \in Nat
         /\ s \in A <=> s \in B => Cardinality(B) = Cardinality(A)
         /\ s \notin A /\ s \in B => Cardinality(B) = Cardinality(A) + 1
         /\ s \in A /\ s \notin B => Cardinality(B) = Cardinality(A) - 1
<1>1. IsFiniteSet(A) /\ IsFiniteSet(B)
  BY ChainAssumption, Count!FS_Subset, SameCount, Zenon
<1>2. Cardinality(A) \in Nat /\ Cardinality(B) \in Nat
  BY <1>1, Count!FS_CardinalityType, SameCount, Zenon
<1>3. (s \in A <=> s \in B) => A = B
  OBVIOUS
<1>4. s \notin A /\ s \in B => B = A \cup {s}
  BY Zenon
<1>5. s \in A /\ s \notin B => B = A \ {s}
  BY Zenon
<1>6. Cardinality(A \cup {s}) = IF s \in A THEN Cardinality(A) ELSE Cardinality(A) + 1
  BY <1>1, Count!FS_AddElement, SameCount, Zenon
<1>7. Cardinality(A \ {s}) = IF s \in A THEN Cardinality(A) - 1 ELSE Cardinality(A)
  BY <1>1, Count!FS_RemoveElement, SameCount, Zenon
<1>. QED  BY <1>1, <1>2, <1>3, <1>4, <1>5, <1>6, <1>7

\* A step of one request moves that request alone in or out of the holders.
LEMMA HoldersMove ==
  ASSUME Placed, NEW s \in Slots, NEW r, r = NoRequest \/ Position(r), Set(s, r)
  PROVE  /\ Placed' /\ req'[s] = r
         /\ SlotHolders' \ {s} = SlotHolders \ {s}
         /\ GaugeHolders' \ {s} = GaugeHolders \ {s}
         /\ StreamHolders' \ {s} = StreamHolders \ {s}
         /\ s \in SlotHolders' <=> HoldsSlot(r)
         /\ s \in GaugeHolders' <=> HoldsGauge(r)
         /\ s \in StreamHolders' <=> HoldsStream(r)
<1>1. Placed' /\ req'[s] = r /\ \A t \in Slots \ {s} : req'[t] = req[t]
  BY OneMoves, Zenon
<1>. QED  BY <1>1 DEF SlotHolders, GaugeHolders, StreamHolders

\* A step that changes what one request holds and counts it.
LEMMA CountedStep ==
  ASSUME IInv, NEW s \in Slots, NEW r, r = NoRequest \/ Position(r), Set(s, r),
         sem' = IF HoldsSlot(r) /\ ~HoldsSlot(req[s]) THEN sem + 1
                ELSE IF ~HoldsSlot(r) /\ HoldsSlot(req[s]) THEN sem - 1 ELSE sem,
         inFlight' = IF HoldsGauge(r) /\ ~HoldsGauge(req[s]) THEN inFlight + 1
                     ELSE IF ~HoldsGauge(r) /\ HoldsGauge(req[s]) THEN inFlight - 1 ELSE inFlight,
         activeStreams' = IF HoldsStream(r) /\ ~HoldsStream(req[s]) THEN activeStreams + 1
                          ELSE IF ~HoldsStream(r) /\ HoldsStream(req[s]) THEN activeStreams - 1
                          ELSE activeStreams,
         sem' <= MaxInFlight
  PROVE  IInv'
<1>1. /\ Placed' /\ req'[s] = r
      /\ SlotHolders' \ {s} = SlotHolders \ {s}
      /\ GaugeHolders' \ {s} = GaugeHolders \ {s}
      /\ StreamHolders' \ {s} = StreamHolders \ {s}
      /\ s \in SlotHolders' <=> HoldsSlot(r)
      /\ s \in GaugeHolders' <=> HoldsGauge(r)
      /\ s \in StreamHolders' <=> HoldsStream(r)
  BY HoldersMove, Zenon DEF IInv
<1>2. /\ s \in SlotHolders <=> HoldsSlot(req[s])
      /\ s \in GaugeHolders <=> HoldsGauge(req[s])
      /\ s \in StreamHolders <=> HoldsStream(req[s])
  BY Zenon DEF SlotHolders, GaugeHolders, StreamHolders
<1>3. /\ SlotHolders \in SUBSET Slots /\ SlotHolders' \in SUBSET Slots
      /\ GaugeHolders \in SUBSET Slots /\ GaugeHolders' \in SUBSET Slots
      /\ StreamHolders \in SUBSET Slots /\ StreamHolders' \in SUBSET Slots
  BY Zenon DEF SlotHolders, GaugeHolders, StreamHolders
<1>4. sem' = Cardinality(SlotHolders')
  BY <1>1, <1>2, <1>3, Recount, Zenon DEF IInv
<1>5. inFlight' = Cardinality(GaugeHolders')
  BY <1>1, <1>2, <1>3, Recount, Zenon DEF IInv
<1>6. activeStreams' = Cardinality(StreamHolders')
  BY <1>1, <1>2, <1>3, Recount DEF IInv
<1>. QED  BY <1>1, <1>4, <1>5, <1>6, Zenon DEF IInv

\* A step that changes nothing of what is held.
LEMMA NeutralStep ==
  ASSUME IInv, NEW s \in Slots, NEW r, r = NoRequest \/ Position(r), Set(s, r),
         HoldsSlot(r) <=> HoldsSlot(req[s]),
         HoldsGauge(r) <=> HoldsGauge(req[s]),
         HoldsStream(r) <=> HoldsStream(req[s]),
         UNCHANGED <<sem, inFlight, activeStreams>>
  PROVE  IInv'
<1>1. sem' = sem /\ inFlight' = inFlight /\ activeStreams' = activeStreams /\ sem' <= MaxInFlight
  BY Zenon DEF IInv
<1>. QED  BY <1>1, CountedStep, Zenon
\* Going on from an interceptor that holds nothing changes nothing held.
LEMMA GoesOn ==
  ASSUME NEW r, NEW q, Position(r), SameSpot(q, r), r.phase = "in", r.at < 7 \/ ~Limited(r.method)
  PROVE  /\ Position(Onward(q))
         /\ HoldsSlot(Onward(q)) <=> HoldsSlot(r)
         /\ HoldsGauge(Onward(q)) <=> HoldsGauge(r)
         /\ HoldsStream(Onward(q)) <=> HoldsStream(r)
<1>1. Position(q) /\ q.phase = "in"
  BY Zenon DEF Position, SameSpot
<1>2. /\ Position(Onward(q)) /\ Onward(q).method = r.method
      /\ Onward(q).phase # "out" /\ Onward(q).at = r.at + 1
  BY <1>1, OnwardTo, Zenon DEF SameSpot
<1>. QED  BY <1>2, HoldsAt DEF Position

\* A refusal before a slot is held changes nothing held.
LEMMA Refused ==
  ASSUME NEW r, NEW q, Position(r), SameSpot(q, r), r.phase = "in", r.at <= 7, NEW err
  PROVE  /\ Position(Reject(q, err))
         /\ HoldsSlot(Reject(q, err)) <=> HoldsSlot(r)
         /\ HoldsGauge(Reject(q, err)) <=> HoldsGauge(r)
         /\ HoldsStream(Reject(q, err)) <=> HoldsStream(r)
<1>. DEFINE p == [q EXCEPT !.err = err]
<1>1. /\ {"phase", "at", "method"} \subseteq DOMAIN p /\ p.at = r.at /\ p.method = r.method
      /\ r.method \in RPCs
  BY Zenon DEF SameSpot, Position
<1>2. p.at \in 3 .. 7 /\ Reject(q, err) = Back(p)
  BY <1>1 DEF Position, Reject
<1>. HIDE DEF p
<1>3. Position(Back(p)) /\ Back(p).phase = "out" /\ Back(p).method = r.method /\ Back(p).at = 2
  BY <1>1, <1>2, BackTo
<1>. QED  BY <1>2, <1>3, HoldsAt DEF Position

\* The end of a handler changes nothing held: the interceptors have yet to give
\* it back.
LEMMA Finished ==
  ASSUME NEW r, Position(r), r.phase = "handler", NEW err, NEW applied
  PROVE  /\ Position(Finish(r, err, applied))
         /\ HoldsSlot(Finish(r, err, applied)) <=> HoldsSlot(r)
         /\ HoldsGauge(Finish(r, err, applied)) <=> HoldsGauge(r)
         /\ HoldsStream(Finish(r, err, applied)) <=> HoldsStream(r)
<1>. DEFINE p == [r EXCEPT !.err = err, !.applied = applied, !.at = @ + 1, !.n = 0, !.open = FALSE]
<1>1. {"phase", "at", "method"} \subseteq DOMAIN p /\ p.at = r.at + 1 /\ p.method = r.method
  BY Zenon DEF Position
<1>2. Finish(r, err, applied) = Back(p)
  BY Zenon DEF Finish
<1>. HIDE DEF p
<1>3. /\ Position(Back(p)) /\ Back(p).phase = "out" /\ Back(p).method = r.method
      /\ Back(p).at = r.at
  <2>1. CASE Unary(r.method)
    BY <1>1, <2>1, BackTo DEF Position
  <2>2. CASE ~Unary(r.method)
    BY <1>1, <2>2, BackTo DEF Position
  <2>. QED  BY <2>1, <2>2, Zenon
<1>. QED  BY <1>2, <1>3, HoldsAt DEF Position

\* Nothing is held at the start.
LEMMA InitIInv == Init => IInv
<1>. SUFFICES ASSUME Init PROVE IInv
  BY Zenon
<1>1. Placed
  BY Zenon DEF Init, Placed
<1>2. SlotHolders = {} /\ GaugeHolders = {} /\ StreamHolders = {}
  BY NobodyHolds, Zenon DEF Init, SlotHolders, GaugeHolders, StreamHolders
<1>. QED  BY <1>1, <1>2, Count!FS_EmptySet, SameCount, ChainAssumption DEF Init, IInv

\* A stream is counted when it arrives.
LEMMA ArriveIInv ==
  ASSUME IInv, NEW s \in Slots, NEW m \in Methods[s], NEW md, Arrive(s, m, md)
  PROVE  IInv'
<1>. DEFINE r == [method |-> m, md |-> md, claims |-> Absent, phase |-> "in", at |-> 3,
                  err |-> None, applied |-> FALSE, n |-> 0, open |-> FALSE,
                  judged |-> None, charged |-> FALSE, audit |-> None, denied |-> None,
                  recorded |-> None]
<1>1. Set(s, r) /\ UNCHANGED <<sem, inFlight>>
      /\ activeStreams' = IF Unary(m) THEN activeStreams ELSE activeStreams + 1
  BY Zenon DEF Arrive, slots
<1>2. req[s] = NoRequest
  BY Whereabouts, Zenon DEF IInv, Arrive, Active
<1>3. Position(r) /\ r.method = m /\ r.at = 3 /\ r.phase = "in"
  <2>1. m \in RPCs
    BY ChainAssumption, Zenon
  <2>. QED  BY <2>1 DEF Position
<1>. HIDE DEF r
<1>4. ~HoldsSlot(r) /\ ~HoldsGauge(r) /\ (HoldsStream(r) <=> ~Unary(m))
  BY <1>3, HoldsAt
<1>5. sem' <= MaxInFlight
  BY <1>1, Zenon DEF IInv
<1>. QED  BY <1>1, <1>2, <1>3, <1>4, <1>5, NobodyHolds, CountedStep

\* The interceptors before the semaphore hold nothing.
LEMMA GateIInv ==
  ASSUME IInv, NEW s \in Slots,
         RateLimit(s) \/ Authenticate(s) \/ PerClientLimit(s) \/ Authorize(s)
  PROVE  IInv'
<1>1. req[s].phase = "in" /\ req[s].at \in 3 .. 6 /\ Position(req[s])
  <2>1. \/ Entering(s, "limit") \/ Entering(s, "auth")
        \/ Entering(s, "quota") \/ Entering(s, "authorize")
    BY Zenon DEF RateLimit, Authenticate, PerClientLimit, Authorize
  <2>2. req[s].phase = "in"
    BY <2>1, Zenon DEF Entering
  <2>3. req[s].at \in {3, 4, 5, 6}
    BY <2>1, Whereabouts, Zenon DEF IInv
  <2>4. Position(req[s])
    BY <2>2, Whereabouts, Zenon DEF IInv
  <2>. QED  BY <2>2, <2>3, <2>4
<1>2. UNCHANGED <<sem, inFlight, activeStreams>>
  BY Zenon DEF RateLimit, Authenticate, PerClientLimit, Authorize, slots
<1>3. PICK q : SameSpot(q, req[s]) /\ (Set(s, Onward(q)) \/ \E err : Set(s, Reject(q, err)))
  <2>1. CASE RateLimit(s)
    BY <2>1, Zenon DEF RateLimit, SameSpot
  <2>2. CASE Authenticate(s)
    <3>. DEFINE p == [req[s] EXCEPT !.judged = now]
                claims == authenticate(p.md, now)
                p1 == [p EXCEPT !.claims = claims]
                p2 == [p EXCEPT !.denied = "authn"]
    <3>1. SameSpot(req[s], req[s]) /\ SameSpot(p1, req[s]) /\ SameSpot(p2, req[s])
      BY DEF SameSpot
    <3>2. Set(s, Onward(req[s])) \/ Set(s, Onward(p1)) \/ Set(s, Reject(p2, "Unauthenticated"))
      BY <2>2, Zenon DEF Authenticate
    <3>. QED  BY <3>1, <3>2, Zenon
  <2>3. CASE PerClientLimit(s)
    <3>. DEFINE p == [req[s] EXCEPT !.charged = TRUE]
    <3>1. SameSpot(req[s], req[s]) /\ SameSpot(p, req[s])
      BY DEF SameSpot
    <3>2. Set(s, Onward(p)) \/ Set(s, Reject(req[s], "ResourceExhausted"))
      BY <2>3, Zenon DEF PerClientLimit
    <3>. QED  BY <3>1, <3>2, Zenon
  <2>4. CASE Authorize(s)
    <3>. DEFINE p == [req[s] EXCEPT !.denied = "authz"]
    <3>1. SameSpot(req[s], req[s]) /\ SameSpot(p, req[s])
      BY DEF SameSpot
    <3>2. Set(s, Onward(req[s])) \/ Set(s, Reject(p, "PermissionDenied"))
      BY <2>4, Zenon DEF Authorize
    <3>. QED  BY <3>1, <3>2, Zenon
  <2>. QED  BY <2>1, <2>2, <2>3, <2>4, Zenon
<1>4. CASE Set(s, Onward(q))
  <2>1. /\ Position(Onward(q))
        /\ HoldsSlot(Onward(q)) <=> HoldsSlot(req[s])
        /\ HoldsGauge(Onward(q)) <=> HoldsGauge(req[s])
        /\ HoldsStream(Onward(q)) <=> HoldsStream(req[s])
    BY <1>1, <1>3, GoesOn
  <2>. QED  BY <1>2, <1>4, <2>1, NeutralStep, Zenon
<1>5. ASSUME NEW err, Set(s, Reject(q, err)) PROVE IInv'
  <2>1. /\ Position(Reject(q, err))
        /\ HoldsSlot(Reject(q, err)) <=> HoldsSlot(req[s])
        /\ HoldsGauge(Reject(q, err)) <=> HoldsGauge(req[s])
        /\ HoldsStream(Reject(q, err)) <=> HoldsStream(req[s])
    BY <1>1, <1>3, Refused, SMTT(60)
  <2>. QED  BY <1>2, <1>5, <2>1, NeutralStep, Zenon
<1>. QED  BY <1>3, <1>4, <1>5, Zenon

\* A slot is taken by a limited request, if there is one.
LEMMA AcquireIInv ==
  ASSUME IInv, NEW s \in Slots, Acquire(s)
  PROVE  IInv'
<1>. DEFINE r == req[s]
<1>1. r.phase = "in" /\ r.at = 7 /\ Unary(r.method) /\ Position(r)
  BY Whereabouts, Zenon DEF IInv, Acquire, Entering
<1>2. UNCHANGED <<inFlight, activeStreams>>
  BY Zenon DEF Acquire
<1>3. SameSpot(r, r)
  BY Zenon DEF SameSpot
<1>4. CASE ~Limited(r.method) /\ Set(s, Onward(r)) /\ UNCHANGED sem
  BY <1>1, <1>2, <1>3, <1>4, GoesOn, NeutralStep
<1>5. CASE Limited(r.method) /\ Set(s, Reject(r, "ResourceExhausted")) /\ UNCHANGED sem
  BY <1>1, <1>2, <1>3, <1>5, Refused, NeutralStep
<1>6. CASE Limited(r.method) /\ sem < MaxInFlight /\ sem' = sem + 1 /\ Set(s, Onward(r))
  <2>1. /\ Position(Onward(r)) /\ Onward(r).method = r.method
        /\ Onward(r).phase # "out" /\ Onward(r).at = 8
    BY <1>1, OnwardTo
  <2>2. /\ HoldsSlot(Onward(r)) /\ ~HoldsSlot(r) /\ ~HoldsGauge(Onward(r)) /\ ~HoldsGauge(r)
        /\ ~HoldsStream(Onward(r)) /\ ~HoldsStream(r)
    BY <1>1, <1>6, <2>1, HoldsAt
  <2>3. sem \in Nat
    BY Count!FS_Subset, Count!FS_CardinalityType, SameCount, ChainAssumption DEF IInv, SlotHolders
  <2>4. sem' <= MaxInFlight
    BY <1>6, <2>3, ChainAssumption
  <2>. QED  BY <1>2, <1>6, <2>1, <2>2, <2>4, CountedStep
<1>. QED  BY <1>4, <1>5, <1>6, Zenon DEF Acquire

\* The gauge is raised by a limited request.
LEMMA AddInFlightIInv ==
  ASSUME IInv, NEW s \in Slots, AddInFlight(s)
  PROVE  IInv'
<1>. DEFINE r == req[s]
<1>1. r.phase = "in" /\ r.at = 8 /\ Unary(r.method) /\ Position(r)
  BY Whereabouts, Zenon DEF IInv, AddInFlight, Entering
<1>2. /\ Set(s, Onward(r)) /\ UNCHANGED <<sem, activeStreams>>
      /\ inFlight' = IF Limited(r.method) THEN inFlight + 1 ELSE inFlight
  BY Zenon DEF AddInFlight
<1>3. /\ Position(Onward(r)) /\ Onward(r).method = r.method
      /\ Onward(r).phase # "out" /\ Onward(r).at = 9
  BY <1>1, OnwardTo
<1>4. /\ HoldsSlot(Onward(r)) <=> HoldsSlot(r)
      /\ HoldsGauge(Onward(r)) <=> Limited(r.method)
      /\ ~HoldsGauge(r) /\ ~HoldsStream(Onward(r)) /\ ~HoldsStream(r)
  BY <1>1, <1>3, HoldsAt
<1>5. sem' <= MaxInFlight
  BY <1>2, Zenon DEF IInv
<1>. QED  BY <1>2, <1>3, <1>4, <1>5, CountedStep

\* The handlers neither take nor give back a slot, also when they panic.
LEMMA HandlerIInv ==
  ASSUME IInv, NEW s \in Slots,
         \/ Handle(s) \/ OpenEvents(s) \/ SendEvent(s) \/ CollectMetric(s) \/ Chat(s)
  PROVE  IInv'
<1>. DEFINE r == req[s]
<1>1. r.phase = "handler" /\ Position(r)
  BY Whereabouts, Zenon DEF IInv, Handle, OpenEvents, SendEvent, CollectMetric, Chat, Handling
<1>2. UNCHANGED <<sem, inFlight, activeStreams>>
  BY Zenon DEF Handle, OpenEvents, SendEvent, CollectMetric, Chat, handlerFrame, slots
<1>3. \/ \E err, applied : Set(s, Finish(r, err, applied))
      \/ Set(s, [r EXCEPT !.open = TRUE])
      \/ Set(s, [r EXCEPT !.n = @ + 1])
  <2>1. CASE Handle(s)
    BY <2>1, Zenon DEF Handle
  <2>2. CASE OpenEvents(s)
    BY <2>2, Zenon DEF OpenEvents, EndHandler
  <2>3. CASE SendEvent(s)
    BY <2>3, Zenon DEF SendEvent, EndHandler
  <2>4. CASE CollectMetric(s)
    BY <2>4, Zenon DEF CollectMetric, EndHandler
  <2>5. CASE Chat(s)
    BY <2>5, Zenon DEF Chat, EndHandler
  <2>. QED  BY <2>1, <2>2, <2>3, <2>4, <2>5
<1>4. ASSUME NEW err, NEW applied, Set(s, Finish(r, err, applied)) PROVE IInv'
  BY <1>1, <1>2, <1>4, Finished, NeutralStep
<1>5. ASSUME NEW q, SameSpot(q, r), Set(s, q) PROVE IInv'
  <2>1. Position(q)
    BY <1>1, <1>5, Zenon DEF Position, SameSpot
  <2>2. /\ HoldsSlot(q) <=> HoldsSlot(r)
        /\ HoldsGauge(q) <=> HoldsGauge(r)
        /\ HoldsStream(q) <=> HoldsStream(r)
    BY <1>1, <1>5, <2>1, HoldsAt DEF SameSpot
  <2>. QED  BY <1>2, <1>5, <2>1, <2>2, NeutralStep
<1>6. SameSpot([r EXCEPT !.open = TRUE], r) /\ SameSpot([r EXCEPT !.n = @ + 1], r)
  BY DEF SameSpot
<1>. QED  BY <1>3, <1>4, <1>5, <1>6, Zenon

\* The same of a request on its way out, index by index.
LEMMA OutAt ==
  ASSUME NEW r, Position(r), r.phase = "out"
  PROVE  /\ Unary(r.method) => r.at \in {1, 2, 7, 8, 9}
         /\ ~Unary(r.method) => r.at \in {1, 2, 7}
         /\ HoldsSlot(r) <=> Limited(r.method) /\ Unary(r.method) /\ r.at \in {7, 8, 9}
         /\ HoldsGauge(r) <=> Limited(r.method) /\ Unary(r.method) /\ r.at \in {8, 9}
         /\ HoldsStream(r) <=> ~Unary(r.method) /\ r.at # 1
<1>1. /\ Unary(r.method) => r.at \in {1, 2, 7, 8, 9}
      /\ ~Unary(r.method) => r.at \in {1, 2, 7}
  BY Zenon DEF Position
<1>2. r.at \in {7, 8, 9} <=> r.at >= 7
  BY <1>1
<1>3. r.at \in {8, 9} <=> r.at >= 8
  BY <1>1
<1>4. r.at # 1 <=> r.at >= 2
  BY <1>1
<1>. QED  BY <1>1, <1>2, <1>3, <1>4, HoldsAt

\* On the way out each deferred call gives back what its interceptor took.
LEMMA OutIInv ==
  ASSUME IInv, NEW s \in Slots,
         Audit(s) \/ SubInFlight(s) \/ Release(s) \/ Record(s) \/ Recover(s)
  PROVE  IInv'
<1>. DEFINE r == req[s]
<1>1. r.phase = "out" /\ Position(r)
  BY Whereabouts, Zenon DEF IInv, Audit, SubInFlight, Release, Record, Recover, Leaving
<1>2. sem <= MaxInFlight /\ sem \in Nat /\ activeStreams \in Nat
  BY Count!FS_Subset, Count!FS_CardinalityType, SameCount, ChainAssumption, Zenon DEF IInv, SlotHolders, StreamHolders
<1>3. CASE Audit(s)
  <2>1. PICK q : SameSpot(q, r) /\ Set(s, Back(q))
    <3>. DEFINE q == [r EXCEPT !.audit =
                        IF r.err # "panic" /\ isMutation(r.method)
                        THEN [code |-> getErrorCode(r.err), client |-> extractClientID(r)] ELSE None]
    <3>1. SameSpot(q, r) /\ Set(s, Back(q))
      BY <1>3 DEF SameSpot, Audit
    <3>. QED  BY <3>1, Zenon
  <2>2. r.at = IF Unary(r.method) THEN 9 ELSE 7
    BY <1>3, Whereabouts, Zenon DEF IInv, Audit
  <2>3. /\ Position(Back(q)) /\ Back(q).phase = "out" /\ Back(q).method = r.method
        /\ Back(q).at = IF Unary(r.method) THEN 8 ELSE 2
    <3>. HIDE DEF r
    <3>1. Position(q) /\ q.phase = "out" /\ q.method = r.method /\ q.at = r.at /\ q.at # 1
      BY <1>1, <2>1, <2>2, SamePosition DEF SameSpot
    <3>. QED  BY <2>2, <3>1, BackFrom, Zenon
  <2>4. /\ HoldsSlot(Back(q)) <=> HoldsSlot(r)
        /\ HoldsGauge(Back(q)) <=> HoldsGauge(r)
        /\ HoldsStream(Back(q)) <=> HoldsStream(r)
    <3>. DEFINE b == Back(q)
    <3>1. Position(b) /\ b.phase = "out" /\ b.method = r.method
          /\ b.at = IF Unary(r.method) THEN 8 ELSE 2
      BY <2>3, Zenon
    <3>. HIDE DEF b, r
    <3>2. /\ HoldsSlot(b) <=> Limited(r.method) /\ Unary(r.method)
          /\ HoldsGauge(b) <=> Limited(r.method) /\ Unary(r.method)
          /\ HoldsStream(b) <=> ~Unary(r.method)
      <4>1. CASE Unary(r.method)
        BY <3>1, <4>1, OutAt, Zenon
      <4>2. CASE ~Unary(r.method)
        BY <3>1, <4>2, OutAt, SMTT(60)
      <4>. QED  BY <4>1, <4>2, Zenon
    <3>3. /\ HoldsSlot(r) <=> Limited(r.method) /\ Unary(r.method)
          /\ HoldsGauge(r) <=> Limited(r.method) /\ Unary(r.method)
          /\ HoldsStream(r) <=> ~Unary(r.method)
      BY <1>1, <2>2, OutAt
    <3>. QED  BY <3>2, <3>3, Zenon DEF b
  <2>5. UNCHANGED <<sem, inFlight, activeStreams>>
    BY <1>3, Zenon DEF Audit, handlerFrame, slots
  <2>. QED  BY <2>1, <2>3, <2>4, <2>5, NeutralStep
<1>4. CASE SubInFlight(s)
  <2>1. r.at = 8 /\ Unary(r.method)
    BY <1>4, Whereabouts, Zenon DEF IInv, SubInFlight
  <2>2. /\ Position(Back(r)) /\ Back(r).phase = "out" /\ Back(r).method = r.method
        /\ Back(r).at = 7
    <3>. HIDE DEF r
    <3>. QED  BY <1>1, <2>1, BackFrom
  <2>3. /\ HoldsSlot(Back(r)) <=> HoldsSlot(r)
        /\ HoldsGauge(r) <=> Limited(r.method)
        /\ ~HoldsGauge(Back(r)) /\ ~HoldsStream(Back(r)) /\ ~HoldsStream(r)
    <3>. DEFINE b == Back(r)
    <3>1. Position(b) /\ b.phase = "out" /\ b.method = r.method /\ b.at = 7
      BY <2>2, Zenon
    <3>. HIDE DEF b, r
    <3>2. (HoldsSlot(b) <=> Limited(r.method)) /\ ~HoldsGauge(b) /\ ~HoldsStream(b)
      BY <2>1, <3>1, OutAt
    <3>3. /\ HoldsSlot(r) <=> Limited(r.method)
          /\ HoldsGauge(r) <=> Limited(r.method)
          /\ ~HoldsStream(r)
      BY <1>1, <2>1, OutAt, Zenon
    <3>. QED  BY <3>2, <3>3, Zenon DEF b
  <2>4. /\ Set(s, Back(r)) /\ UNCHANGED <<sem, activeStreams>>
        /\ inFlight' = IF Limited(r.method) THEN inFlight - 1 ELSE inFlight
    BY <1>4, Zenon DEF SubInFlight
  <2>. QED  BY <1>2, <2>2, <2>3, <2>4, CountedStep
<1>5. CASE Release(s)
  <2>1. r.at = 7 /\ Unary(r.method)
    BY <1>5, Whereabouts, Zenon DEF IInv, Release
  <2>2. /\ Position(Back(r)) /\ Back(r).phase = "out" /\ Back(r).method = r.method
        /\ Back(r).at = 2
    <3>. HIDE DEF r
    <3>. QED  BY <1>1, <2>1, BackFrom
  <2>3. /\ HoldsSlot(r) <=> Limited(r.method)
        /\ ~HoldsSlot(Back(r)) /\ ~HoldsGauge(Back(r)) /\ ~HoldsGauge(r)
        /\ ~HoldsStream(Back(r)) /\ ~HoldsStream(r)
    <3>. DEFINE b == Back(r)
    <3>1. Position(b) /\ b.phase = "out" /\ b.method = r.method /\ b.at = 2
      BY <2>2, Zenon
    <3>. HIDE DEF b, r
    <3>2. ~HoldsSlot(b) /\ ~HoldsGauge(b) /\ ~HoldsStream(b)
      BY <2>1, <3>1, OutAt
    <3>3. (HoldsSlot(r) <=> Limited(r.method)) /\ ~HoldsGauge(r) /\ ~HoldsStream(r)
      BY <1>1, <2>1, OutAt
    <3>. QED  BY <3>2, <3>3, Zenon DEF b
  <2>4. /\ Set(s, Back(r)) /\ UNCHANGED <<inFlight, activeStreams>>
        /\ sem' = IF Limited(r.method) THEN sem - 1 ELSE sem
    BY <1>5, Zenon DEF Release
  <2>5. sem' <= MaxInFlight
    <3>1. sem' = sem \/ sem' = sem - 1
      BY <2>4, Zenon
    <3>2. MaxInFlight \in Nat
      BY ChainAssumption, Zenon
    <3>. QED  BY <1>2, <3>1, <3>2
  <2>. QED  BY <2>2, <2>3, <2>4, <2>5, CountedStep
<1>6. CASE Record(s)
  <2>1. PICK q : SameSpot(q, r) /\ Set(s, Back(q))
    <3>. DEFINE q == [r EXCEPT !.recorded = IF r.err = "panic" THEN None ELSE getErrorCode(r.err)]
    <3>1. SameSpot(q, r) /\ Set(s, Back(q))
      BY <1>6 DEF SameSpot, Record
    <3>. QED  BY <3>1, Zenon
  <2>2. r.at = 2
    BY <1>6, Whereabouts, Zenon DEF IInv, Record
  <2>3. /\ Position(Back(q)) /\ Back(q).phase = "out" /\ Back(q).method = r.method
        /\ Back(q).at = 1
    <3>. HIDE DEF r
    <3>1. Position(q) /\ q.phase = "out" /\ q.method = r.method /\ q.at = r.at /\ q.at # 1
      BY <1>1, <2>1, <2>2, SamePosition DEF SameSpot
    <3>. QED  BY <2>2, <3>1, BackFrom, Zenon
  <2>4. /\ HoldsStream(r) <=> ~Unary(r.method)
        /\ ~HoldsStream(Back(q)) /\ ~HoldsGauge(Back(q)) /\ ~HoldsGauge(r)
        /\ ~HoldsSlot(Back(q)) /\ ~HoldsSlot(r)
    <3>. DEFINE b == Back(q)
    <3>1. Position(b) /\ b.phase = "out" /\ b.at = 1
      BY <2>3, Zenon
    <3>. HIDE DEF b, r
    <3>2. ~HoldsSlot(b) /\ ~HoldsGauge(b) /\ ~HoldsStream(b)
      BY <3>1, OutAt
    <3>3. (HoldsStream(r) <=> ~Unary(r.method)) /\ ~HoldsGauge(r) /\ ~HoldsSlot(r)
      BY <1>1, <2>2, OutAt
    <3>. QED  BY <3>2, <3>3, Zenon DEF b
  <2>5. ~Unary(r.method) => activeStreams > 0
    <3>. SUFFICES ASSUME ~Unary(r.method) PROVE activeStreams > 0
      BY Zenon
    <3>1. s \in StreamHolders /\ IsFiniteSet(StreamHolders)
      BY <2>4, Count!FS_Subset, SameCount, ChainAssumption, Zenon DEF StreamHolders
    <3>2. Cardinality(StreamHolders) # 0
      BY <3>1, Count!FS_EmptySet, SameCount, Zenon
    <3>. QED  BY <1>2, <3>2 DEF IInv
  <2>6. /\ UNCHANGED <<sem, inFlight>>
        /\ activeStreams' = IF ~Unary(r.method) THEN activeStreams - 1 ELSE activeStreams
    BY <1>6, <2>5, Zenon DEF Record, slots
  <2>. QED  BY <1>2, <2>1, <2>3, <2>4, <2>6, CountedStep
<1>7. CASE Recover(s)
  <2>1. r.at = 1
    BY <1>7, Whereabouts, Zenon DEF IInv, Recover
  <2>2. ~HoldsSlot(r) /\ ~HoldsGauge(r) /\ ~HoldsStream(r)
    <3>. HIDE DEF r
    <3>. QED  BY <1>1, <2>1, OutAt
  <2>3. Set(s, NoRequest) /\ UNCHANGED <<sem, inFlight, activeStreams>>
    BY <1>7, Zenon DEF Recover, handlerFrame, slots
  <2>. QED  BY <2>2, <2>3, NobodyHolds, NeutralStep
<1>. QED  BY <1>3, <1>4, <1>5, <1>6, <1>7

LEMMA NextIInv == IInv /\ [Next]_vars => IInv'
<1>. SUFFICES ASSUME IInv, [Next]_vars PROVE IInv'
  BY Zenon
<1>1. CASE Tick \/ UNCHANGED vars
  <2>1. UNCHANGED <<req, sem, inFlight, activeStreams>>
    BY <1>1, Zenon DEF Tick, vars, slots
  <2>. QED  BY <2>1, Zenon DEF IInv, Placed, SlotHolders, GaugeHolders, StreamHolders
<1>2. ASSUME NEW s \in Slots, Step(s) \/ Receive(s) PROVE IInv'
  BY <1>2, GateIInv, AcquireIInv, AddInFlightIInv, HandlerIInv, OutIInv DEF Step, Receive
<1>3. ASSUME NEW s \in Slots, NEW m \in Methods[s], NEW md, Arrive(s, m, md) PROVE IInv'
  BY <1>3, ArriveIInv, Zenon
<1>. QED  BY <1>1, <1>2, <1>3, Zenon DEF Next

\* However many requests are refused, fail or panic at once, every slot and
\* every count of the gauges is given back exactly once, and no more than
\* max_in_flight_requests hold a slot.
THEOREM Conservation == Spec => []SlotsConserved
<1>1. IInv => SlotsConserved
  <2>. SUFFICES ASSUME IInv PROVE SlotsConserved
    BY Zenon
  <2>1. \A s \in Slots : \A name : Inside(s, name) <=> Holds(req[s], name)
    BY Zenon DEF Inside, Holds, Active
  <2>2. /\ {s \in Slots : Inside(s, "acquire") /\ Limited(req[s].method)} = SlotHolders
        /\ {s \in Slots : Inside(s, "gauge") /\ Limited(req[s].method)} = GaugeHolders
        /\ {s \in Slots : Inside(s, "metrics") /\ ~Unary(req[s].method)} = StreamHolders
    BY <2>1, Zenon DEF SlotHolders, GaugeHolders, StreamHolders, HoldsSlot, HoldsGauge, HoldsStream
  <2>3. GaugeHolders \subseteq SlotHolders
    <3>. SUFFICES ASSUME NEW s \in Slots, HoldsGauge(req[s]) PROVE HoldsSlot(req[s])
      BY Zenon DEF GaugeHolders, SlotHolders
    <3>1. Position(req[s])
      BY NobodyHolds, Zenon DEF IInv, Placed
    <3>. DEFINE r == req[s]
    <3>2. Position(r) /\ HoldsGauge(r)
      BY <3>1, Zenon
    <3>. HIDE DEF r
    <3>3. Limited(r.method) /\ Unary(r.method) /\ r.at >= 8
      BY <3>2, HoldsAt, Zenon
    <3>4. r.at >= 7 /\ r.at # 7
      <4>1. r.at \in Nat
        BY <3>2 DEF Position
      <4>. QED  BY <3>3, <4>1
    <3>5. HoldsSlot(r)
      BY <3>2, <3>3, <3>4, HoldsAt
    <3>. QED  BY <3>5, Zenon DEF r
  <2>4. Cardinality(GaugeHolders) <= Cardinality(SlotHolders)
    BY <2>3, Count!FS_Subset, SameCount, ChainAssumption, Zenon DEF SlotHolders
  <2>. QED  BY <2>2, <2>4, Zenon DEF IInv, SlotsConserved
<1>. QED  BY <1>1, InitIInv, NextIInv, PTL DEF Spec
=============================================================================
