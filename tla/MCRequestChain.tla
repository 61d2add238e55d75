-------------------------- MODULE MCRequestChain --------------------------
(***************************************************************************)
(* RequestChain with a configuration of all key classes that may go        *)
(* together, a policy, and tokens that differ from a good one in one       *)
(* respect each.                                                           *)
(***************************************************************************)
EXTENDS RequestChain

MCAuthConfig ==
  [jwtSecret |-> "secret", apiKeys |-> {"key", Blank},
   jwtPublicKey |-> [kind |-> "RSA", strong |-> TRUE, key |-> "public"],
   jwtIssuer |-> "issuer", jwtAudience |-> "users", apiKeyScopes |-> {}]

MCMethods ==
  [unary |-> {"CreateUser", "UpdateUser"},
   any   |-> {"HealthCheck", "CreateUser", "DeleteUser",
              "StreamUserEvents", "CollectUserMetrics", "ChatStream"}]

MCPolicy ==
  [CreateUser |-> {"write"}, UpdateUser |-> {"write"}, DeleteUser |-> {"write", "admin"},
   StreamUserEvents |-> {"read", "write"}, CollectUserMetrics |-> {"write"}]

Token ==
  [kind |-> "token", wellFormed |-> TRUE, alg |-> "RS256", sig |-> <<"RS256", "public">>,
   exp |-> 2, nbf |-> Absent, iat |-> 0, iss |-> "issuer", aud |-> {"users", "others"},
   sub |-> "alice", scopes |-> [claim \in {"scope", "scp"} |-> {"write"}]]

Tokens ==
  {Token,
   [Token EXCEPT !.alg = "HS256", !.sig = <<"HS256", "secret">>],
   [Token EXCEPT !.alg = "HS256", !.sig = <<"HS256", "public">>],
   [Token EXCEPT !.alg = "ES256"],
   [Token EXCEPT !.alg = "none", !.sig = Bad],
   [Token EXCEPT !.wellFormed = FALSE],
   [Token EXCEPT !.exp = 1], [Token EXCEPT !.exp = Bad], [Token EXCEPT !.exp = Absent],
   [Token EXCEPT !.nbf = 1], [Token EXCEPT !.nbf = Bad],
   [Token EXCEPT !.iat = 2], [Token EXCEPT !.iat = 3], [Token EXCEPT !.iat = Bad],
   [Token EXCEPT !.iss = "other"], [Token EXCEPT !.aud = {"others"}], [Token EXCEPT !.aud = Absent],
   [Token EXCEPT !.sub = Absent]}

Key(v) == [kind |-> "opaque", value |-> v]
Bearer(c) == [scheme |-> "bearer", credential |-> c]

MCMetadata ==
  {[authorization |-> <<>>, apiKey |-> <<>>],
   [authorization |-> <<>>, apiKey |-> <<Blank>>],
   [authorization |-> <<>>, apiKey |-> <<Key("key"), Key("key")>>],
   [authorization |-> <<Bearer(Token), Bearer(Token)>>, apiKey |-> <<>>],
   [authorization |-> <<[scheme |-> "basic", credential |-> Key("key")]>>, apiKey |-> <<>>],
   [authorization |-> <<[scheme |-> "basic", credential |-> Key("x")]>>, apiKey |-> <<Key("key")>>],
   [authorization |-> <<Bearer(Key("x"))>>, apiKey |-> <<Key("key")>>]}
  \cup {[authorization |-> <<Bearer(c)>>, apiKey |-> <<>>] : c \in Tokens \cup {Key("key"), Key("x")}}
  \cup {[authorization |-> <<>>, apiKey |-> <<c>>] : c \in Tokens \cup {Key("key"), Key("x")}}

\* Two tokens of one caller, with a scope and without.
MCSenders ==
  {[authorization |-> <<Bearer([Token EXCEPT !.exp = 1, !.scopes = scopes])>>, apiKey |-> <<>>] :
     scopes \in {Token.scopes, [claim \in {"scp"} |-> {}]}}
=============================================================================
