---------------------------- MODULE TokenBuckets ----------------------------
(***************************************************************************)
(* What the rate limiters of pkg/interceptors/limits.go promise: one token *)
(* bucket for each client, never lost and never reset.  A request takes a  *)
(* token or is refused; time puts Rate tokens a tick back, up to Burst.    *)
(* The bucket itself is golang.org/x/time/rate.Limiter.                    *)
(***************************************************************************)
EXTENDS Integers

CONSTANTS Clients, Burst, Rate, None

VARIABLES
  tokens,     \* what each client's bucket holds
  verdict     \* the client that was answered in the last step, and the answer

bucketVars == <<tokens, verdict>>

Refilled(n) == IF n + Rate > Burst THEN Burst ELSE n + Rate

BucketsInit == tokens = [c \in Clients |-> Burst] /\ verdict = None

Allows(c) == tokens[c] > 0
Spend(c) == tokens' = IF Allows(c) THEN [tokens EXCEPT ![c] = @ - 1] ELSE tokens
RefillAll == tokens' = [c \in Clients |-> Refilled(tokens[c])]

Allow(c) == verdict' = [client |-> c, ok |-> Allows(c)] /\ Spend(c)
Refill == RefillAll /\ verdict' = None

Quiet == verdict' = None /\ UNCHANGED tokens

BucketsNext == Refill \/ Quiet \/ \E c \in Clients : Allow(c)

BucketsSpec == BucketsInit /\ [][BucketsNext]_bucketVars
=============================================================================
