------------------------------ MODULE Backoff ------------------------------
(***************************************************************************)
(* The waits between two attempts: RetryConfig.backoff of the client       *)
(* (pkg/interceptors/client_retry.go) and backoffDuration of the Postgres  *)
(* repository (internal/storage/postgres.go), over signed integers of      *)
(* Width bits, in which base * (1 << attempt) may overflow.  A function    *)
(* gives the set of waits its random jitter may choose from.               *)
(***************************************************************************)
EXTENDS Integers

CONSTANT Width        \* bits of a time.Duration: 64, fewer for TLC

ASSUME WidthAssumption == Width \in Nat \ {0, 1, 2}

\* Arithmetic, true of every Width: the provers know powers of two only as
\* integers.
ASSUME PowersOfTwo ==
  \A n \in 0 .. Width + 1 : 2 ^ n \in Nat \ {0} /\ 2 ^ (n + 1) = 2 * 2 ^ n

\* Two's complement.
Wrap(n) == ((n + 2 ^ (Width - 1)) % (2 ^ Width)) - 2 ^ (Width - 1)

Shift(base, attempt) == Wrap(base * 2 ^ attempt)

UncheckedCap(base, attempt, max) ==
  LET d == Shift(base, attempt) IN IF d > max THEN max ELSE d

\* The upper end of the client's jitter; the code's guard, attempt >= 62, is
\* two below the width.
BackoffCap(base, attempt, max) ==
  LET d == IF attempt >= Width - 2 THEN max ELSE Shift(base, attempt)
  IN  IF d <= 0 \/ d > max THEN max ELSE d

backoff(base, attempt, max) ==
  LET d == BackoffCap(base, attempt, max) IN IF d <= 1 THEN {d} ELSE 1 .. d

\* Postgres: a quarter of the wait less, or up to a quarter more; there is no
\* guard against overflow.
backoffDuration(base, attempt, cap) ==
  LET s == Shift(base, attempt)
      d == IF s > cap THEN cap ELSE s
  IN  IF d \div 2 <= 0 THEN {d} ELSE {(d + n) - (d \div 4) : n \in 0 .. (d \div 2) - 1}
=============================================================================
