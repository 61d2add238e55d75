\* Buckets of two that refill in two ticks, evicted when idle for three.
SPECIFICATION Spec
CONSTANTS
  Named = {c1, c2}
  Anonymous = anonymous
  Requests = {r1, r2}
  Burst = 2
  Rate = 1
  Interval = 1
  MaxStall = 1
  None = None
INVARIANTS
  IdleBucketsEvicted
PROPERTIES
  ImplementsTokenBuckets
