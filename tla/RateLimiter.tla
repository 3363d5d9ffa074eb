----------------------------- MODULE RateLimiter -----------------------------
(***************************************************************************)
(* The sliding-window limiter of one process (core/rate_limit.py).          *)
(*                                                                          *)
(* A table is the dictionary of the limiter: key -> bucket, with the times  *)
(* of the requests and the keys that are older, that is, that were inserted *)
(* before it and are still there.                                           *)
(***************************************************************************)
EXTENDS Integers, Sequences, FiniteSetsExt

CONSTANTS
  Limit,      \* requests of a key in a window
  Window,     \* its length
  MaxBuckets  \* buckets a table keeps

ASSUME LimiterAssumption ==
  Limit \in Nat \ {0} /\ Window \in Nat \ {0} /\ MaxBuckets \in Nat \ {0}

\* The times from the first one after the cutoff on.
Pop(times, cutoff) ==
  LET live == {i \in DOMAIN times : times[i] > cutoff} IN
  IF live = {} THEN <<>> ELSE SubSeq(times, Min(live), Len(times))

NoBuckets == [key \in {} |-> <<>>]

\* The times of a key, none when it has no bucket.
TimesOf(table, key) == IF key \in DOMAIN table THEN table[key].times ELSE <<>>

\* A bucket that is there keeps its place.
Put(table, key, times) ==
  [k \in DOMAIN table \cup {key} |->
     IF k # key THEN table[k]
     ELSE [times |-> times,
           older |-> IF key \in DOMAIN table THEN table[key].older ELSE DOMAIN table]]

\* A wrong version: the oldest time decides.
SlipExpired(bucket, cutoff) == bucket.times[1] <= cutoff

Expired(bucket, cutoff) == bucket.times[Len(bucket.times)] <= cutoff

\* Keys left after the expired ones went.
Unexpired(table, cutoff) == {key \in DOMAIN table : ~Expired(table[key], cutoff)}

\* Those that go although they have not expired: the oldest, down to MaxBuckets.
Surplus(table, cutoff) ==
  LET left == Unexpired(table, cutoff) IN
  {key \in left : Cardinality(table[key].older \cap left) < Cardinality(left) - MaxBuckets}

\* _remove_expired, when a table has become too long.
Shrink(table, cutoff) ==
  LET kept == Unexpired(table, cutoff) \ Surplus(table, cutoff) IN
  IF Cardinality(DOMAIN table) <= MaxBuckets THEN table
  ELSE [key \in kept |-> [table[key] EXCEPT !.older = @ \cap kept]]

\* Requests that overlap may add their times out of order; the last time of a bucket is
\* then not its newest, and the bucket may go as expired with a time that is live.
Disordered(table, cutoff) ==
  {key \in DOMAIN table :
     LET times == table[key].times IN
     times[Len(times)] <= cutoff /\ \E i \in DOMAIN times : times[i] > cutoff}

\* InMemoryRateLimiter.check for a request that read the clock at time t; lost: keys whose
\* bucket went for want of room, or out of order, with times that are live.
Check(table, key, t) ==
  LET times == Pop(TimesOf(table, key), t - Window)
      longer == Put(table, key, Append(times, t)) IN
  IF Len(times) >= Limit
  THEN [allowed |-> FALSE, table |-> Put(table, key, times), lost |-> {}]
  ELSE [allowed |-> TRUE, table |-> Shrink(longer, t - Window),
        lost |-> IF Cardinality(DOMAIN longer) <= MaxBuckets THEN {}
                 ELSE Surplus(longer, t - Window) \cup Disordered(longer, t - Window)]
=============================================================================
