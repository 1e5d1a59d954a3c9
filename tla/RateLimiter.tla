---------------------------- MODULE RateLimiter ----------------------------
(***************************************************************************)
(* The server-wide token bucket in front of Append and BatchAppend.  Time  *)
(* advances in ticks, Ticks of them to the second; tokens are counted in   *)
(* units of 1/Ticks token, so that a tick brings exactly Rate units.  The  *)
(* bucket's own mutex makes every call one step.                           *)
(***************************************************************************)
EXTENDS Integers

CONSTANTS
  Rate,      \* max_appends_per_sec
  Ticks,     \* ticks per second
  MaxBatch,  \* MAX_BATCH
  MaxTime    \* bound on time

ASSUME RateLimiterAssumption ==
  /\ Rate \in Nat
  /\ Ticks \in Nat \ {0}
  /\ MaxBatch \in Nat \ {0}
  /\ MaxTime \in Nat

VARIABLES
  now,      \* Instant::now()
  tokens,   \* Bucket.tokens
  last,     \* Bucket.last
  granted,  \* entries let through since the observer began to count
  since     \* when the observer began to count

vars == <<now, tokens, last, granted, since>>

capacity == Rate * Ticks

Init ==
  /\ now = 0
  /\ tokens = capacity
  /\ last = 0
  /\ granted = 0
  /\ since = 0

\* Mutation: the bucket has no capacity.
Refilled_Unbounded(t, elapsed) == t + elapsed * Rate

\* (tokens + elapsed * rate).min(capacity)
Refilled(t, elapsed) ==
  IF t + elapsed * Rate < capacity THEN t + elapsed * Rate ELSE capacity

Tick ==
  /\ now < MaxTime
  /\ now' = now + 1
  /\ UNCHANGED <<tokens, last, granted, since>>

\* A call for n entries finds enough tokens.
Grants(n) == Refilled(tokens, now - last) >= n * Ticks

\* try_consume is the case n = 1.
try_consume_n(n) ==
  LET t == Refilled(tokens, now - last)
  IN /\ tokens' = IF Grants(n) THEN t - n * Ticks ELSE t
     /\ last' = now
     /\ granted' = IF Grants(n) THEN granted + n ELSE granted
     /\ UNCHANGED <<now, since>>

\* The observer begins to count at any time.
Observe ==
  /\ granted' = 0
  /\ since' = now
  /\ UNCHANGED <<now, tokens, last>>

Next ==
  \/ Tick
  \/ \E n \in 1..MaxBatch : try_consume_n(n)
  \/ Observe

Spec == Init /\ [][Next]_vars

-----------------------------------------------------------------------------
(* Properties.                                                             *)

\* In no window of time more entries pass than one full bucket and what the rate
\* brings in that window, whatever the pattern of Append and BatchAppend calls.
WindowIsBounded == granted * Ticks <= capacity + (now - since) * Rate
=============================================================================
