------------------------- MODULE RateLimiter_proofs -------------------------
(***************************************************************************)
(* The bound of the token bucket for every rate, clock resolution, batch   *)
(* size and pattern of calls.                                              *)
(***************************************************************************)
EXTENDS RateLimiter, TLAPS

-----------------------------------------------------------------------------
(* The inductive invariant.                                                *)

TypeInv ==
  /\ now \in Nat /\ tokens \in Nat /\ last \in Nat
  /\ granted \in Nat /\ since \in Nat

\* The bucket is never over its capacity and nobody reads a clock ahead of now.
BucketInv == tokens <= capacity /\ last <= now /\ since <= now

\* What has passed and what could pass at once together stay within the bound:
\* the bound of WindowIsBounded alone is not kept by a call that is granted.
BudgetInv ==
  granted * Ticks + Refilled(tokens, now - last) <= capacity + (now - since) * Rate

RInv == TypeInv /\ BucketInv /\ BudgetInv

-----------------------------------------------------------------------------
(* Lemmas on the arithmetic of the bucket.                                 *)

\* Products of naturals are naturals.
LEMMA ProductType ==
  ASSUME NEW a \in Nat, NEW b \in Nat
  PROVE  a * b \in Nat
OBVIOUS

\* One more tick brings one more Rate.
LEMMA OneMore ==
  ASSUME NEW a \in Nat, NEW b \in Nat
  PROVE  (a + 1) * b = a * b + b
OBVIOUS

\* The capacity is a natural number of units.
LEMMA CapacityType == capacity \in Nat
BY RateLimiterAssumption, ProductType DEF capacity

\* A refill leaves a natural number of units within the capacity.
LEMMA RefilledType ==
  ASSUME NEW t \in Nat, NEW e \in Nat
  PROVE  Refilled(t, e) \in Nat /\ Refilled(t, e) <= capacity
<1>1. e * Rate \in Nat
  BY RateLimiterAssumption, ProductType
<1> QED BY <1>1, CapacityType DEF Refilled

\* A tick adds at most Rate units to what a call finds.
LEMMA RefilledTick ==
  ASSUME NEW t \in Nat, NEW e \in Nat
  PROVE  Refilled(t, e + 1) <= Refilled(t, e) + Rate
<1>1. e * Rate \in Nat /\ (e + 1) * Rate = e * Rate + Rate /\ Rate \in Nat
  BY RateLimiterAssumption, ProductType, OneMore
<1> QED BY <1>1, CapacityType DEF Refilled

\* At the time of the last call a bucket within its capacity holds its tokens.
LEMMA RefilledNow ==
  ASSUME NEW t \in Nat, t <= capacity
  PROVE  Refilled(t, 0) = t
<1>1. 0 * Rate = 0
  BY RateLimiterAssumption
<1> QED BY <1>1, CapacityType DEF Refilled

-----------------------------------------------------------------------------
(* The invariant holds.                                                    *)

\* A new bucket is full and nothing has passed.
LEMMA BucketInit == Init => RInv
<1> SUFFICES ASSUME Init PROVE RInv
  OBVIOUS
<1>1. TypeInv /\ BucketInv
  BY CapacityType DEF Init, TypeInv, BucketInv
<1>2. 0 * Ticks = 0 /\ (0 - 0) * Rate = 0 /\ 0 - 0 = 0
  BY RateLimiterAssumption
<1>3. BudgetInv
  BY <1>2, CapacityType, RefilledNow DEF Init, BudgetInv
<1> QED BY <1>1, <1>3 DEF RInv

\* A call, granted or refused, moves units from the bucket to what has passed.
LEMMA ConsumeStep ==
  ASSUME RInv, NEW n \in 1..MaxBatch, try_consume_n(n)
  PROVE  RInv'
<1> DEFINE t == Refilled(tokens, now - last)
<1>1. now - last \in Nat /\ now' = now /\ since' = since /\ last' = now
  BY DEF RInv, TypeInv, BucketInv, try_consume_n
<1>2. t \in Nat /\ t <= capacity
  BY <1>1, RefilledType, Zenon DEF RInv, TypeInv
<1>3. n \in Nat /\ n * Ticks \in Nat /\ granted * Ticks \in Nat
      /\ (granted + n) * Ticks = granted * Ticks + n * Ticks
  BY RateLimiterAssumption, ProductType DEF RInv, TypeInv
<1>4. granted * Ticks + t <= capacity + (now - since) * Rate
  BY DEF RInv, BudgetInv
<1>5. now' - last' = 0
  BY <1>1 DEF RInv, TypeInv
<1>6. (now - since) * Rate \in Nat
  BY RateLimiterAssumption, ProductType DEF RInv, TypeInv, BucketInv
<1>7. ASSUME tokens' \in Nat, tokens' <= capacity, granted' \in Nat,
             granted' * Ticks + tokens' = granted * Ticks + t
      PROVE  RInv'
  <2>1. TypeInv' /\ BucketInv'
    BY <1>1, <1>7 DEF RInv, TypeInv, BucketInv, capacity
  <2>2. Refilled(tokens', now' - last') = tokens'
    BY <1>5, <1>7, RefilledNow, Zenon
  <2>3. granted' * Ticks + Refilled(tokens', now' - last') <= capacity + (now' - since') * Rate
    BY <1>1, <1>4, <1>7, <2>2
  <2>4. BudgetInv'
    BY <2>3 DEF BudgetInv, Refilled, capacity
  <2> QED BY <2>1, <2>4 DEF RInv
<1>8. CASE Grants(n)
  <2>1. tokens' = t - n * Ticks /\ granted' = granted + n /\ t >= n * Ticks
    BY <1>8 DEF try_consume_n, Grants
  <2>2. tokens' \in Nat /\ tokens' <= capacity /\ granted' \in Nat
    BY <1>2, <1>3, <2>1, CapacityType DEF RInv, TypeInv
  <2>3. granted' * Ticks + tokens' = granted * Ticks + t
    BY <1>2, <1>3, <2>1
  <2> QED BY <1>7, <2>2, <2>3
<1>9. CASE ~Grants(n)
  <2>1. tokens' = t /\ granted' = granted
    BY <1>9 DEF try_consume_n
  <2> QED BY <1>2, <1>3, <1>7, <2>1 DEF RInv, TypeInv
<1> QED BY <1>8, <1>9

\* Every tick, call and restart of the count keeps the invariant.
LEMMA BucketStep == RInv /\ [Next]_vars => RInv'
<1> SUFFICES ASSUME RInv, [Next]_vars PROVE RInv'
  OBVIOUS
<1> USE DEF RInv, TypeInv, BucketInv
<1>1. CASE Tick
  <2>1. /\ now' = now + 1 /\ UNCHANGED <<tokens, last, granted, since>>
        /\ now - last \in Nat /\ now - since \in Nat
    BY <1>1 DEF Tick
  <2>2. now' - last' = (now - last) + 1 /\ now' - since' = (now - since) + 1
    BY <2>1
  <2>3. Refilled(tokens, (now - last) + 1) <= Refilled(tokens, now - last) + Rate
    BY <2>1, RefilledTick
  <2>4. ((now - since) + 1) * Rate = (now - since) * Rate + Rate /\ (now - since) * Rate \in Nat
    BY <2>1, OneMore, ProductType, RateLimiterAssumption
  <2>5. Refilled(tokens, (now - last) + 1) \in Nat /\ Refilled(tokens, now - last) \in Nat
    <3>1. tokens \in Nat /\ now - last \in Nat /\ (now - last) + 1 \in Nat
      BY <2>1
    <3> HIDE DEF RInv, TypeInv, BucketInv
    <3> QED BY <3>1, RefilledType, Zenon
  <2>6. granted * Ticks \in Nat
    BY ProductType, RateLimiterAssumption
  <2>7. granted * Ticks + Refilled(tokens, now - last) <= capacity + (now - since) * Rate
    BY DEF BudgetInv
  <2>8. granted * Ticks + Refilled(tokens, (now - last) + 1)
          <= capacity + ((now - since) + 1) * Rate
    BY <2>3, <2>4, <2>5, <2>6, <2>7, CapacityType, RateLimiterAssumption
  <2>9. granted' * Ticks + Refilled(tokens', now' - last') <= capacity + (now' - since') * Rate
    BY <2>1, <2>2, <2>8, Zenon
  <2>10. BudgetInv'
    BY <2>9 DEF BudgetInv, Refilled, capacity
  <2>11. TypeInv' /\ BucketInv'
    BY <2>1 DEF capacity
  <2> QED BY <2>10, <2>11
<1>2. ASSUME NEW n \in 1..MaxBatch, try_consume_n(n) PROVE RInv'
  BY <1>2, ConsumeStep, Zenon
<1>3. CASE Observe
  <2>1. granted' = 0 /\ since' = now /\ UNCHANGED <<now, tokens, last>> /\ now - last \in Nat
    BY <1>3 DEF Observe
  <2>2. Refilled(tokens, now - last) \in Nat /\ Refilled(tokens, now - last) <= capacity
    BY <2>1, RefilledType, Zenon
  <2>3. granted' * Ticks = 0 /\ (now' - since') * Rate = 0
    BY <2>1, RateLimiterAssumption
  <2>4. granted' * Ticks + Refilled(tokens', now' - last') <= capacity + (now' - since') * Rate
    BY <2>1, <2>2, <2>3, CapacityType
  <2>5. BudgetInv'
    BY <2>4 DEF BudgetInv, Refilled, capacity
  <2> QED BY <2>1, <2>5 DEF capacity
<1>4. CASE UNCHANGED vars
  BY <1>4 DEF vars, BudgetInv, Refilled, capacity
<1> QED BY <1>1, <1>2, <1>3, <1>4 DEF Next

-----------------------------------------------------------------------------
(* The theorem.                                                            *)

\* Whatever the pattern of Append and BatchAppend calls, no window of time lets
\* more entries pass than a full bucket and what max_appends_per_sec brings in it
\* (RateLimiter::try_consume_n), for every rate, batch size and clock resolution.
THEOREM RateIsBounded == Spec => []WindowIsBounded
<1>1. RInv => WindowIsBounded
  <2> SUFFICES ASSUME RInv PROVE WindowIsBounded
    OBVIOUS
  <2>1. Refilled(tokens, now - last) \in Nat
    <3>1. tokens \in Nat /\ now - last \in Nat
      BY DEF RInv, TypeInv, BucketInv
    <3> QED BY <3>1, RefilledType, Zenon
  <2>2. granted * Ticks \in Nat /\ (now - since) * Rate \in Nat
    BY ProductType, RateLimiterAssumption DEF RInv, TypeInv, BucketInv
  <2> QED BY <2>1, <2>2, CapacityType DEF RInv, BudgetInv, WindowIsBounded
<1>2. Spec => []RInv
  BY BucketInit, BucketStep, PTL DEF Spec
<1> QED BY <1>1, <1>2, PTL
=============================================================================
