------------------------ MODULE AppendStream_proofs ------------------------
(***************************************************************************)
(* appendStream keeps the order of its input and the bound on calls in     *)
(* flight, for inputs, batch sizes and rates of any size.                  *)
(***************************************************************************)
EXTENDS AppendStream, RateLimiter_proofs, FiniteSetTheorems, SequenceTheorems

-----------------------------------------------------------------------------
(* The inductive invariant.                                                *)

StreamType ==
  /\ pc \in {"input", "batch", "done", "failed"}
  /\ taken \in 0..MaxEntries
  /\ ended \in BOOLEAN
  /\ batch \in Seq(Nat) /\ awaited \in Seq(Nat) /\ pending \in Seq(Seq(Nat))
  /\ call \in [1..MaxEntries -> {"none", "sent", "ok", "error"}]
  /\ yielded \in Seq(Nat) /\ log \in Seq(Nat)

\* The batch that was sent and is not awaited yet: there is at most one.
Waiting == IF pending = <<>> THEN <<>> ELSE Head(pending)

QueueInv ==
  /\ pending # <<>> => Len(pending) = 1 /\ Waiting # <<>> /\ batch = <<>>
  /\ awaited = <<>> <=> pc \in {"input", "done"}
  /\ ended => pc # "input" /\ batch = <<>>
  /\ pc = "done" => pending = <<>> /\ batch = <<>>

\* The entries of s follow entry n.
Follow(s, n) == \A i \in 1..Len(s) : s[i] = n + i

\* The t entries taken from the input are, in this order, yielded, awaited, waiting and
\* collected, and those not yielded are at most a batch.
Ordered(y, a, w, b, t) ==
  /\ Follow(y, 0)
  /\ Follow(a, Len(y))
  /\ Follow(w, Len(y) + Len(a))
  /\ Follow(b, Len(y) + Len(a) + Len(w))
  /\ t = Len(y) + Len(a) + Len(w) + Len(b)
  /\ t <= Len(y) + BatchSize

OrderInv ==
  /\ Ordered(yielded, awaited, Waiting, batch, taken)
  /\ pc = "input" => taken < Len(yielded) + BatchSize

\* Entries that are collected or not taken have not been sent, yielded ones are stored.
CallInv ==
  \A e \in 1..MaxEntries :
    /\ e <= Len(yielded) => call[e] = "ok"
    /\ e > taken - Len(batch) => call[e] = "none"

\* An entry is stored once, and not before it is sent.
StoredInv ==
  \A e \in 1..MaxEntries :
    /\ call[e] \in {"none", "sent"} => \A j \in 1..Len(log) : log[j] # e
    /\ call[e] = "ok" => \E j \in 1..Len(log) : log[j] = e
    /\ \A j, k \in 1..Len(log) : (log[j] = e /\ log[k] = e) => j = k

AInv == StreamType /\ QueueInv /\ OrderInv /\ CallInv /\ StoredInv

-----------------------------------------------------------------------------
(* Lemmas on the operators.                                                *)

\* What follows from the types: lengths are numbers, and only the empty sequence has
\* length 0.
LEMMA StreamLengths ==
  ASSUME StreamType, QueueInv
  PROVE  /\ Len(yielded) \in Nat /\ Len(awaited) \in Nat /\ Len(batch) \in Nat
         /\ Waiting \in Seq(Nat) /\ Len(Waiting) \in Nat
         /\ (Len(batch) = 0 <=> batch = <<>>) /\ (Len(awaited) = 0 <=> awaited = <<>>)
         /\ (Len(Waiting) = 0 <=> pending = <<>>)
         /\ taken \in Nat /\ BatchSize \in Nat \ {0}
<1>1. Waiting \in Seq(Nat)
  <2>1. pending # <<>> => Head(pending) \in Seq(Nat)
    BY HeadTailProperties DEF StreamType
  <2> QED BY <2>1 DEF Waiting
<1>2. Len(Waiting) \in Nat /\ (Len(Waiting) = 0 <=> Waiting = <<>>)
  BY <1>1, EmptySeq, LenProperties
<1>3. Waiting = <<>> <=> pending = <<>>
  BY DEF Waiting, QueueInv
<1>4. /\ Len(yielded) \in Nat /\ Len(awaited) \in Nat /\ Len(batch) \in Nat
      /\ (Len(batch) = 0 <=> batch = <<>>) /\ (Len(awaited) = 0 <=> awaited = <<>>)
  BY EmptySeq, LenProperties DEF StreamType
<1>5. taken \in Nat /\ BatchSize \in Nat \ {0}
  BY AppendStreamAssumption DEF StreamType
<1> QED BY <1>1, <1>2, <1>3, <1>4, <1>5

\* Nothing to wait for.
LEMMA DrainNone ==
  ASSUME Drain(<<>>)
  PROVE  /\ awaited' = <<>> /\ pending' = <<>> /\ Waiting' = <<>>
         /\ pc' \in {"done", "input"} /\ (pc' = "done" <=> ended')
BY DEF Drain, Waiting

\* The only batch is awaited.
LEMMA DrainOne ==
  ASSUME NEW p \in Seq(Seq(Nat)), Len(p) = 1, Drain(p)
  PROVE  awaited' = Head(p) /\ pending' = <<>> /\ Waiting' = <<>> /\ pc' = "batch"
<1>1. p # <<>> /\ Tail(p) \in Seq(Seq(Nat)) /\ Len(Tail(p)) = 0
  BY HeadTailProperties
<1>2. Tail(p) = <<>>
  BY <1>1, EmptySeq, Zenon
<1>3. awaited' = Head(p) /\ pending' = Tail(p) /\ pc' = "batch"
  BY <1>1 DEF Drain
<1> QED BY <1>2, <1>3 DEF Waiting

\* A flush when nothing waits makes the batch the only one.
LEMMA FlushedOne ==
  ASSUME NEW b \in Seq(Nat), b # <<>>, pending = <<>>
  PROVE  Flushed(b) \in Seq(Seq(Nat)) /\ Len(Flushed(b)) = 1 /\ Head(Flushed(b)) = b
<1>1. Flushed(b) = Append(<<>>, b)
  BY DEF Flushed
<1>2. <<>> \in Seq(Seq(Nat)) /\ Len(<<>>) = 0
  BY EmptySeq
<1>3. Append(<<>>, b) \in Seq(Seq(Nat)) /\ Len(Append(<<>>, b)) = 0 + 1
  BY <1>2, AppendProperties
<1>4. Head(Append(<<>>, b)) = b
  BY <1>2, HeadTailAppend
<1> QED BY <1>1, <1>3, <1>4

\* Following entries, extended by the next one.
LEMMA FollowAppend ==
  ASSUME NEW s \in Seq(Nat), NEW n \in Nat, Follow(s, n), NEW x \in Nat, x = n + Len(s) + 1
  PROVE  /\ Append(s, x) \in Seq(Nat) /\ Len(Append(s, x)) = Len(s) + 1
         /\ Follow(Append(s, x), n) /\ Append(s, x) # <<>>
<1> DEFINE t == Append(s, x)
<1>1. /\ t \in Seq(Nat) /\ Len(t) = Len(s) + 1 /\ t # <<>> /\ Len(s) \in Nat
      /\ \A i \in 1..Len(s) : t[i] = s[i]
      /\ t[Len(s) + 1] = x
  BY AppendProperties
<1> HIDE DEF t
<1>2. \A i \in 1..Len(t) : t[i] = n + i
  BY <1>1 DEF Follow
<1> QED BY <1>1, <1>2 DEF Follow, t

\* Following entries, put together.
LEMMA FollowConcat ==
  ASSUME NEW s \in Seq(Nat), NEW t \in Seq(Nat), Follow(s, 0), Follow(t, Len(s))
  PROVE  s \o t \in Seq(Nat) /\ Len(s \o t) = Len(s) + Len(t) /\ Follow(s \o t, 0)
<1> DEFINE u == s \o t
<1>1. /\ u \in Seq(Nat) /\ Len(u) = Len(s) + Len(t) /\ Len(s) \in Nat /\ Len(t) \in Nat
      /\ \A i \in 1..(Len(s) + Len(t)) : u[i] = IF i <= Len(s) THEN s[i] ELSE t[i - Len(s)]
  BY ConcatProperties
<1> HIDE DEF u
<1>2. ASSUME NEW i \in 1..Len(u) PROVE u[i] = 0 + i
  <2>1. CASE i <= Len(s)
    <3>1. i \in 1..Len(s) /\ u[i] = s[i]
      BY <1>1, <2>1
    <3>2. s[i] = 0 + i
      BY <3>1, Zenon DEF Follow
    <3> QED BY <3>1, <3>2
  <2>2. CASE ~(i <= Len(s))
    <3>1. i - Len(s) \in 1..Len(t)
      BY <1>1, <2>2
    <3>2. t[i - Len(s)] = Len(s) + (i - Len(s))
      BY <3>1, Zenon DEF Follow
    <3>3. u[i] = t[i - Len(s)]
      BY <1>1, <2>2
    <3> QED BY <1>1, <3>2, <3>3
  <2> QED BY <2>1, <2>2
<1> QED BY <1>1, <1>2 DEF Follow, u

\* flush: the calls for entries that follow those sent before.
LEMMA SendStep ==
  ASSUME StreamType, QueueInv, OrderInv, CallInv, StoredInv,
         NEW b \in Seq(Nat), NEW n \in Nat, n = taken - Len(batch), Follow(b, n), Send(b),
         taken' = n + Len(b), yielded' = yielded, log' = log
  PROVE  /\ call' \in [1..MaxEntries -> {"none", "sent", "ok", "error"}]
         /\ batch' = <<>> /\ CallInv' /\ StoredInv'
<1>0. /\ Len(yielded) \in Nat /\ Len(batch) \in Nat /\ Len(awaited) \in Nat
      /\ Len(Waiting) \in Nat /\ taken \in Nat /\ Len(b) \in Nat
  BY StreamLengths
<1>1. n >= Len(yielded)
  BY <1>0 DEF OrderInv, Ordered
<1>2. batch' = <<>> /\ Len(batch') = 0
  BY DEF Send
<1>3. call' = [e \in 1..MaxEntries |-> IF e \in ToSet(b) THEN "sent" ELSE call[e]]
  BY DEF Send, StreamType
<1>4. call' \in [1..MaxEntries -> {"none", "sent", "ok", "error"}]
  BY <1>3 DEF StreamType
<1>5. ASSUME NEW e \in ToSet(b) PROVE e > n /\ e <= n + Len(b)
  <2>1. PICK i \in 1..Len(b) : e = b[i]
    BY DEF ToSet
  <2>2. b[i] = n + i
    BY Zenon DEF Follow
  <2> QED BY <1>0, <2>1, <2>2
<1>6. ASSUME NEW e \in 1..MaxEntries
      PROVE  (e <= Len(yielded') => call'[e] = "ok")
             /\ (e > taken' - Len(batch') => call'[e] = "none")
  <2>1. e <= Len(yielded) => call[e] = "ok" /\ e \notin ToSet(b)
    BY <1>0, <1>1, <1>5 DEF CallInv
  <2>2. e > n => call[e] = "none"
    BY <1>0 DEF CallInv
  <2>3. e > n + Len(b) => call[e] = "none" /\ e \notin ToSet(b)
    BY <1>0, <1>5, <2>2
  <2>4. taken' - Len(batch') = n + Len(b)
    BY <1>0, <1>2
  <2> QED BY <1>3, <2>1, <2>3, <2>4
<1>7. CallInv'
  BY <1>6 DEF CallInv
<1>8. ASSUME NEW e \in 1..MaxEntries
      PROVE  /\ call'[e] \in {"none", "sent"} => \A j \in 1..Len(log) : log[j] # e
             /\ call'[e] = "ok" => \E j \in 1..Len(log) : log[j] = e
             /\ \A j, k \in 1..Len(log) : (log[j] = e /\ log[k] = e) => j = k
  <2>1. /\ call[e] \in {"none", "sent"} => \A j \in 1..Len(log) : log[j] # e
        /\ call[e] = "ok" => \E j \in 1..Len(log) : log[j] = e
        /\ \A j, k \in 1..Len(log) : (log[j] = e /\ log[k] = e) => j = k
    BY DEF StoredInv
  <2>2. CASE e \in ToSet(b)
    <3>1. call[e] = "none"
      BY <1>5, <2>2 DEF CallInv
    <3>2. call'[e] = "sent"
      BY <1>3, <2>2
    <3> QED BY <2>1, <3>1, <3>2
  <2>3. CASE e \notin ToSet(b)
    <3>1. call'[e] = call[e]
      BY <1>3, <2>3
    <3> QED BY <2>1, <3>1
  <2> QED BY <2>2, <2>3
<1>9. StoredInv'
  BY <1>8 DEF StoredInv
<1> QED BY <1>2, <1>4, <1>7, <1>9

-----------------------------------------------------------------------------
(* Every step keeps the invariant.                                         *)

\* An empty sequence follows anything.
LEMMA FollowNone == Len(<<>>) = 0 /\ <<>> \in Seq(Nat) /\ \A n : Follow(<<>>, n)
<1>1. Len(<<>>) = 0 /\ <<>> \in Seq(Nat)
  BY EmptySeq
<1> QED BY <1>1 DEF Follow

\* An entry arrives.
LEMMA EntryStep == AInv /\ Entry => AInv'
<1> SUFFICES ASSUME AInv, Entry PROVE AInv'
  OBVIOUS
<1> DEFINE b == Append(batch, taken + 1)
           n == Len(yielded) + Len(Waiting)
<1>1. StreamType /\ QueueInv /\ OrderInv /\ CallInv /\ StoredInv
  BY DEF AInv
<1>2. /\ Len(yielded) \in Nat /\ Len(awaited) \in Nat /\ Len(batch) \in Nat
      /\ Waiting \in Seq(Nat) /\ Len(Waiting) \in Nat
      /\ (Len(batch) = 0 <=> batch = <<>>) /\ (Len(Waiting) = 0 <=> pending = <<>>)
      /\ taken \in Nat /\ BatchSize \in Nat \ {0}
  BY <1>1, StreamLengths
<1>3. /\ pc = "input" /\ taken < MaxEntries /\ taken' = taken + 1 /\ ended' = ended
      /\ UNCHANGED <<yielded, log, lost>>
  BY DEF Entry
<1>4. awaited = <<>> /\ Len(awaited) = 0 /\ ended = FALSE
  <2>1. awaited = <<>> /\ ~ended
    BY <1>1, <1>3 DEF QueueInv
  <2> QED BY <1>1, <2>1, FollowNone DEF StreamType
<1>5. /\ Follow(yielded, 0) /\ Follow(Waiting, Len(yielded)) /\ Follow(batch, n)
      /\ taken = n + Len(batch) /\ taken < Len(yielded) + BatchSize
  <2>1. Len(yielded) + Len(awaited) = Len(yielded)
    BY <1>2, <1>4
  <2> QED BY <1>1, <1>2, <1>3, <2>1 DEF OrderInv, Ordered
<1>6. n \in Nat /\ taken + 1 \in Nat /\ taken + 1 = n + Len(batch) + 1 /\ batch \in Seq(Nat)
  BY <1>1, <1>2, <1>5 DEF StreamType
<1>7. taken' \in 0..MaxEntries
  BY <1>2, <1>3, AppendStreamAssumption
<1>8. b \in Seq(Nat) /\ Len(b) = Len(batch) + 1 /\ Follow(b, n) /\ b # <<>>
  BY <1>5, <1>6, FollowAppend
<1>9. CASE /\ Len(b) >= BatchSize
           /\ Send(b) /\ Drain(Flushed(b))
  <2> HIDE DEF b
  <2>1. Len(Waiting) = 0 /\ n = Len(yielded)
    BY <1>2, <1>5, <1>8, <1>9
  <2>2. pending = <<>>
    BY <1>2, <2>1
  <2>3. awaited' = b /\ pending' = <<>> /\ Waiting' = <<>> /\ pc' = "batch"
    BY <1>8, <1>9, <2>2, FlushedOne, DrainOne
  <2>4. n = taken - Len(batch) /\ taken' = n + Len(b)
    BY <1>2, <1>3, <1>5, <1>6, <1>8
  <2>5. /\ call' \in [1..MaxEntries -> {"none", "sent", "ok", "error"}]
        /\ batch' = <<>> /\ CallInv' /\ StoredInv'
    BY <1>1, <1>3, <1>6, <1>8, <1>9, <2>4, SendStep, Zenon
  <2>6. StreamType'
    BY <1>1, <1>3, <1>7, <1>8, <2>3, <2>5, FollowNone DEF StreamType
  <2>7. QueueInv'
    BY <1>3, <1>4, <1>8, <2>3, <2>5 DEF QueueInv
  <2>8. Ordered(yielded, b, <<>>, <<>>, taken')
    BY <1>2, <1>3, <1>5, <1>8, <2>1, <2>4, FollowNone DEF Ordered
  <2>9. OrderInv'
    BY <1>3, <2>3, <2>5, <2>8 DEF OrderInv
  <2> QED BY <2>5, <2>6, <2>7, <2>9 DEF AInv
<1>10. CASE /\ Len(b) < BatchSize
            /\ batch' = b /\ Drain(pending) /\ call' = call
  <2> HIDE DEF b
  <2>1. CallInv'
    <3>1. taken' - Len(batch') = taken - Len(batch)
      BY <1>2, <1>3, <1>8, <1>10
    <3> QED BY <1>1, <1>3, <1>10, <3>1 DEF CallInv
  <2>2. StoredInv'
    BY <1>1, <1>3, <1>10 DEF StoredInv
  <2>3. CASE pending = <<>>
    <3>1. /\ awaited' = <<>> /\ pending' = <<>> /\ Waiting' = <<>>
          /\ pc' \in {"done", "input"} /\ (pc' = "done" <=> ended')
      BY <1>10, <2>3, DrainNone
    <3>2. pc' = "input"
      BY <1>3, <1>4, <3>1
    <3>3. n = Len(yielded)
      BY <1>2, <2>3
    <3>4. StreamType'
      BY <1>1, <1>3, <1>7, <1>8, <1>10, <3>1, <3>2, FollowNone DEF StreamType
    <3>5. QueueInv'
      BY <1>3, <1>4, <3>1, <3>2 DEF QueueInv
    <3>6. Ordered(yielded, <<>>, <<>>, b, taken') /\ taken' < Len(yielded) + BatchSize
      <4>1. taken' = Len(yielded) + Len(b)
        BY <1>2, <1>3, <1>5, <1>8, <3>3
      <4>2. taken' < Len(yielded) + BatchSize
        BY <1>2, <1>8, <1>10, <4>1
      <4>3. Len(yielded) + 0 = Len(yielded) /\ Len(yielded) + 0 + 0 = Len(yielded)
        BY <1>2
      <4> QED BY <1>2, <1>5, <1>8, <3>3, <4>1, <4>2, <4>3, FollowNone DEF Ordered
    <3>7. OrderInv'
      BY <1>3, <1>10, <3>1, <3>6 DEF OrderInv
    <3> QED BY <2>1, <2>2, <3>4, <3>5, <3>7 DEF AInv
  <2>4. CASE pending # <<>>
    <3>1. Len(pending) = 1 /\ Waiting # <<>> /\ batch = <<>> /\ pending \in Seq(Seq(Nat))
      BY <1>1, <2>4 DEF QueueInv, StreamType
    <3>2. awaited' = Waiting /\ pending' = <<>> /\ Waiting' = <<>> /\ pc' = "batch"
      <4>1. awaited' = Head(pending) /\ pending' = <<>> /\ Waiting' = <<>> /\ pc' = "batch"
        BY <1>10, <3>1, DrainOne
      <4>2. Waiting = Head(pending)
        BY <2>4 DEF Waiting
      <4> QED BY <4>1, <4>2
    <3>3. StreamType'
      BY <1>1, <1>2, <1>3, <1>7, <1>8, <1>10, <3>2, FollowNone DEF StreamType
    <3>4. QueueInv'
      BY <1>3, <1>4, <3>1, <3>2 DEF QueueInv
    <3>5. Ordered(yielded, Waiting, <<>>, b, taken')
      <4>1. taken' = n + Len(b) /\ taken' <= Len(yielded) + BatchSize
        BY <1>2, <1>3, <1>5, <1>8
      <4>2. n + 0 = n
        BY <1>6
      <4> QED BY <1>2, <1>5, <1>8, <4>1, <4>2, FollowNone DEF Ordered
    <3>6. OrderInv'
      BY <1>3, <1>10, <3>2, <3>5 DEF OrderInv
    <3> QED BY <2>1, <2>2, <3>3, <3>4, <3>6 DEF AInv
  <2> QED BY <2>3, <2>4
<1>11. \/ Len(b) >= BatchSize /\ Send(b) /\ Drain(Flushed(b))
       \/ Len(b) < BatchSize /\ batch' = b /\ Drain(pending) /\ call' = call
  BY DEF Entry
<1> QED BY <1>9, <1>10, <1>11

\* The flush timer fires.
LEMMA TimerStep == AInv /\ TimerFires => AInv'
<1> SUFFICES ASSUME AInv, TimerFires PROVE AInv'
  OBVIOUS
<1> DEFINE n == Len(yielded) + Len(awaited) + Len(Waiting)
<1>1. StreamType /\ QueueInv /\ OrderInv /\ CallInv /\ StoredInv
  BY DEF AInv
<1>2. /\ Len(yielded) \in Nat /\ Len(awaited) \in Nat /\ Len(batch) \in Nat
      /\ Waiting \in Seq(Nat) /\ Len(Waiting) \in Nat
      /\ (Len(batch) = 0 <=> batch = <<>>) /\ (Len(Waiting) = 0 <=> pending = <<>>)
      /\ taken \in Nat /\ BatchSize \in Nat \ {0}
  BY <1>1, StreamLengths
<1>3. /\ pending' = Flushed(batch) /\ Send(batch)
      /\ UNCHANGED <<pc, taken, ended, awaited, yielded, log>>
  BY DEF TimerFires
<1>4. Follow(batch, n) /\ taken = n + Len(batch) /\ batch \in Seq(Nat) /\ n \in Nat
  BY <1>1, <1>2 DEF OrderInv, Ordered, StreamType
<1>5. /\ call' \in [1..MaxEntries -> {"none", "sent", "ok", "error"}]
      /\ batch' = <<>> /\ CallInv' /\ StoredInv'
  <2>1. n = taken - Len(batch) /\ taken' = n + Len(batch)
    BY <1>2, <1>3, <1>4
  <2> QED BY <1>1, <1>3, <1>4, <2>1, SendStep
<1>6. CASE batch = <<>>
  <2>1. pending' = pending /\ Waiting' = Waiting /\ batch' = batch
    BY <1>3, <1>5, <1>6 DEF Flushed, Waiting
  <2>2. StreamType'
    BY <1>1, <1>3, <1>5, <2>1 DEF StreamType
  <2>3. QueueInv'
    BY <1>1, <1>3, <2>1 DEF QueueInv
  <2>4. OrderInv'
    BY <1>1, <1>3, <2>1 DEF OrderInv
  <2> QED BY <1>5, <2>2, <2>3, <2>4 DEF AInv
<1>7. CASE batch # <<>>
  <2>1. pending = <<>>
    BY <1>1, <1>7 DEF QueueInv
  <2>2. pending' \in Seq(Seq(Nat)) /\ Len(pending') = 1 /\ Head(pending') = batch
    BY <1>3, <1>4, <1>7, <2>1, FlushedOne
  <2>3. pending' # <<>>
    BY <2>2, EmptySeq
  <2>4. Waiting' = batch
    BY <2>2, <2>3 DEF Waiting
  <2>5. StreamType'
    BY <1>1, <1>3, <1>5, <2>2, FollowNone DEF StreamType
  <2>6. QueueInv'
    BY <1>1, <1>3, <1>5, <1>7, <2>2, <2>4 DEF QueueInv
  <2>7. Ordered(yielded, awaited, batch, <<>>, taken)
    <3>1. n = Len(yielded) + Len(awaited)
      BY <1>2, <2>1
    <3>2. taken = Len(yielded) + Len(awaited) + Len(batch) + 0
      BY <1>2, <1>4, <3>1
    <3> QED BY <1>1, <1>4, <3>1, <3>2, FollowNone DEF OrderInv, Ordered
  <2>8. OrderInv'
    BY <1>1, <1>3, <1>5, <2>4, <2>7 DEF OrderInv
  <2> QED BY <1>5, <2>5, <2>6, <2>8 DEF AInv
<1> QED BY <1>6, <1>7

\* The input ends: the last batch is sent.
LEMMA EndStep == AInv /\ InputEnds => AInv'
<1> SUFFICES ASSUME AInv, InputEnds PROVE AInv'
  OBVIOUS
<1> DEFINE n == Len(yielded) + Len(Waiting)
<1>1. StreamType /\ QueueInv /\ OrderInv /\ CallInv /\ StoredInv
  BY DEF AInv
<1>2. /\ Len(yielded) \in Nat /\ Len(awaited) \in Nat /\ Len(batch) \in Nat
      /\ Waiting \in Seq(Nat) /\ Len(Waiting) \in Nat
      /\ (Len(batch) = 0 <=> batch = <<>>) /\ (Len(Waiting) = 0 <=> pending = <<>>)
      /\ taken \in Nat /\ BatchSize \in Nat \ {0}
  BY <1>1, StreamLengths
<1>3. /\ pc = "input" /\ ended' = TRUE /\ Send(batch) /\ Drain(Flushed(batch))
      /\ UNCHANGED <<taken, yielded, log>>
  BY DEF InputEnds
<1>4. awaited = <<>> /\ Len(awaited) = 0
  BY <1>1, <1>3, FollowNone DEF QueueInv
<1>5. /\ Follow(yielded, 0) /\ Follow(Waiting, Len(yielded)) /\ Follow(batch, n)
      /\ taken = n + Len(batch) /\ taken < Len(yielded) + BatchSize
  <2>1. Len(yielded) + Len(awaited) = Len(yielded)
    BY <1>2, <1>4
  <2> QED BY <1>1, <1>2, <1>3, <2>1 DEF OrderInv, Ordered
<1>6. n \in Nat /\ batch \in Seq(Nat)
  BY <1>1, <1>2 DEF StreamType
<1>7. /\ call' \in [1..MaxEntries -> {"none", "sent", "ok", "error"}]
      /\ batch' = <<>> /\ CallInv' /\ StoredInv'
  <2>1. n = taken - Len(batch) /\ taken' = n + Len(batch)
    BY <1>2, <1>3, <1>5
  <2> QED BY <1>1, <1>3, <1>5, <1>6, <2>1, SendStep
<1>8. ASSUME NEW a \in Seq(Nat), awaited' = a, pending' = <<>>, Waiting' = <<>>,
             pc' \in {"batch", "done"}, a = <<>> <=> pc' = "done",
             Follow(a, Len(yielded)), taken = Len(yielded) + Len(a)
      PROVE  AInv'
  <2>1. StreamType'
    BY <1>1, <1>3, <1>7, <1>8, FollowNone DEF StreamType
  <2>2. QueueInv'
    BY <1>3, <1>7, <1>8 DEF QueueInv
  <2>3. Ordered(yielded, a, <<>>, <<>>, taken)
    <3>1. /\ taken = Len(yielded) + Len(a) + 0 + 0 /\ taken <= Len(yielded) + BatchSize
          /\ Len(a) \in Nat
      BY <1>2, <1>5, <1>8
    <3> QED BY <1>5, <1>8, <3>1, FollowNone DEF Ordered
  <2>4. OrderInv'
    BY <1>3, <1>7, <1>8, <2>3 DEF OrderInv
  <2> QED BY <1>7, <2>1, <2>2, <2>4 DEF AInv
<1>9. CASE batch # <<>>
  <2>1. pending = <<>> /\ n = Len(yielded)
    BY <1>1, <1>2, <1>9 DEF QueueInv
  <2>2. awaited' = batch /\ pending' = <<>> /\ Waiting' = <<>> /\ pc' = "batch"
    BY <1>3, <1>6, <1>9, <2>1, FlushedOne, DrainOne
  <2> QED BY <1>5, <1>6, <1>8, <1>9, <2>1, <2>2
<1>10. CASE batch = <<>> /\ pending = <<>>
  <2>1. Drain(<<>>)
    BY <1>3, <1>10 DEF Flushed
  <2>2. awaited' = <<>> /\ pending' = <<>> /\ Waiting' = <<>> /\ pc' = "done"
    BY <1>3, <2>1, DrainNone
  <2>3. taken = Len(yielded) + 0
    BY <1>2, <1>5, <1>10
  <2> QED BY <1>8, <2>2, <2>3, FollowNone, Zenon
<1>11. CASE batch = <<>> /\ pending # <<>>
  <2>1. Drain(pending)
    BY <1>3, <1>11 DEF Flushed
  <2>2. Len(pending) = 1 /\ Waiting # <<>> /\ pending \in Seq(Seq(Nat))
    BY <1>1, <1>11 DEF QueueInv, StreamType
  <2>3. Waiting = Head(pending)
    BY <1>11 DEF Waiting
  <2>4. awaited' = Waiting /\ pending' = <<>> /\ Waiting' = <<>> /\ pc' = "batch"
    BY <2>1, <2>2, <2>3, DrainOne
  <2>5. taken = Len(yielded) + Len(Waiting)
    BY <1>2, <1>5, <1>11
  <2> QED BY <1>2, <1>5, <1>8, <2>2, <2>4, <2>5
<1> QED BY <1>9, <1>10, <1>11

\* The awaited batch is fulfilled and its results are yielded.
LEMMA FulfilledStep == AInv /\ BatchFulfilled => AInv'
<1> SUFFICES ASSUME AInv, BatchFulfilled PROVE AInv'
  OBVIOUS
<1> DEFINE y == yielded \o awaited
<1>1. StreamType /\ QueueInv /\ OrderInv /\ CallInv /\ StoredInv
  BY DEF AInv
<1>2. /\ Len(yielded) \in Nat /\ Len(awaited) \in Nat /\ Len(batch) \in Nat
      /\ Waiting \in Seq(Nat) /\ Len(Waiting) \in Nat
      /\ (Len(batch) = 0 <=> batch = <<>>) /\ (Len(awaited) = 0 <=> awaited = <<>>)
      /\ (Len(Waiting) = 0 <=> pending = <<>>)
      /\ taken \in Nat /\ BatchSize \in Nat \ {0}
  BY <1>1, StreamLengths
<1>3. /\ pc = "batch" /\ yielded' = y /\ ended' = ended /\ Drain(pending)
      /\ \A e \in ToSet(awaited) : call[e] = "ok"
      /\ UNCHANGED <<taken, batch, call, log>>
  BY DEF BatchFulfilled
<1>4. /\ Follow(yielded, 0) /\ Follow(awaited, Len(yielded))
      /\ Follow(Waiting, Len(yielded) + Len(awaited))
      /\ Follow(batch, Len(yielded) + Len(awaited) + Len(Waiting))
      /\ taken = Len(yielded) + Len(awaited) + Len(Waiting) + Len(batch)
      /\ taken <= Len(yielded) + BatchSize
  BY <1>1 DEF OrderInv, Ordered
<1>5. y \in Seq(Nat) /\ Len(y) = Len(yielded) + Len(awaited) /\ Follow(y, 0)
  BY <1>1, <1>4, FollowConcat DEF StreamType
<1> HIDE DEF y
<1>6. awaited # <<>> /\ Len(awaited) > 0
  BY <1>1, <1>2, <1>3 DEF QueueInv
<1>7. CallInv'
  <2>1. ASSUME NEW e \in 1..MaxEntries, e <= Len(y) PROVE call[e] = "ok"
    <3>1. CASE e <= Len(yielded)
      BY <1>1, <3>1 DEF CallInv
    <3>2. CASE ~(e <= Len(yielded))
      <4>1. PICK i \in 1..Len(awaited) : e = Len(yielded) + i
        <5>1. e - Len(yielded) \in 1..Len(awaited) /\ e = Len(yielded) + (e - Len(yielded))
          BY <1>2, <1>5, <2>1, <3>2
        <5> QED BY <5>1
      <4>2. awaited[i] = Len(yielded) + i
        BY <1>4, Zenon DEF Follow
      <4>3. e \in ToSet(awaited)
        BY <1>1, <4>1, <4>2 DEF ToSet, StreamType
      <4> QED BY <1>3, <4>3
    <3> QED BY <3>1, <3>2
  <2> QED BY <1>1, <1>3, <2>1 DEF CallInv
<1>8. StoredInv'
  BY <1>1, <1>3 DEF StoredInv
<1>9. taken < Len(y) + BatchSize /\ taken = Len(y) + Len(Waiting) + Len(batch) /\ Len(y) \in Nat
  BY <1>2, <1>4, <1>5, <1>6
<1>10. Follow(Waiting, Len(y)) /\ Follow(batch, Len(y) + Len(Waiting))
  BY <1>4, <1>5
<1>11. CASE pending = <<>>
  <2>1. /\ awaited' = <<>> /\ pending' = <<>> /\ Waiting' = <<>>
        /\ pc' \in {"done", "input"} /\ (pc' = "done" <=> ended)
    BY <1>3, <1>11, DrainNone
  <2>2. StreamType'
    BY <1>1, <1>3, <1>5, <2>1, FollowNone DEF StreamType
  <2>3. QueueInv'
    BY <1>1, <1>3, <2>1 DEF QueueInv
  <2>4. Ordered(y, <<>>, <<>>, batch, taken)
    <3>1. /\ Len(Waiting) = 0 /\ Len(y) + Len(Waiting) = Len(y) + 0 + 0
          /\ taken = Len(y) + 0 + 0 + Len(batch)
      BY <1>2, <1>9, <1>11
    <3>2. taken <= Len(y) + BatchSize
      BY <1>2, <1>9
    <3> QED BY <1>5, <1>10, <3>1, <3>2, FollowNone DEF Ordered
  <2>5. OrderInv'
    BY <1>3, <1>9, <2>1, <2>4 DEF OrderInv
  <2> QED BY <1>7, <1>8, <2>2, <2>3, <2>5 DEF AInv
<1>12. CASE pending # <<>>
  <2>1. Len(pending) = 1 /\ Waiting # <<>> /\ pending \in Seq(Seq(Nat)) /\ batch = <<>>
    BY <1>1, <1>12 DEF QueueInv, StreamType
  <2>2. Waiting = Head(pending)
    BY <1>12 DEF Waiting
  <2>3. awaited' = Waiting /\ pending' = <<>> /\ Waiting' = <<>> /\ pc' = "batch"
    BY <1>3, <2>1, <2>2, DrainOne
  <2>4. StreamType'
    BY <1>1, <1>2, <1>3, <1>5, <2>3, FollowNone DEF StreamType
  <2>5. QueueInv'
    BY <1>1, <1>3, <2>1, <2>3 DEF QueueInv
  <2>6. Ordered(y, Waiting, <<>>, batch, taken)
    <3>1. /\ Len(y) + Len(Waiting) = Len(y) + Len(Waiting) + 0
          /\ taken = Len(y) + Len(Waiting) + 0 + Len(batch)
          /\ taken <= Len(y) + BatchSize
      BY <1>2, <1>9
    <3> QED BY <1>5, <1>10, <3>1, FollowNone DEF Ordered
  <2>7. OrderInv'
    BY <1>3, <2>3, <2>6 DEF OrderInv
  <2> QED BY <1>7, <1>8, <2>4, <2>5, <2>7 DEF AInv
<1> QED BY <1>11, <1>12

\* The awaited batch is rejected.
LEMMA RejectedStep == AInv /\ BatchRejected => AInv'
<1> SUFFICES ASSUME AInv, BatchRejected PROVE AInv'
  OBVIOUS
<1>1. /\ pc = "batch" /\ pc' = "failed"
      /\ UNCHANGED <<taken, ended, batch, awaited, pending, call, yielded, log>>
  BY DEF BatchRejected
<1>2. Waiting' = Waiting
  BY <1>1 DEF Waiting
<1>3. StreamType'
  BY <1>1 DEF AInv, StreamType
<1>4. QueueInv'
  BY <1>1, <1>2 DEF AInv, QueueInv
<1>5. OrderInv'
  BY <1>1, <1>2 DEF AInv, OrderInv
<1>6. CallInv' /\ StoredInv'
  BY <1>1 DEF AInv, CallInv, StoredInv
<1> QED BY <1>3, <1>4, <1>5, <1>6 DEF AInv

\* The server handles the call for entry e.
LEMMA ServeStep == ASSUME AInv, NEW e \in 1..MaxEntries, Serve(e) PROVE AInv'
<1>1. StreamType /\ QueueInv /\ OrderInv /\ CallInv /\ StoredInv
  BY DEF AInv
<1>2. /\ Len(yielded) \in Nat /\ Len(batch) \in Nat /\ taken \in Nat
  BY <1>1, StreamLengths
<1>3. call[e] = "sent" /\ UNCHANGED <<pc, taken, ended, batch, awaited, pending, yielded>>
  BY DEF Serve
<1>4. PICK r \in {"ok", "error"} : call' = [call EXCEPT ![e] = r] /\ (r = "ok" => Grants(1))
  BY DEF Serve
<1>5. log' = IF Grants(1) THEN Append(log, e) ELSE log
  BY DEF Serve
<1>6. Waiting' = Waiting
  BY <1>3 DEF Waiting
<1>7. call' \in [1..MaxEntries -> {"none", "sent", "ok", "error"}] /\ call'[e] = r
      /\ \A f \in 1..MaxEntries : f # e => call'[f] = call[f]
  BY <1>1, <1>4 DEF StreamType
<1>8. log \in Seq(Nat) /\ Len(log) \in Nat /\ e \in Nat
  BY <1>1, LenProperties DEF StreamType
<1>9. Append(log, e) \in Seq(Nat)
  BY <1>8, AppendProperties
<1>10. StreamType'
  BY <1>1, <1>3, <1>5, <1>7, <1>8, <1>9 DEF StreamType
<1>11. QueueInv' /\ OrderInv'
  BY <1>1, <1>3, <1>6 DEF QueueInv, OrderInv
<1>12. CallInv'
  <2>1. ~(e <= Len(yielded)) /\ ~(e > taken - Len(batch))
    BY <1>1, <1>3 DEF CallInv
  <2> QED BY <1>1, <1>3, <1>7, <2>1 DEF CallInv
<1>13. \A j \in 1..Len(log) : log[j] # e
  BY <1>1, <1>3 DEF StoredInv
<1>14. StoredInv'
  <2>1. CASE Grants(1)
    <3> DEFINE g == Append(log, e)
    <3>1. /\ log' = g /\ Len(g) = Len(log) + 1 /\ g[Len(log) + 1] = e
          /\ \A j \in 1..Len(log) : g[j] = log[j]
      BY <1>5, <1>8, <2>1, AppendProperties
    <3> HIDE DEF g
    <3>2. ASSUME NEW j \in 1..Len(g) PROVE j \in 1..Len(log) \/ j = Len(log) + 1
      BY <1>8, <3>1
    <3>3. Len(log) + 1 \in 1..Len(g) /\ \A j \in 1..Len(log) : j \in 1..Len(g)
      BY <1>8, <3>1
    <3>4. ASSUME NEW f \in 1..MaxEntries
          PROVE  /\ call'[f] \in {"none", "sent"} => \A j \in 1..Len(g) : g[j] # f
                 /\ call'[f] = "ok" => \E j \in 1..Len(g) : g[j] = f
                 /\ \A j, k \in 1..Len(g) : (g[j] = f /\ g[k] = f) => j = k
      <4>1. CASE f = e
        <5>1. \A j \in 1..Len(g) : g[j] = f => j = Len(log) + 1
          BY <1>13, <3>1, <3>2, <4>1
        <5> QED BY <1>7, <3>1, <3>3, <4>1, <5>1
      <4>2. CASE f # e
        <5>1. /\ call'[f] = call[f]
              /\ call[f] \in {"none", "sent"} => \A j \in 1..Len(log) : log[j] # f
              /\ call[f] = "ok" => \E j \in 1..Len(log) : log[j] = f
              /\ \A j, k \in 1..Len(log) : (log[j] = f /\ log[k] = f) => j = k
          BY <1>1, <1>7, <4>2 DEF StoredInv
        <5>2. \A j \in 1..Len(g) : g[j] = f => j \in 1..Len(log) /\ log[j] = f
          BY <3>1, <3>2, <4>2
        <5> QED BY <3>1, <3>3, <5>1, <5>2
      <4> QED BY <4>1, <4>2
    <3>5. log' = g
      BY <3>1
    <3> QED BY <3>4, <3>5 DEF StoredInv
  <2>2. CASE ~Grants(1)
    <3>1. log' = log /\ r = "error"
      BY <1>4, <1>5, <2>2
    <3>2. ASSUME NEW f \in 1..MaxEntries
          PROVE  /\ call'[f] \in {"none", "sent"} => \A j \in 1..Len(log) : log[j] # f
                 /\ call'[f] = "ok" => \E j \in 1..Len(log) : log[j] = f
                 /\ \A j, k \in 1..Len(log) : (log[j] = f /\ log[k] = f) => j = k
      BY <1>1, <1>7, <3>1 DEF StoredInv
    <3>3. log' = log
      BY <3>1
    <3> QED BY <3>2, <3>3 DEF StoredInv
  <2> QED BY <2>1, <2>2
<1> QED BY <1>10, <1>11, <1>12, <1>14 DEF AInv

\* A step that leaves the stream alone.
LEMMA StreamUnchanged == AInv /\ UNCHANGED stream => AInv'
<1> SUFFICES ASSUME AInv, UNCHANGED stream PROVE AInv'
  OBVIOUS
<1>1. UNCHANGED <<pc, taken, ended, batch, awaited, pending, call, yielded, log>>
  BY DEF stream
<1>2. Waiting' = Waiting
  BY <1>1 DEF Waiting
<1>3. StreamType' /\ CallInv' /\ StoredInv'
  BY <1>1 DEF AInv, StreamType, CallInv, StoredInv
<1>4. QueueInv' /\ OrderInv'
  BY <1>1, <1>2 DEF AInv, QueueInv, OrderInv
<1> QED BY <1>3, <1>4 DEF AInv

\* The invariant holds when the stream starts.
LEMMA StreamInit == SInit => AInv
<1> SUFFICES ASSUME SInit PROVE AInv
  OBVIOUS
<1>1. /\ pc = "input" /\ taken = 0 /\ ended = FALSE /\ batch = <<>> /\ awaited = <<>>
      /\ pending = <<>> /\ yielded = <<>> /\ log = <<>>
      /\ call = [e \in 1..MaxEntries |-> "none"] /\ Waiting = <<>>
  BY DEF SInit, Waiting
<1>2. Len(<<>>) = 0 /\ <<>> \in Seq(Nat) /\ <<>> \in Seq(Seq(Nat))
  BY EmptySeq
<1>3. StreamType
  <2>1. 0 \in 0..MaxEntries
    BY AppendStreamAssumption
  <2>2. call \in [1..MaxEntries -> {"none", "sent", "ok", "error"}]
    BY <1>1
  <2> QED BY <1>1, <1>2, <2>1, <2>2, Zenon DEF StreamType
<1>4. QueueInv
  BY <1>1 DEF QueueInv
<1>5. OrderInv
  <2>1. 0 < 0 + BatchSize /\ 0 <= 0 + BatchSize /\ 0 = 0 + 0 + 0 + 0
    BY AppendStreamAssumption
  <2> QED BY <1>1, <1>2, <2>1, FollowNone DEF OrderInv, Ordered
<1>6. CallInv
  BY <1>1, <1>2 DEF CallInv
<1>7. StoredInv
  BY <1>1, <1>2 DEF StoredInv
<1> QED BY <1>3, <1>4, <1>5, <1>6, <1>7 DEF AInv

\* The invariant always holds.
LEMMA StreamInvariant == SSpec => []AInv
<1>1. AInv /\ [SNext]_svars => AInv'
  <2> SUFFICES ASSUME AInv, [SNext]_svars PROVE AInv'
    OBVIOUS
  <2>1. CASE Entry
    BY <2>1, EntryStep
  <2>2. CASE TimerFires
    BY <2>2, TimerStep
  <2>3. CASE InputEnds
    BY <2>3, EndStep
  <2>4. CASE BatchFulfilled
    BY <2>4, FulfilledStep
  <2>5. CASE BatchRejected
    BY <2>5, RejectedStep
  <2>6. ASSUME NEW e \in 1..MaxEntries, Serve(e) PROVE AInv'
    BY <2>6, ServeStep
  <2>7. CASE Others
    BY <2>7, StreamUnchanged DEF Others
  <2>8. CASE UNCHANGED svars
    BY <2>8, StreamUnchanged DEF svars
  <2> QED BY <2>1, <2>2, <2>3, <2>4, <2>5, <2>6, <2>7, <2>8 DEF SNext
<1> QED BY <1>1, StreamInit, PTL DEF SSpec

-----------------------------------------------------------------------------
(* The theorems.                                                           *)

\* appendStream never has more than batchSize calls without an answer, for inputs of
\* any length and whenever its flush timer fires.
THEOREM BackPressure == SSpec => []InFlightBounded
<1>1. AInv => InFlightBounded
  <2> SUFFICES ASSUME AInv PROVE InFlightBounded
    OBVIOUS
  <2> DEFINE S == {e \in DOMAIN call : call[e] = "sent"}
             T == (Len(yielded) + 1)..taken
  <2>1. StreamType /\ QueueInv /\ OrderInv /\ CallInv
    BY DEF AInv
  <2>2. /\ Len(yielded) \in Nat /\ Len(batch) \in Nat /\ Len(awaited) \in Nat
        /\ Len(Waiting) \in Nat /\ taken \in Nat /\ BatchSize \in Nat \ {0}
    BY <2>1, StreamLengths
  <2>3. taken <= Len(yielded) + BatchSize
    BY <2>1 DEF OrderInv, Ordered
  <2>4. ASSUME NEW e \in S PROVE e \in T
    <3>1. e \in 1..MaxEntries /\ call[e] = "sent"
      BY <2>1 DEF StreamType
    <3>2. ~(e <= Len(yielded)) /\ ~(e > taken - Len(batch))
      BY <2>1, <3>1 DEF CallInv
    <3> QED BY <2>2, <3>1, <3>2
  <2>5. S \in SUBSET T
    BY <2>4
  <2> HIDE DEF S
  <2>6. /\ IsFiniteSet(T)
        /\ Cardinality(T) = IF Len(yielded) + 1 > taken THEN 0 ELSE taken - (Len(yielded) + 1) + 1
    <3>1. Len(yielded) + 1 \in Int /\ taken \in Int
      BY <2>2
    <3> QED BY <3>1, FS_Interval, Zenon
  <2>7. Cardinality(T) \in Nat /\ Cardinality(T) <= BatchSize
    BY <2>2, <2>3, <2>6
  <2> HIDE DEF T
  <2>8. IsFiniteSet(S) /\ Cardinality(S) <= Cardinality(T)
    BY <2>5, <2>6, FS_Subset
  <2>9. Cardinality(S) \in Nat
    BY <2>8, FS_CardinalityType
  <2>10. Cardinality(S) <= BatchSize
    BY <2>2, <2>7, <2>8, <2>9
  <2> QED BY <2>10 DEF S, InFlightBounded
<1> QED BY <1>1, StreamInvariant, PTL

\* appendStream yields a prefix of its input in input order, each result for an entry
\* the server stored exactly once, and the whole input when it ends without an error,
\* for inputs and batches of any size.
THEOREM YieldsOnceInOrder == SSpec => []YieldsInOrder
<1>1. AInv => YieldsInOrder
  <2> SUFFICES ASSUME AInv PROVE YieldsInOrder
    OBVIOUS
  <2>1. StreamType /\ QueueInv /\ OrderInv /\ CallInv /\ StoredInv
    BY DEF AInv
  <2>2. /\ Len(yielded) \in Nat /\ Len(batch) \in Nat /\ Len(awaited) \in Nat
        /\ Len(Waiting) \in Nat /\ taken \in Nat
    BY <2>1, StreamLengths
  <2>3. /\ Follow(yielded, 0)
        /\ taken = Len(yielded) + Len(awaited) + Len(Waiting) + Len(batch)
    BY <2>1 DEF OrderInv, Ordered
  <2>4. DOMAIN yielded = 1..Len(yielded) /\ DOMAIN log = 1..Len(log)
    BY <2>1, LenProperties DEF StreamType
  <2>5. ASSUME NEW i \in 1..Len(yielded)
        PROVE  yielded[i] = i /\ Cardinality({j \in 1..Len(log) : log[j] = i}) = 1
    <3>1. yielded[i] = 0 + i
      BY <2>3, Zenon DEF Follow
    <3>2. i \in 1..MaxEntries /\ i <= Len(yielded)
      BY <2>1, <2>2, <2>3, AppendStreamAssumption DEF StreamType
    <3>3. call[i] = "ok"
      BY <2>1, <3>2 DEF CallInv
    <3>4. PICK k \in 1..Len(log) : log[k] = i
      BY <2>1, <3>2, <3>3 DEF StoredInv
    <3>5. {j \in 1..Len(log) : log[j] = i} = {k}
      BY <2>1, <3>2, <3>4 DEF StoredInv
    <3>6. Cardinality({j \in 1..Len(log) : log[j] = i}) = 1
      BY <3>5, FS_Singleton, Zenon
    <3> QED BY <3>1, <3>6
  <2>6. pc = "done" => Len(yielded) = taken
    <3> SUFFICES ASSUME pc = "done" PROVE Len(yielded) = taken
      OBVIOUS
    <3>1. awaited = <<>> /\ batch = <<>> /\ Waiting = <<>>
      BY <2>1 DEF QueueInv, Waiting
    <3> QED BY <2>2, <2>3, <3>1, FollowNone
  <2> QED BY <2>4, <2>5, <2>6 DEF YieldsInOrder
<1> QED BY <1>1, StreamInvariant, PTL

\* The calls of appendStream and of all other clients together pass the bucket at no
\* more than its rate: the stream's steps are calls of try_consume_n or leave the
\* bucket alone.
THEOREM StreamIsRateLimited == SSpec => []WindowIsBounded
<1>1. SInit => Init
  BY DEF SInit
<1>2. [SNext]_svars => [Next]_vars
  <2> SUFFICES ASSUME [SNext]_svars PROVE [Next]_vars
    OBVIOUS
  <2>1. ASSUME Entry \/ TimerFires \/ InputEnds \/ BatchFulfilled \/ BatchRejected
        PROVE  UNCHANGED vars
    BY <2>1 DEF Entry, TimerFires, InputEnds, BatchFulfilled, BatchRejected
  <2>2. ASSUME NEW e \in 1..MaxEntries, Serve(e) PROVE Next
    <3>1. 1 \in 1..MaxBatch
      BY RateLimiterAssumption
    <3>2. try_consume_n(1)
      BY <2>2 DEF Serve
    <3> QED BY <3>1, <3>2 DEF Next
  <2>3. CASE Others
    BY <2>3 DEF Others
  <2>4. CASE UNCHANGED svars
    BY <2>4 DEF svars
  <2> QED BY <2>1, <2>2, <2>3, <2>4 DEF SNext
<1>3. SSpec => Spec
  BY <1>1, <1>2, PTL DEF SSpec, Spec
<1> QED BY <1>3, RateIsBounded, PTL
=============================================================================
