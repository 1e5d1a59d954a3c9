---------------------------- MODULE Watch_proofs ----------------------------
(***************************************************************************)
(* What a Watch stream delivers, for any number of handlers, entries and   *)
(* connections and any capacity of the channels.                           *)
(***************************************************************************)
EXTENDS Watch, SequenceTheorems, TLAPS

-----------------------------------------------------------------------------
(* The inductive invariant.                                                *)

\* What the stream has produced on this connection: received, under way, and read.
Out == (seen \o pipe) \o page
Sent == Len(seen) + Len(pipe)

TypeInv ==
  /\ nextSeq \in Nat /\ pending \in [Writers -> Seq(Nat)] /\ chan \in Seq(Nat)
  /\ from \in Nat /\ base \in Nat /\ cursor \in Nat /\ pos \in Nat /\ connects \in Nat
  /\ lastSent \in Int
  /\ page \in Seq(Int) /\ pipe \in Seq(Int) /\ seen \in Seq(Int)
  /\ base <= nextSeq
  /\ \A i \in 1..Len(chan) : chan[i] < nextSeq

\* The entries a handler still has to send follow each other, no two handlers have
\* the same one, and in-order broadcasts leave the handlers with the end of the log.
Runs ==
  \A w \in Writers : \A i \in 1..Len(pending[w]) :
    pending[w][i] = pending[w][1] + i - 1 /\ pending[w][i] < nextSeq

Disjoint ==
  \A v, w \in Writers : v # w =>
    \A i \in 1..Len(pending[v]), j \in 1..Len(pending[w]) : pending[v][i] # pending[w][j]

InOrder ==
  /\ Len(chan) <= nextSeq
  /\ \A i \in 1..Len(chan) : chan[i] = i - 1
  /\ \A e \in Len(chan)..(nextSeq - 1) :
       \E w \in Writers : \E i \in 1..Len(pending[w]) : pending[w][i] = e
  /\ \A w \in Writers : \A i \in 1..Len(pending[w]) : pending[w][i] >= Len(chan)

HandlerInv == Runs /\ Disjoint /\ (~overtaken => InOrder)

Live == {"live", "push", "lagged"}

\* The output o has entries of a log of n entries, and at its end perhaps the status.
Sound(o, sp, n) ==
  \A i \in 1..Len(o) : \/ o[i] \in Nat /\ o[i] < n
                       \/ o[i] = Lagged /\ sp = "closed" /\ i = Len(o)

\* The stream task: what page and pipe hold in each phase.
PhaseInv ==
  /\ spc \in {"off", "replay", "page", "closed"} \cup Live
  /\ spc \notin {"page", "push"} => page = <<>>
  /\ spc = "page" => page # <<>>
  /\ spc = "replay" => cursor > 0
  /\ spc = "off" => pipe = <<>>
  /\ Sound(Out, spc, nextSeq)

\* The replay counts up from from_seq, and reaches the entry that came in last when
\* the stream subscribed before the stream goes live.
ReplayInv ==
  /\ spc \in {"replay", "page"} =>
       /\ from > 0
       /\ \A i \in 1..Len(Out) : Out[i] = from + i - 1
       /\ cursor # 0 => cursor = from + Len(Out)
       /\ cursor = 0 => from + Len(Out) >= base
       /\ lastSent = IF Sent = 0 THEN -1 ELSE from + Sent - 1
  /\ spc \in Live => /\ from > 0 => from + Len(Out) >= base
                     /\ lastSent = IF Len(Out) = 0 THEN -1 ELSE Out[Len(Out)]
  /\ from > 0 => \A i \in 1..Len(Out) : from + i - 1 < base => Out[i] = from + i - 1

\* With in-order broadcasts the live phase goes on where the replay ended.
OrderInv ==
  ~overtaken =>
    /\ \A i \in 2..Len(Out) : Out[i] # Lagged => Out[i] = Out[i - 1] + 1
    /\ (from > 0 /\ Len(Out) > 0) => Out[1] <= from
    /\ spc \in {"replay", "page"} => pos <= base
    /\ spc \in Live => pos <= IF lastSent = -1 THEN base ELSE lastSent + 1

\* A reconnecting client asks for an entry it has.
ClientInv ==
  /\ \A i \in 1..Len(seen) : seen[i] \in seenAll
  /\ seenAll \subseteq 0..(nextSeq - 1)
  /\ (seen = <<>> /\ seenAll # {}) => from \in seenAll /\ from < base
  /\ connects = 0 => spc = "off" /\ seenAll = {}
  /\ ReconnectMissesNothing

WInv == TypeInv /\ HandlerInv /\ PhaseInv /\ ReplayInv /\ OrderInv /\ ClientInv

-----------------------------------------------------------------------------
(* Lemmas on the operators.                                                *)

\* The elements of a concatenation.
LEMMA CatIndex ==
  ASSUME NEW s \in Seq(Int), NEW t \in Seq(Int)
  PROVE  /\ s \o t \in Seq(Int) /\ Len(s \o t) = Len(s) + Len(t)
         /\ \A i \in 1..Len(s) : (s \o t)[i] = s[i]
         /\ \A i \in 1..Len(t) : (s \o t)[Len(s) + i] = t[i]
BY ConcatProperties

\* Concatenation is associative.
LEMMA CatAssoc ==
  ASSUME NEW s \in Seq(Int), NEW t \in Seq(Int), NEW u \in Seq(Int)
  PROVE  (s \o t) \o u = s \o (t \o u)
BY ConcatAssociative

\* An added element comes last.
LEMMA AddIndex ==
  ASSUME NEW s \in Seq(Int), NEW x \in Int
  PROVE  /\ Append(s, x) \in Seq(Int) /\ Len(Append(s, x)) = Len(s) + 1
         /\ \A i \in 1..Len(s) : Append(s, x)[i] = s[i]
         /\ Append(s, x)[Len(s) + 1] = x
OBVIOUS

\* Passing the head of t on to s changes nothing in their concatenation.
LEMMA PassOn ==
  ASSUME NEW s \in Seq(Int), NEW t \in Seq(Int), t # <<>>
  PROVE  Append(s, Head(t)) \o Tail(t) = s \o t
<1>1. Head(t) \in Int /\ Head(t) = t[1] /\ Tail(t) \in Seq(Int) /\ <<Head(t)>> \in Seq(Int)
  BY HeadTailProperties
<1>2. 1 \in 1..Len(t) /\ Len(t) \in 1..Len(t)
  BY LenProperties, EmptySeq
<1>3. SubSeq(t, 1, Len(t)) = <<t[1]>> \o SubSeq(t, 1 + 1, Len(t))
  BY <1>2, SubSeqRecursiveFirst, Zenon
<1>4. 1 + 1 = 2
  OBVIOUS
<1>5. <<Head(t)>> \o Tail(t) = t
  BY <1>1, <1>3, <1>4, SubSeqFull, TailIsSubSeq, Zenon
<1>6. Append(s, Head(t)) = s \o <<Head(t)>>
  BY <1>1, AppendIsConcat, Zenon
<1> DEFINE h == <<Head(t)>>
           u == Tail(t)
<1>7. h \in Seq(Int) /\ u \in Seq(Int)
  BY <1>1
<1> HIDE DEF h, u
<1>8. (s \o h) \o u = s \o (h \o u)
  BY <1>7, ConcatAssociative
<1>9. (s \o <<Head(t)>>) \o Tail(t) = s \o (<<Head(t)>> \o Tail(t))
  BY <1>8 DEF h, u
<1> QED BY <1>5, <1>6, <1>9

\* The entries of a page count up from the cursor.
LEMMA PageIndex ==
  ASSUME TypeInv, NEW c \in Nat
  PROVE  /\ PageAt(c) \in Seq(Int)
         /\ \A i \in 1..Len(PageAt(c)) : PageAt(c)[i] = c + i - 1 /\ PageAt(c)[i] < nextSeq
         /\ Len(PageAt(c)) <= PageSize
         /\ Len(PageAt(c)) < PageSize => c + Len(PageAt(c)) >= nextSeq
<1> DEFINE n == IF c >= nextSeq THEN 0
                ELSE IF nextSeq - c < PageSize THEN nextSeq - c ELSE PageSize
           f == [i \in 1..n |-> c + i - 1]
<1>1. n \in Nat /\ n <= PageSize /\ (n < PageSize => c + n >= nextSeq)
      /\ (n > 0 => c + n <= nextSeq)
  BY WatchAssumption DEF TypeInv
<1> HIDE DEF n
<1>2. \A i \in 1..n : f[i] = c + i - 1 /\ f[i] \in Int
  BY <1>1
<1>3. f \in Seq(Int) /\ Len(f) = n
  BY <1>1, <1>2
<1>4. PageAt(c) = f
  BY DEF PageAt, n
<1> HIDE DEF f
<1> QED BY <1>1, <1>2, <1>3, <1>4 DEF TypeInv

\* Where received, sent and read entries are in the output.
LEMMA OutIndex ==
  ASSUME TypeInv
  PROVE  /\ Out \in Seq(Int) /\ Len(Out) \in Nat /\ DOMAIN Out = 1..Len(Out)
         /\ Len(Out) = Len(seen) + Len(pipe) + Len(page)
         /\ \A i \in 1..Len(seen) : Out[i] = seen[i]
         /\ \A i \in 1..Len(pipe) : Out[Len(seen) + i] = pipe[i]
         /\ \A i \in 1..Len(page) : Out[Len(seen) + Len(pipe) + i] = page[i]
<1> DEFINE s == seen \o pipe
<1>1. seen \in Seq(Int) /\ pipe \in Seq(Int) /\ page \in Seq(Int)
  BY DEF TypeInv
<1>2. Len(seen) \in Nat /\ Len(pipe) \in Nat /\ Len(page) \in Nat
  BY <1>1
<1>3. /\ s \in Seq(Int) /\ Len(s) = Len(seen) + Len(pipe)
      /\ \A i \in 1..Len(seen) : s[i] = seen[i]
      /\ \A i \in 1..Len(pipe) : s[Len(seen) + i] = pipe[i]
  BY <1>1, CatIndex, Zenon
<1> HIDE DEF s
<1>4. /\ s \o page \in Seq(Int) /\ Len(s \o page) = Len(s) + Len(page)
      /\ \A i \in 1..Len(s) : (s \o page)[i] = s[i]
      /\ \A i \in 1..Len(page) : (s \o page)[Len(s) + i] = page[i]
  BY <1>1, <1>3, CatIndex, Zenon
<1>5. Out = s \o page
  BY DEF Out, s
<1> DEFINE o == Out
<1>6. /\ o \in Seq(Int) /\ Len(o) = Len(s) + Len(page)
      /\ \A i \in 1..Len(s) : o[i] = s[i]
      /\ \A i \in 1..Len(page) : o[Len(s) + i] = page[i]
  BY <1>4, <1>5, Zenon
<1> HIDE DEF o
<1>7. /\ o \in Seq(Int) /\ Len(o) \in Nat /\ DOMAIN o = 1..Len(o)
      /\ Len(o) = Len(seen) + Len(pipe) + Len(page)
  BY <1>2, <1>3, <1>6
<1>8. \A i \in 1..Len(seen) : o[i] = seen[i]
  BY <1>2, <1>3, <1>6
<1>9. ASSUME NEW i \in 1..Len(pipe) PROVE o[Len(seen) + i] = pipe[i]
  <2>1. Len(seen) + i \in 1..Len(s)
    BY <1>2, <1>3
  <2> QED BY <1>3, <1>6, <2>1, Zenon
<1>10. \A i \in 1..Len(page) : o[Len(seen) + Len(pipe) + i] = page[i]
  BY <1>2, <1>3, <1>6
<1> QED BY <1>7, <1>8, <1>9, <1>10 DEF o

\* What each step does to the output of the stream.
LEMMA OutStep ==
  ASSUME TypeInv, PhaseInv
  PROVE  /\ SendPage => Out' = Out
         /\ Push => Out' = Out
         /\ Receive => Out' = Out
         /\ ReadPage => Out' = Out \o PageAt(cursor)
         /\ Recv => \/ lastSent # -1 /\ chan[pos + 1] <= lastSent /\ page' = page /\ Out' = Out
                    \/ Out' = Append(Out, chan[pos + 1])
         /\ PushLagged => Out' = Append(Out, Lagged)
         /\ \A f : Connect(f) => Out' = <<>>
         /\ StreamEnds => Out' = seen
<1> DEFINE s == seen \o pipe
<1> USE DEF server, stream, client
<1>1. seen \in Seq(Int) /\ pipe \in Seq(Int) /\ page \in Seq(Int)
  BY DEF TypeInv
<1>2. s \in Seq(Int)
  BY <1>1, CatIndex, Zenon
<1>3. ASSUME page = <<>> PROVE Out = s
  BY <1>2, <1>3, ConcatEmptySeq, Zenon DEF Out
<1>4. ASSUME SendPage PROVE Out' = Out
  <2>1. /\ seen' = seen /\ pipe' = Append(pipe, Head(page)) /\ page' = Tail(page)
        /\ page # <<>>
    BY <1>4 DEF SendPage, PhaseInv
  <2>2. Head(page) \in Int
    BY <1>1, <2>1, HeadTailProperties
  <2>3. seen \o Append(pipe, Head(page)) = Append(s, Head(page))
    <3>1. <<Head(page)>> \in Seq(Int)
      BY <2>2
    <3>2. Append(pipe, Head(page)) = pipe \o <<Head(page)>>
      BY <1>1, <2>2, AppendIsConcat, Zenon
    <3>3. Append(s, Head(page)) = s \o <<Head(page)>>
      BY <1>2, <2>2, AppendIsConcat, Zenon
    <3>4. (seen \o pipe) \o <<Head(page)>> = seen \o (pipe \o <<Head(page)>>)
      BY <1>1, <3>1, CatAssoc
    <3> QED BY <3>2, <3>3, <3>4
  <2>4. Append(s, Head(page)) \o Tail(page) = s \o page
    BY <1>1, <1>2, <2>1, PassOn, Zenon
  <2> QED BY <2>1, <2>3, <2>4 DEF Out
<1>5. ASSUME Push PROVE Out' = Out
  <2>1. seen' = seen /\ pipe' = pipe \o page /\ page' = <<>>
    BY <1>5 DEF Push
  <2>2. seen \o (pipe \o page) = s \o page
    BY <1>1, CatAssoc, Zenon
  <2>3. s \o page \in Seq(Int)
    BY <1>1, <1>2, CatIndex, Zenon
  <2>4. (s \o page) \o <<>> = s \o page
    BY <2>3, ConcatEmptySeq, Zenon
  <2> QED BY <2>1, <2>2, <2>4 DEF Out
<1>6. ASSUME Receive PROVE Out' = Out
  <2>1. /\ pipe # <<>> /\ seen' = Append(seen, Head(pipe)) /\ pipe' = Tail(pipe)
        /\ page' = page
    BY <1>6 DEF Receive
  <2>2. Append(seen, Head(pipe)) \o Tail(pipe) = seen \o pipe
    BY <1>1, <2>1, PassOn, Zenon
  <2> QED BY <2>1, <2>2 DEF Out
<1>7. ASSUME ReadPage PROVE Out' = Out \o PageAt(cursor)
  <2>1. page = <<>> /\ seen' = seen /\ pipe' = pipe /\ page' = PageAt(cursor)
    BY <1>7 DEF ReadPage, PhaseInv
  <2> QED BY <1>3, <2>1 DEF Out
<1>8. ASSUME Recv, ~(lastSent # -1 /\ chan[pos + 1] <= lastSent)
      PROVE  Out' = Append(Out, chan[pos + 1])
  <2>1. page = <<>> /\ seen' = seen /\ pipe' = pipe /\ page' = <<chan[pos + 1]>>
    BY <1>8 DEF Recv, PhaseInv, Live
  <2>2. chan[pos + 1] \in Int
    BY <1>8 DEF Recv, TypeInv
  <2>3. Append(s, chan[pos + 1]) = s \o <<chan[pos + 1]>>
    BY <1>2, <2>2, AppendIsConcat, Zenon
  <2> QED BY <1>3, <2>1, <2>3 DEF Out
<1>9. ASSUME Recv, lastSent # -1, chan[pos + 1] <= lastSent
      PROVE  page' = page /\ Out' = Out
  BY <1>9 DEF Recv, Out
<1>10. ASSUME PushLagged PROVE Out' = Append(Out, Lagged)
  <2>1. page = <<>> /\ seen' = seen /\ pipe' = Append(pipe, Lagged) /\ page' = <<>>
    BY <1>10 DEF PushLagged, PhaseInv
  <2>2. Lagged \in Int /\ <<Lagged>> \in Seq(Int)
    BY DEF Lagged
  <2>3. Append(pipe, Lagged) = pipe \o <<Lagged>> /\ Append(s, Lagged) = s \o <<Lagged>>
    BY <1>1, <1>2, <2>2, AppendIsConcat, Zenon
  <2>4. (seen \o pipe) \o <<Lagged>> = seen \o (pipe \o <<Lagged>>)
    BY <1>1, <2>2, CatAssoc
  <2>5. Append(s, Lagged) \in Seq(Int)
    BY <1>2, <2>2, AddIndex, Zenon
  <2>6. Append(s, Lagged) \o <<>> = Append(s, Lagged)
    BY <2>5, ConcatEmptySeq, Zenon
  <2> QED BY <1>3, <2>1, <2>3, <2>4, <2>6 DEF Out
<1>11. <<>> \in Seq(Int)
  BY EmptySeq, Zenon
<1>12. ASSUME NEW f, Connect(f) PROVE Out' = <<>>
  <2>1. seen' = <<>> /\ pipe' = <<>> /\ page' = <<>>
    BY <1>12 DEF Connect, Subscribe
  <2>2. <<>> \o <<>> = <<>>
    BY <1>11, ConcatEmptySeq, Zenon
  <2> QED BY <2>1, <2>2 DEF Out
<1>13. ASSUME StreamEnds PROVE Out' = seen
  <2>1. seen' = seen /\ pipe' = <<>> /\ page' = <<>>
    BY <1>13 DEF StreamEnds
  <2>2. seen \o <<>> = seen
    BY <1>1, ConcatEmptySeq, Zenon
  <2> QED BY <2>1, <2>2 DEF Out
<1>14. Recv => \/ lastSent # -1 /\ chan[pos + 1] <= lastSent /\ page' = page /\ Out' = Out
               \/ Out' = Append(Out, chan[pos + 1])
  BY <1>8, <1>9
<1> QED BY <1>4, <1>5, <1>6, <1>7, <1>10, <1>12, <1>13, <1>14, Zenon

-----------------------------------------------------------------------------
(* Every step keeps the invariant: the handlers.                           *)

\* What a handler has after it has reserved n sequence numbers.
LEMMA AppendPending ==
  ASSUME TypeInv, NEW w \in Writers, NEW n \in 1..MaxBatch, AppendEntries(w, n)
  PROVE  /\ pending' \in [Writers -> Seq(Nat)] /\ nextSeq' = nextSeq + n /\ n \in Nat
         /\ \A v \in Writers : v # w => pending'[v] = pending[v]
         /\ pending[w] = <<>> /\ Len(pending'[w]) = n
         /\ \A i \in 1..n : pending'[w][i] = nextSeq + i - 1
<1>1. n \in Nat
  BY WatchAssumption
<1> DEFINE b == [i \in 1..n |-> nextSeq + i - 1]
<1>2. \A i \in 1..n : b[i] = nextSeq + i - 1 /\ b[i] \in Nat
  BY <1>1 DEF TypeInv
<1>3. b \in Seq(Nat) /\ Len(b) = n
  BY <1>1, <1>2
<1>4. pending' = [pending EXCEPT ![w] = b] /\ pending[w] = <<>> /\ nextSeq' = nextSeq + n
  BY DEF AppendEntries
<1> HIDE DEF b
<1> QED BY <1>1, <1>2, <1>3, <1>4 DEF TypeInv

\* What a handler has after it has sent an entry.
LEMMA BroadcastPending ==
  ASSUME TypeInv, NEW w \in Writers, Broadcast(w)
  PROVE  /\ pending' \in [Writers -> Seq(Nat)]
         /\ \A v \in Writers : v # w => pending'[v] = pending[v]
         /\ Len(pending[w]) >= 1 /\ Len(pending'[w]) = Len(pending[w]) - 1
         /\ \A i \in 1..Len(pending'[w]) : pending'[w][i] = pending[w][i + 1]
         /\ chan' \in Seq(Nat) /\ Len(chan') = Len(chan) + 1
         /\ \A i \in 1..Len(chan) : chan'[i] = chan[i]
         /\ chan'[Len(chan) + 1] = pending[w][1] /\ pending[w][1] \in Nat
         /\ Head(pending[w]) = pending[w][1]
<1> DEFINE p == pending[w]
           t == Tail(p)
<1>1. p \in Seq(Nat) /\ p # <<>>
  BY DEF TypeInv, Broadcast
<1>2. /\ t \in Seq(Nat) /\ Len(t) = Len(p) - 1 /\ Len(p) >= 1
      /\ \A i \in 1..Len(t) : t[i] = p[i + 1]
      /\ Head(p) = p[1] /\ p[1] \in Nat
  BY <1>1, HeadTailProperties
<1>3. pending' = [pending EXCEPT ![w] = t] /\ chan' = Append(chan, Head(p))
  BY DEF Broadcast
<1> HIDE DEF t
<1>4. pending'[w] = t /\ pending' \in [Writers -> Seq(Nat)]
      /\ \A v \in Writers : v # w => pending'[v] = pending[v]
  BY <1>2, <1>3 DEF TypeInv
<1>5. chan \in Seq(Nat) /\ Head(p) \in Nat
  BY <1>2 DEF TypeInv
<1>6. /\ chan' \in Seq(Nat) /\ Len(chan') = Len(chan) + 1
      /\ \A i \in 1..Len(chan) : chan'[i] = chan[i]
      /\ chan'[Len(chan) + 1] = Head(p)
  BY <1>3, <1>5
<1> QED BY <1>2, <1>4, <1>6

\* The handlers' invariant.
LEMMA HandlerStep == TypeInv /\ HandlerInv /\ [Next]_vars => HandlerInv'
<1> SUFFICES ASSUME TypeInv, HandlerInv, [Next]_vars PROVE HandlerInv'
  OBVIOUS
<1> USE DEF server, stream, client
<1>1. \A w \in Writers : pending[w] \in Seq(Nat) /\ Len(pending[w]) \in Nat
      /\ \A i \in 1..Len(pending[w]) : pending[w][i] \in Nat
  BY DEF TypeInv
<1>2. nextSeq \in Nat /\ Len(chan) \in Nat /\ Runs /\ Disjoint /\ (~overtaken => InOrder)
  BY DEF TypeInv, HandlerInv
<1>3. ASSUME NEW w \in Writers, NEW n \in 1..MaxBatch, AppendEntries(w, n)
      PROVE  HandlerInv'
  <2>1. /\ nextSeq' = nextSeq + n /\ n \in Nat
        /\ \A v \in Writers : v # w => pending'[v] = pending[v]
        /\ pending[w] = <<>> /\ Len(pending'[w]) = n
        /\ \A i \in 1..n : pending'[w][i] = nextSeq + i - 1
    BY <1>3, AppendPending
  <2>2. chan' = chan /\ overtaken' = overtaken
    BY <1>3 DEF AppendEntries
  <2>3. Runs'
    <3>1. ASSUME NEW v \in Writers, NEW i \in 1..Len(pending'[v])
          PROVE  pending'[v][i] = pending'[v][1] + i - 1 /\ pending'[v][i] < nextSeq'
      <4>1. CASE v = w
        <5>1. i \in 1..n /\ 1 \in 1..n
          BY <2>1, <3>1, <4>1
        <5>2. pending'[w][i] = nextSeq + i - 1 /\ pending'[w][1] = nextSeq + 1 - 1
          BY <2>1, <5>1, Zenon
        <5> QED BY <1>2, <2>1, <4>1, <5>1, <5>2
      <4>2. CASE v # w
        <5>1. pending'[v] = pending[v] /\ i \in 1..Len(pending[v])
          BY <2>1, <3>1, <4>2
        <5>2. pending[v][i] = pending[v][1] + i - 1 /\ pending[v][i] < nextSeq
          BY <1>2, <5>1, Zenon DEF Runs
        <5>3. pending[v][i] \in Nat
          BY <1>1, <5>1
        <5> QED BY <1>2, <2>1, <5>1, <5>2, <5>3
      <4> QED BY <4>1, <4>2
    <3> QED BY <3>1 DEF Runs
  <2>4. Disjoint'
    <3>1. ASSUME NEW u \in Writers, NEW v \in Writers, u # v,
                 NEW i \in 1..Len(pending'[u]), NEW j \in 1..Len(pending'[v])
          PROVE  pending'[u][i] # pending'[v][j]
      <4>1. CASE u # w /\ v # w
        BY <2>1, <3>1, <4>1 DEF Disjoint, HandlerInv
      <4>2. CASE u = w
        <5>1. pending'[v] = pending[v] /\ pending[v][j] < nextSeq /\ pending[v][j] \in Nat
          BY <1>1, <1>2, <2>1, <3>1, <4>2 DEF Runs
        <5>2. pending'[u][i] = nextSeq + i - 1 /\ i \in 1..n
          BY <2>1, <4>2
        <5> QED BY <1>2, <2>1, <5>1, <5>2
      <4>3. CASE v = w
        <5>1. pending'[u] = pending[u] /\ pending[u][i] < nextSeq /\ pending[u][i] \in Nat
          BY <1>1, <1>2, <2>1, <3>1, <4>3 DEF Runs
        <5>2. pending'[v][j] = nextSeq + j - 1 /\ j \in 1..n
          BY <2>1, <4>3
        <5> QED BY <1>2, <2>1, <5>1, <5>2
      <4> QED BY <4>1, <4>2, <4>3
    <3> QED BY <3>1 DEF Disjoint
  <2>5. ASSUME InOrder PROVE InOrder'
    <3>1. Len(chan') <= nextSeq' /\ \A i \in 1..Len(chan') : chan'[i] = i - 1
      BY <1>2, <2>1, <2>2, <2>5 DEF InOrder
    <3>2. ASSUME NEW e \in Len(chan')..(nextSeq' - 1)
          PROVE  \E v \in Writers : \E i \in 1..Len(pending'[v]) : pending'[v][i] = e
      <4>1. CASE e < nextSeq
        <5>1. PICK v \in Writers : \E i \in 1..Len(pending[v]) : pending[v][i] = e
          BY <1>2, <2>2, <2>5, <4>1 DEF InOrder
        <5>2. v # w
          BY <2>1, <5>1
        <5> QED BY <2>1, <5>1, <5>2
      <4>2. CASE e >= nextSeq
        <5>1. e - nextSeq + 1 \in 1..n /\ nextSeq + (e - nextSeq + 1) - 1 = e
          BY <1>2, <2>1, <4>2
        <5>2. pending'[w][e - nextSeq + 1] = e
          BY <2>1, <5>1
        <5> QED BY <2>1, <5>1, <5>2
      <4> QED BY <1>2, <2>1, <2>2, <4>1, <4>2
    <3>3. ASSUME NEW v \in Writers, NEW i \in 1..Len(pending'[v])
          PROVE  pending'[v][i] >= Len(chan')
      <4>1. CASE v = w
        BY <1>2, <2>1, <2>2, <2>5, <3>3, <4>1 DEF InOrder
      <4>2. CASE v # w
        BY <2>1, <2>2, <2>5, <3>3, <4>2 DEF InOrder
      <4> QED BY <4>1, <4>2
    <3> QED BY <3>1, <3>2, <3>3 DEF InOrder
  <2> QED BY <1>2, <2>2, <2>3, <2>4, <2>5 DEF HandlerInv
<1>4. ASSUME NEW w \in Writers, Broadcast(w) PROVE HandlerInv'
  <2> DEFINE h == pending[w][1]
  <2>1. /\ \A v \in Writers : v # w => pending'[v] = pending[v]
        /\ Len(pending[w]) >= 1 /\ Len(pending'[w]) = Len(pending[w]) - 1
        /\ \A i \in 1..Len(pending'[w]) : pending'[w][i] = pending[w][i + 1]
        /\ Len(chan') = Len(chan) + 1
        /\ \A i \in 1..Len(chan) : chan'[i] = chan[i]
        /\ chan'[Len(chan) + 1] = h /\ h \in Nat
    BY <1>4, BroadcastPending
  <2>2. /\ nextSeq' = nextSeq
        /\ overtaken' = (overtaken \/ \E v \in Writers :
                           pending[v] # <<>> /\ Head(pending[v]) < Head(pending[w]))
    BY <1>4 DEF Broadcast
  <2>3. \A i \in 1..Len(pending'[w]) : i + 1 \in 1..Len(pending[w])
    BY <1>1, <2>1
  <2>4. Runs'
    <3>1. ASSUME NEW v \in Writers, NEW i \in 1..Len(pending'[v])
          PROVE  pending'[v][i] = pending'[v][1] + i - 1 /\ pending'[v][i] < nextSeq'
      <4>1. CASE v = w
        <5>1. 1 \in 1..Len(pending'[w]) /\ i \in 1..Len(pending'[w])
          BY <1>1, <2>1, <4>1
        <5>2. pending'[w][i] = pending[w][i + 1] /\ pending'[w][1] = pending[w][1 + 1]
          BY <2>1, <5>1, Zenon
        <5>3. /\ pending[w][i + 1] = h + (i + 1) - 1 /\ pending[w][i + 1] < nextSeq
              /\ pending[w][1 + 1] = h + (1 + 1) - 1
          BY <1>2, <2>3, <5>1, Zenon DEF Runs
        <5>4. i \in Nat /\ h \in Nat
          BY <2>1, <5>1
        <5> HIDE DEF h
        <5>5. pending'[w][i] = h + i /\ pending'[w][1] = h + 1 /\ pending'[w][i] < nextSeq
          BY <5>2, <5>3, <5>4
        <5> QED BY <2>2, <4>1, <5>4, <5>5
      <4>2. CASE v # w
        BY <1>2, <2>1, <2>2, <3>1, <4>2 DEF Runs
      <4> QED BY <4>1, <4>2
    <3> QED BY <3>1 DEF Runs
  <2>5. \A v \in Writers : \A i \in 1..Len(pending'[v]) : \E j \in 1..Len(pending[v]) :
          pending'[v][i] = pending[v][j] /\ (v = w => j # 1)
    <3>1. ASSUME NEW i \in 1..Len(pending'[w])
          PROVE  i + 1 \in 1..Len(pending[w]) /\ pending'[w][i] = pending[w][i + 1] /\ i + 1 # 1
      BY <1>1, <2>1, <2>3
    <3>2. \A i \in 1..Len(pending'[w]) : \E j \in 1..Len(pending[w]) :
            pending'[w][i] = pending[w][j] /\ j # 1
      BY <3>1, Zenon
    <3>3. ASSUME NEW v \in Writers, v # w, NEW i \in 1..Len(pending'[v])
          PROVE  \E j \in 1..Len(pending[v]) : pending'[v][i] = pending[v][j] /\ (v = w => j # 1)
      <4>1. pending'[v] = pending[v]
        BY <2>1, <3>3, Zenon
      <4>2. i \in 1..Len(pending[v]) /\ pending'[v][i] = pending[v][i]
        BY <4>1
      <4> QED BY <3>3, <4>2, Zenon
    <3> QED BY <3>2, <3>3
  <2>6. Disjoint'
    BY <1>2, <2>5 DEF Disjoint
  <2>7. ASSUME ~overtaken' PROVE InOrder'
    <3>1. InOrder /\ \A v \in Writers : pending[v] # <<>> => ~(Head(pending[v]) < Head(pending[w]))
      BY <1>2, <2>2, <2>7, Zenon
    <3>2. h >= Len(chan) /\ h < nextSeq
      BY <1>1, <1>2, <2>1, <3>1 DEF InOrder, Runs
    <3>3. h = Len(chan)
      <4>0. Len(chan) \in Len(chan)..(nextSeq - 1)
        <5>1. Len(chan) \in Nat /\ nextSeq \in Nat /\ h \in Nat
          BY <1>1, <2>1, LenProperties DEF TypeInv
        <5> QED BY <3>2, <5>1
      <4>1. PICK v \in Writers : \E i \in 1..Len(pending[v]) : pending[v][i] = Len(chan)
        BY <3>1, <4>0, Zenon DEF InOrder
      <4>2. PICK i \in 1..Len(pending[v]) : pending[v][i] = Len(chan)
        BY <4>1
      <4>3. pending[v][1] + i - 1 = Len(chan) /\ pending[v][1] \in Nat /\ pending[v] # <<>>
        BY <1>1, <1>2, <4>2 DEF Runs
      <4>4. Head(pending[v]) = pending[v][1] /\ Head(pending[w]) = pending[w][1]
        BY <1>1, <1>4, <4>3, BroadcastPending
      <4>5. ~(pending[v][1] < h)
        BY <3>1, <4>3, <4>4
      <4> QED BY <1>2, <2>1, <3>2, <4>3, <4>5
    <3>4. Len(chan') <= nextSeq' /\ \A i \in 1..Len(chan') : chan'[i] = i - 1
      BY <1>2, <2>1, <2>2, <3>1, <3>2, <3>3 DEF InOrder
    <3>5. ASSUME NEW e \in Len(chan')..(nextSeq' - 1)
          PROVE  \E v \in Writers : \E i \in 1..Len(pending'[v]) : pending'[v][i] = e
      <4>1. e \in Len(chan)..(nextSeq - 1) /\ e # h
        BY <1>2, <2>1, <2>2, <3>3
      <4>2. PICK v \in Writers : \E i \in 1..Len(pending[v]) : pending[v][i] = e
        BY <3>1, <4>1 DEF InOrder
      <4>3. PICK i \in 1..Len(pending[v]) : pending[v][i] = e
        BY <4>2
      <4>4. CASE v # w
        BY <2>1, <4>3, <4>4
      <4>5. CASE v = w
        <5>1. i # 1
          BY <4>1, <4>3, <4>5
        <5>2. i - 1 \in 1..Len(pending'[w]) /\ (i - 1) + 1 = i
          BY <1>1, <2>1, <4>5, <5>1
        <5>3. pending'[w][i - 1] = e
          BY <2>1, <4>3, <4>5, <5>2
        <5> QED BY <5>2, <5>3
      <4> QED BY <4>4, <4>5
    <3>6. ASSUME NEW v \in Writers, NEW i \in 1..Len(pending'[v])
          PROVE  pending'[v][i] >= Len(chan')
      <4>1. PICK j \in 1..Len(pending[v]) : pending'[v][i] = pending[v][j] /\ (v = w => j # 1)
        BY <2>5
      <4>2. pending[v][j] >= Len(chan) /\ pending[v][j] \in Nat
        BY <1>1, <3>1 DEF InOrder
      <4>3. pending[v][j] # h
        <5>1. CASE v = w
          <6>1. pending[w][j] = h + j - 1
            BY <1>2, <4>1, <5>1, Zenon DEF Runs
          <6>2. h \in Nat /\ j \in Nat /\ j # 1
            BY <2>1, <4>1, <5>1
          <6> QED BY <5>1, <6>1, <6>2
        <5>2. CASE v # w
          BY <1>1, <1>2, <2>1, <5>2 DEF Disjoint
        <5> QED BY <5>1, <5>2
      <4> QED BY <1>2, <2>1, <3>3, <4>1, <4>2, <4>3
    <3> QED BY <3>4, <3>5, <3>6 DEF InOrder
  <2> QED BY <2>4, <2>6, <2>7 DEF HandlerInv
<1>5. ASSUME UNCHANGED server PROVE HandlerInv'
  BY <1>5 DEF HandlerInv, Runs, Disjoint, InOrder
<1>6. ASSUME ~\E w \in Writers : (\E n \in 1..MaxBatch : AppendEntries(w, n)) \/ Broadcast(w)
      PROVE  UNCHANGED server
  BY <1>6 DEF Next, ReadPage, SendPage, Recv, Push, Lag, PushLagged, Connect, Receive,
              ReceiveLagged, ConnectionBreaks, StreamEnds, vars
<1> QED BY <1>3, <1>4, <1>5, <1>6

-----------------------------------------------------------------------------
(* Every step keeps the invariant: the stream and the client.              *)

\* A client reconnects with an entry it has received.
LEMMA LastSeenType ==
  ASSUME TypeInv, ClientInv
  PROVE  /\ LastSeen \in Nat
         /\ seenAll # {} => LastSeen \in seenAll /\ (LastSeen < nextSeq)
<1>1. CASE seen = <<>>
  <2>1. LastSeen = from /\ from \in Nat
    BY <1>1 DEF LastSeen, TypeInv
  <2>2. seenAll # {} => from \in seenAll /\ from < base
    BY <1>1 DEF ClientInv
  <2> QED BY <2>1, <2>2 DEF TypeInv
<1>2. CASE seen # <<>>
  <2>1. Len(seen) \in 1..Len(seen)
    BY <1>2, EmptySeq, LenProperties DEF TypeInv
  <2>2. LastSeen = seen[Len(seen)]
    BY <1>2 DEF LastSeen, Last
  <2>3. LastSeen \in seenAll
    BY <2>1, <2>2 DEF ClientInv
  <2> QED BY <2>3 DEF ClientInv, TypeInv
<1> QED BY <1>1, <1>2

\* The connections the client makes.
LEMMA ConnectFrom ==
  ASSUME TypeInv, ClientInv, NEW f, Connect(f),
         (connects = 0 /\ f \in FromSeqs) \/ (connects > 0 /\ f = LastSeen)
  PROVE  f \in Nat /\ (seenAll # {} => f \in seenAll /\ (f < nextSeq))
<1>1. CASE connects = 0 /\ f \in FromSeqs
  BY <1>1, WatchAssumption, Zenon DEF ClientInv
<1>2. CASE connects > 0 /\ f = LastSeen
  BY <1>2, LastSeenType
<1> QED BY <1>1, <1>2

\* Every step keeps the shape of the server, of its stream and of the client.
LEMMA TypeStep == TypeInv /\ HandlerInv /\ PhaseInv /\ ClientInv /\ [Next]_vars => TypeInv'
<1> SUFFICES ASSUME TypeInv, HandlerInv, PhaseInv, ClientInv, [Next]_vars PROVE TypeInv'
  OBVIOUS
<1> USE DEF server, stream, client
<1>1. CASE UNCHANGED vars
  BY <1>1 DEF TypeInv, vars
<1>2. ASSUME NEW w \in Writers, NEW n \in 1..MaxBatch, AppendEntries(w, n) PROVE TypeInv'
  <2>1. /\ pending' \in [Writers -> Seq(Nat)] /\ nextSeq' = nextSeq + n /\ n \in Nat
    BY <1>2, AppendPending
  <2>2. UNCHANGED <<chan, overtaken, stream, pipe, client>>
    BY <1>2 DEF AppendEntries
  <2>3. \A i \in 1..Len(chan) : chan[i] \in Nat
    BY DEF TypeInv
  <2> QED BY <2>1, <2>2, <2>3 DEF TypeInv
<1>3. ASSUME NEW w \in Writers, Broadcast(w) PROVE TypeInv'
  <2>1. /\ pending' \in [Writers -> Seq(Nat)] /\ chan' \in Seq(Nat) /\ Len(chan') = Len(chan) + 1
        /\ \A i \in 1..Len(chan) : chan'[i] = chan[i]
        /\ chan'[Len(chan) + 1] = pending[w][1] /\ Len(pending[w]) >= 1
    BY <1>3, BroadcastPending
  <2>2. UNCHANGED <<nextSeq, stream, pipe, client>>
    BY <1>3 DEF Broadcast
  <2>3. pending[w][1] < nextSeq
    BY <2>1 DEF HandlerInv, Runs, TypeInv
  <2>4. Len(chan) \in Nat
    BY DEF TypeInv
  <2>5. ASSUME NEW i \in 1..Len(chan') PROVE chan'[i] < nextSeq
    <3>1. i \in 1..Len(chan) \/ i = Len(chan) + 1
      BY <2>1, <2>4
    <3>2. \A j \in 1..Len(chan) : chan[j] < nextSeq
      BY DEF TypeInv
    <3> QED BY <2>1, <2>3, <3>1, <3>2
  <2> QED BY <2>1, <2>2, <2>5 DEF TypeInv
<1>4. CASE ReadPage
  <2>1. page' = PageAt(cursor) /\ cursor' = NextCursor(cursor)
        /\ UNCHANGED <<server, from, base, lastSent, pos, pipe, client>>
    BY <1>4 DEF ReadPage
  <2>2. page' \in Seq(Int)
    BY <2>1, PageIndex DEF TypeInv
  <2>3. cursor' \in Nat
    BY <2>1, WatchAssumption DEF NextCursor, TypeInv
  <2> QED BY <2>1, <2>2, <2>3 DEF TypeInv
<1>5. CASE SendPage
  <2>1. page # <<>> /\ pipe' = Append(pipe, Head(page)) /\ lastSent' = Head(page)
        /\ page' = Tail(page) /\ UNCHANGED <<server, from, base, cursor, pos, client>>
    BY <1>5 DEF SendPage, PhaseInv
  <2>2. Head(page) \in Int /\ Tail(page) \in Seq(Int)
    BY <2>1, HeadTailProperties DEF TypeInv
  <2> QED BY <2>1, <2>2 DEF TypeInv
<1>6. CASE Recv
  <2>1. chan[pos + 1] \in Int
    BY <1>6 DEF Recv, TypeInv
  <2>2. <<chan[pos + 1]>> \in Seq(Int)
    BY <2>1
  <2>3. (page' = page /\ lastSent' = lastSent)
        \/ (page' = <<chan[pos + 1]>> /\ lastSent' = chan[pos + 1])
    BY <1>6, Zenon DEF Recv
  <2>4. page' \in Seq(Int) /\ lastSent' \in Int
    BY <2>1, <2>2, <2>3, Zenon DEF TypeInv
  <2>5. pos' = pos + 1 /\ UNCHANGED <<server, from, base, cursor, pipe, client>>
    BY <1>6 DEF Recv
  <2> QED BY <2>4, <2>5 DEF TypeInv
<1>7. CASE Push
  <2>1. pipe' \in Seq(Int)
    BY <1>7, CatIndex DEF Push, TypeInv
  <2> QED BY <1>7, <2>1 DEF Push, TypeInv
<1>8. CASE Lag
  BY <1>8 DEF Lag, TypeInv
<1>9. CASE PushLagged
  BY <1>9 DEF PushLagged, TypeInv, Lagged
<1>10. ASSUME NEW f, Connect(f), f \in Nat PROVE TypeInv'
  BY <1>10 DEF Connect, Subscribe, TypeInv
<1>11. CASE Receive
  <2>1. Head(pipe) \in Int /\ Tail(pipe) \in Seq(Int)
    BY <1>11, HeadTailProperties DEF Receive, TypeInv
  <2> QED BY <1>11, <2>1 DEF Receive, TypeInv
<1>12. CASE StreamEnds
  BY <1>12 DEF StreamEnds, TypeInv
<1> QED BY <1>1, <1>2, <1>3, <1>4, <1>5, <1>6, <1>7, <1>8, <1>9, <1>10, <1>11, <1>12,
           ConnectFrom DEF Next, ReceiveLagged, ConnectionBreaks

\* A page extends the output to the end of the log or by PageSize entries.
LEMMA ReadPageOut ==
  ASSUME TypeInv, PhaseInv, ReplayInv, ReadPage
  PROVE  /\ Len(Out') = Len(Out) + Len(PageAt(cursor)) /\ Len(PageAt(cursor)) \in Nat
         /\ Len(Out) = Sent /\ Len(Out) \in Nat /\ cursor = from + Len(Out) /\ from > 0
         /\ \A i \in 1..Len(Out') : Out'[i] = from + i - 1
         /\ \A i \in 1..Len(Out') : Out'[i] \in Nat /\ Out'[i] < nextSeq
         /\ Len(PageAt(cursor)) < PageSize => from + Len(Out') >= nextSeq
<1> DEFINE o == Out
           g == PageAt(cursor)
           r == Out'
<1>1. /\ o \in Seq(Int) /\ Len(o) \in Nat
      /\ Len(o) = Len(seen) + Len(pipe) + Len(page)
  BY OutIndex, Zenon
<1>2. /\ g \in Seq(Int) /\ (Len(g) < PageSize => cursor + Len(g) >= nextSeq)
      /\ \A i \in 1..Len(g) : g[i] = cursor + i - 1 /\ g[i] < nextSeq
  BY PageIndex, Zenon DEF TypeInv
<1>3. r = o \o g
  BY OutStep
<1>4. spc = "replay" /\ page = <<>> /\ cursor # 0 /\ cursor \in Nat
  BY DEF ReadPage, PhaseInv, TypeInv
<1>5. /\ from > 0 /\ cursor = from + Len(o) /\ from \in Nat
      /\ \A i \in 1..Len(o) : o[i] = from + i - 1
  BY <1>4 DEF ReplayInv, TypeInv
<1>6. \A i \in 1..Len(o) : o[i] < nextSeq
  BY <1>4 DEF PhaseInv, Sound
<1>7. Len(o) = Sent
  BY <1>1, <1>4 DEF Sent, TypeInv
<1>8. nextSeq \in Nat /\ Len(g) \in Nat
  BY <1>2 DEF TypeInv
<1> HIDE DEF o, g, r
<1>9. /\ Len(r) = Len(o) + Len(g)
      /\ \A i \in 1..Len(o) : r[i] = o[i]
      /\ \A i \in 1..Len(g) : r[Len(o) + i] = g[i]
  BY <1>1, <1>2, <1>3, CatIndex, Zenon
<1>10. ASSUME NEW i \in 1..Len(r) PROVE r[i] = from + i - 1 /\ r[i] < nextSeq
  <2>1. CASE i <= Len(o)
    BY <1>1, <1>5, <1>6, <1>9, <2>1
  <2>2. CASE i > Len(o)
    <3>1. PICK j \in 1..Len(g) : i = Len(o) + j
      <4>1. i - Len(o) \in 1..Len(g) /\ i = Len(o) + (i - Len(o))
        BY <1>1, <1>8, <1>9, <2>2
      <4> QED BY <4>1
    <3>2. r[i] = g[j]
      BY <1>9, <3>1
    <3>3. g[j] = cursor + j - 1 /\ g[j] < nextSeq
      BY <1>2
    <3> QED BY <1>1, <1>4, <1>5, <3>1, <3>2, <3>3
  <2> QED BY <1>1, <2>1, <2>2
<1>11. \A i \in 1..Len(r) : r[i] \in Nat
  BY <1>5, <1>10
<1>12. Len(g) < PageSize => from + Len(r) >= nextSeq
  BY <1>1, <1>2, <1>5, <1>8, <1>9
<1> QED BY <1>1, <1>5, <1>7, <1>8, <1>9, <1>10, <1>11, <1>12, Zenon DEF o, g, r

\* An entry or the status is added to the output.
LEMMA OutAdded ==
  ASSUME TypeInv, NEW x \in Int, Out' = Append(Out, x)
  PROVE  /\ Len(Out) \in Nat /\ Len(Out') = Len(Out) + 1
         /\ \A i \in 1..Len(Out) : Out'[i] = Out[i] /\ Out[i] \in Int
         /\ Out'[Len(Out) + 1] = x
         /\ \A i \in 1..Len(Out') : i \in 1..Len(Out) \/ i = Len(Out) + 1
<1> DEFINE o == Out
           r == Out'
<1>1. o \in Seq(Int) /\ r = Append(o, x)
  BY OutIndex
<1> HIDE DEF o, r
<1>2. /\ Len(o) \in Nat /\ Len(r) = Len(o) + 1
      /\ \A i \in 1..Len(o) : r[i] = o[i] /\ o[i] \in Int
      /\ r[Len(o) + 1] = x
  BY <1>1
<1>3. \A i \in 1..Len(r) : i \in 1..Len(o) \/ i = Len(o) + 1
  BY <1>2
<1> QED BY <1>2, <1>3 DEF o, r

\* What watch_rx.recv does with an entry x: it is skipped, or goes on to the client.
LEMMA RecvCases ==
  ASSUME TypeInv, PhaseInv, Recv
  PROVE  /\ spc = "live" /\ pos' = pos + 1 /\ pos + 1 \in 1..Len(chan)
         /\ chan[pos + 1] \in Nat /\ chan[pos + 1] < nextSeq
         /\ UNCHANGED <<server, from, base, cursor, pipe, client>>
         /\ \/ /\ lastSent # -1 /\ chan[pos + 1] <= lastSent /\ Out' = Out
               /\ UNCHANGED <<spc, page, lastSent>>
            \/ /\ lastSent = -1 \/ chan[pos + 1] > lastSent
               /\ Out' = Append(Out, chan[pos + 1])
               /\ lastSent' = chan[pos + 1] /\ page' = <<chan[pos + 1]>> /\ spc' = "push"
<1>1. /\ spc = "live" /\ pos' = pos + 1 /\ pos < Len(chan)
      /\ UNCHANGED <<server, from, base, cursor, pipe, client>>
  BY DEF Recv
<1>2. pos + 1 \in 1..Len(chan)
  BY <1>1 DEF TypeInv
<1>3. chan[pos + 1] \in Nat /\ chan[pos + 1] < nextSeq
  BY <1>2 DEF TypeInv
<1>4. CASE lastSent # -1 /\ chan[pos + 1] <= lastSent
  <2>1. UNCHANGED <<spc, page, lastSent>>
    BY <1>4 DEF Recv
  <2>2. Out' = Out
    BY <1>1, <2>1 DEF Out, client
  <2> QED BY <1>1, <1>2, <1>3, <1>4, <2>1, <2>2
<1>5. CASE ~(lastSent # -1 /\ chan[pos + 1] <= lastSent)
  <2>1. lastSent' = chan[pos + 1] /\ page' = <<chan[pos + 1]>> /\ spc' = "push"
    BY <1>5 DEF Recv
  <2>2. Out' = Append(Out, chan[pos + 1])
    BY <1>5, OutStep
  <2>3. lastSent = -1 \/ chan[pos + 1] > lastSent
    BY <1>3, <1>5 DEF TypeInv
  <2> QED BY <1>1, <1>2, <1>3, <2>1, <2>2, <2>3
<1> QED BY <1>4, <1>5

\* The received part of the output is what is left of it when a stream ends.
LEMMA SeenOut ==
  ASSUME TypeInv, ClientInv
  PROVE  /\ Len(seen) \in Nat /\ Len(seen) <= Len(Out) /\ Len(Out) \in Nat
         /\ \A i \in 1..Len(seen) : /\ Out[i] = seen[i] /\ i \in 1..Len(Out)
                                    /\ seen[i] \in Nat /\ seen[i] < nextSeq
<1>1. Len(seen) \in Nat /\ Len(pipe) \in Nat /\ Len(page) \in Nat
  BY DEF TypeInv
<1>2. /\ Len(Out) = Len(seen) + Len(pipe) + Len(page)
      /\ \A i \in 1..Len(seen) : Out[i] = seen[i]
  BY OutIndex, Zenon
<1>3. \A i \in 1..Len(seen) : seen[i] \in 0..(nextSeq - 1)
  BY Zenon DEF ClientInv
<1>4. \A i \in 1..Len(seen) : seen[i] \in Nat /\ seen[i] < nextSeq
  BY <1>3 DEF TypeInv
<1> DEFINE n == Len(Out)
<1>5. n = Len(seen) + Len(pipe) + Len(page)
  BY <1>2
<1> HIDE DEF n
<1>6. n \in Nat /\ Len(seen) <= n /\ \A i \in 1..Len(seen) : i \in 1..n
  BY <1>1, <1>5
<1> QED BY <1>1, <1>2, <1>4, <1>6 DEF n

\* Every step keeps what page and pipe may hold in the phase of the stream task, and
\* what it has put out entries of the log.
LEMMA PhaseStep ==
  TypeInv /\ PhaseInv /\ ReplayInv /\ ClientInv /\ [Next]_vars => PhaseInv'
<1> SUFFICES ASSUME TypeInv, PhaseInv, ReplayInv, ClientInv, [Next]_vars PROVE PhaseInv'
  OBVIOUS
<1> USE DEF server, stream, client, Live
<1>0. nextSeq \in Nat /\ Sound(Out, spc, nextSeq)
  BY DEF TypeInv, PhaseInv
<1>1. ASSUME Out' = Out, nextSeq' \in Nat, nextSeq' >= nextSeq, spc = "closed" => spc' = "closed"
      PROVE  Sound(Out', spc', nextSeq')
  BY <1>0, <1>1 DEF Sound
<1>2. CASE UNCHANGED vars
  <2>1. Out' = Out /\ nextSeq' = nextSeq /\ spc' = spc
    BY <1>2 DEF vars, Out
  <2> QED BY <1>0, <1>2, <2>1 DEF vars, PhaseInv
<1>3. ASSUME NEW w \in Writers, NEW n \in 1..MaxBatch, AppendEntries(w, n) PROVE PhaseInv'
  <2>1. nextSeq' = nextSeq + n /\ n \in Nat
    BY <1>3, AppendPending
  <2>2. UNCHANGED <<stream, pipe, client>>
    BY <1>3 DEF AppendEntries
  <2>3. Out' = Out
    BY <2>2 DEF Out
  <2>4. Sound(Out', spc', nextSeq')
    BY <1>0, <1>1, <2>1, <2>2, <2>3
  <2> QED BY <2>2, <2>4 DEF PhaseInv
<1>4. ASSUME NEW w \in Writers, Broadcast(w) PROVE PhaseInv'
  <2>1. UNCHANGED <<nextSeq, stream, pipe, client>>
    BY <1>4 DEF Broadcast
  <2>2. Out' = Out
    BY <2>1 DEF Out
  <2>3. Sound(Out', spc', nextSeq')
    BY <1>0, <2>1, <2>2
  <2> QED BY <2>1, <2>3 DEF PhaseInv
<1>5. CASE ReadPage
  <2>1. /\ page' = PageAt(cursor) /\ nextSeq' = nextSeq /\ pipe' = pipe
        /\ cursor' = NextCursor(cursor)
        /\ spc' = IF PageAt(cursor) = <<>> THEN "live" ELSE "page"
    BY <1>5 DEF ReadPage
  <2>2. \A i \in 1..Len(Out') : Out'[i] \in Nat /\ Out'[i] < nextSeq
    BY <1>5, ReadPageOut
  <2>3. Sound(Out', spc', nextSeq')
    BY <2>1, <2>2 DEF Sound
  <2> QED BY <2>1, <2>3 DEF PhaseInv
<1>6. CASE SendPage
  <2>1. /\ page # <<>> /\ page' = Tail(page) /\ spc = "page" /\ UNCHANGED <<cursor, nextSeq>>
        /\ spc' = CASE Len(page) > 1 -> "page"
                    [] Len(page) = 1 /\ cursor = 0 -> "live"
                    [] OTHER -> "replay"
    BY <1>6 DEF SendPage, PhaseInv
  <2>2. Len(page) \in Nat /\ Len(page) >= 1 /\ page' \in Seq(Int) /\ Len(page') = Len(page) - 1
    BY <2>1, HeadTailProperties DEF TypeInv
  <2>3. Sound(Out', spc', nextSeq')
    BY <1>0, <1>1, <1>6, <2>1, OutStep
  <2>4. CASE Len(page) > 1
    <3>1. spc' = "page" /\ page' # <<>>
      BY <2>1, <2>2, <2>4
    <3> QED BY <2>3, <3>1 DEF PhaseInv
  <2>5. CASE Len(page) = 1
    <3>1. page' = <<>> /\ spc' \in {"live", "replay"} /\ (spc' = "replay" => cursor > 0)
      <4>1. page' = <<>>
        BY <2>2, <2>5
      <4>2. ~(Len(page) > 1)
        BY <2>5
      <4>3. CASE cursor = 0
        BY <2>1, <2>5, <4>1, <4>2, <4>3
      <4>4. CASE cursor # 0
        <5>1. spc' = "replay"
          BY <2>1, <4>2, <4>4
        <5> QED BY <4>1, <4>4, <5>1 DEF TypeInv
      <4> QED BY <4>3, <4>4
    <3> QED BY <2>1, <2>3, <3>1 DEF PhaseInv
  <2> QED BY <2>2, <2>4, <2>5
<1>7. CASE Recv
  <2>1. CASE Out' = Out /\ UNCHANGED <<spc, page, lastSent>>
    <3>1. UNCHANGED <<nextSeq, cursor, pipe>>
      BY <1>7, RecvCases
    <3>2. Sound(Out', spc', nextSeq')
      BY <1>0, <2>1, <3>1
    <3> QED BY <2>1, <3>1, <3>2 DEF PhaseInv
  <2>2. CASE /\ Out' = Append(Out, chan[pos + 1])
             /\ lastSent' = chan[pos + 1] /\ page' = <<chan[pos + 1]>> /\ spc' = "push"
    <3>1. nextSeq' = nextSeq /\ spc = "live" /\ chan[pos + 1] \in Nat /\ chan[pos + 1] < nextSeq
      BY <1>7, RecvCases
    <3>2. /\ \A i \in 1..Len(Out) : Out'[i] = Out[i]
          /\ Out'[Len(Out) + 1] = chan[pos + 1]
          /\ \A i \in 1..Len(Out') : i \in 1..Len(Out) \/ i = Len(Out) + 1
      BY <2>2, <3>1, OutAdded
    <3>3. Sound(Out', spc', nextSeq')
      BY <1>0, <3>1, <3>2 DEF Sound
    <3> QED BY <2>2, <3>3 DEF PhaseInv
  <2> QED BY <1>7, <2>1, <2>2, RecvCases
<1>8. CASE Push
  <2>1. spc = "push" /\ page' = <<>> /\ spc' = "live" /\ UNCHANGED <<nextSeq, cursor>>
    BY <1>8 DEF Push
  <2>2. Sound(Out', spc', nextSeq')
    BY <1>0, <1>1, <1>8, <2>1, OutStep
  <2> QED BY <2>1, <2>2 DEF PhaseInv
<1>9. CASE Lag
  <2>1. spc = "live" /\ spc' = "lagged" /\ UNCHANGED <<nextSeq, cursor, page, pipe, seen>>
    BY <1>9 DEF Lag
  <2>2. Sound(Out', spc', nextSeq')
    <3>1. Out' = Out
      BY <2>1 DEF Out
    <3> QED BY <1>0, <1>1, <2>1, <3>1
  <2> QED BY <2>1, <2>2 DEF PhaseInv
<1>10. CASE PushLagged
  <2>1. spc = "lagged" /\ spc' = "closed" /\ UNCHANGED <<nextSeq, cursor, page>>
    BY <1>10 DEF PushLagged
  <2>2. Lagged \in Int
    BY DEF Lagged
  <2>3. /\ Len(Out') = Len(Out) + 1 /\ \A i \in 1..Len(Out) : Out'[i] = Out[i]
        /\ Out'[Len(Out) + 1] = Lagged
        /\ \A i \in 1..Len(Out') : i \in 1..Len(Out) \/ i = Len(Out) + 1
    BY <1>10, <2>2, OutAdded, OutStep
  <2>4. Sound(Out', spc', nextSeq')
    BY <1>0, <2>1, <2>3 DEF Sound
  <2> QED BY <2>1, <2>4 DEF PhaseInv
<1>11. ASSUME NEW f, Connect(f), f \in Nat PROVE PhaseInv'
  <2>1. /\ spc' = (IF f > 0 THEN "replay" ELSE "live") /\ cursor' = f
        /\ page' = <<>> /\ pipe' = <<>> /\ nextSeq' = nextSeq
    BY <1>11 DEF Connect, Subscribe
  <2>2. Out' = <<>>
    BY <1>11, OutStep
  <2>3. Sound(Out', spc', nextSeq')
    BY <2>2 DEF Sound
  <2> QED BY <2>1, <2>3 DEF PhaseInv
<1>12. CASE Receive
  <2>1. UNCHANGED <<server, stream>> /\ pipe # <<>>
    BY <1>12 DEF Receive
  <2>2. Sound(Out', spc', nextSeq')
    BY <1>0, <1>1, <1>12, <2>1, OutStep
  <2> QED BY <2>1, <2>2 DEF PhaseInv
<1>13. CASE StreamEnds
  <2>1. spc' = "off" /\ page' = <<>> /\ pipe' = <<>> /\ nextSeq' = nextSeq
    BY <1>13 DEF StreamEnds
  <2>2. Out' = seen
    BY <1>13, OutStep
  <2>3. Sound(Out', spc', nextSeq')
    BY <2>1, <2>2, SeenOut DEF Sound
  <2> QED BY <2>1, <2>3 DEF PhaseInv
<1> QED BY <1>2, <1>3, <1>4, <1>5, <1>6, <1>7, <1>8, <1>9, <1>10, <1>11, <1>12, <1>13,
           ConnectFrom DEF Next, ReceiveLagged, ConnectionBreaks

\* What tx.send of the replay does.
LEMMA SendPageCases ==
  ASSUME TypeInv, PhaseInv, ReplayInv, SendPage
  PROVE  /\ spc = "page" /\ Out' = Out /\ UNCHANGED <<server, from, base, cursor, pos, client>>
         /\ Sent \in Nat /\ Sent' = Sent + 1 /\ Len(Out) \in Nat /\ Sent + 1 <= Len(Out)
         /\ lastSent' = from + Sent
         /\ \/ spc' \in {"page", "replay"}
            \/ spc' = "live" /\ cursor = 0 /\ Len(Out) = Sent + 1
<1> USE DEF client
<1>1. /\ spc = "page" /\ page # <<>> /\ lastSent' = Head(page)
      /\ pipe' = Append(pipe, Head(page))
      /\ UNCHANGED <<server, from, base, cursor, pos, client>>
      /\ spc' = CASE Len(page) > 1 -> "page"
                  [] Len(page) = 1 /\ cursor = 0 -> "live"
                  [] OTHER -> "replay"
  BY DEF SendPage, PhaseInv
<1>2. /\ page \in Seq(Int) /\ Len(page) \in Nat /\ Len(page) >= 1 /\ Head(page) = page[1]
      /\ Len(seen) \in Nat /\ Len(pipe) \in Nat /\ Len(pipe') = Len(pipe) + 1
  BY <1>1, HeadTailProperties DEF TypeInv
<1>3. Sent \in Nat /\ Sent' = Sent + 1
  BY <1>1, <1>2 DEF Sent
<1>4. /\ Len(Out) = Sent + Len(page) /\ Len(Out) \in Nat
      /\ \A i \in 1..Len(page) : Out[Sent + i] = page[i]
  BY <1>2, OutIndex, Zenon DEF Sent
<1> DEFINE n == Len(Out)
<1>5. n = Sent + Len(page) /\ n \in Nat
  BY <1>4
<1>6. \A i \in 1..n : Out[i] = from + i - 1
  BY <1>1 DEF ReplayInv
<1>7. 1 \in 1..Len(page)
  BY <1>2
<1>8. Out[Sent + 1] = page[1]
  BY <1>4, <1>7, Zenon
<1>9. from \in Nat /\ cursor \in Nat
  BY DEF TypeInv
<1> HIDE DEF n
<1>10. Sent + 1 \in 1..n /\ from + (Sent + 1) - 1 = from + Sent
  BY <1>2, <1>3, <1>5, <1>9
<1>11. lastSent' = from + Sent
  BY <1>1, <1>2, <1>6, <1>8, <1>10
<1>12. spc' \in {"page", "replay"} \/ (spc' = "live" /\ cursor = 0 /\ Len(page) = 1)
  BY <1>1
<1>13. Out' = Out
  BY OutStep
<1>14. Sent + 1 <= n
  BY <1>3, <1>5, <1>10
<1>15. Len(page) = 1 => n = Sent + 1
  BY <1>5
<1> QED BY <1>1, <1>3, <1>5, <1>11, <1>12, <1>13, <1>14, <1>15 DEF n

\* Every step keeps the replay counting up from from_seq, and the stream from going
\* live before it has reached the entries that came in before it subscribed.
LEMMA ReplayStep ==
  TypeInv /\ PhaseInv /\ ReplayInv /\ ClientInv /\ [Next]_vars => ReplayInv'
<1> SUFFICES ASSUME TypeInv, PhaseInv, ReplayInv, ClientInv, [Next]_vars PROVE ReplayInv'
  OBVIOUS
<1> USE DEF server, stream, client, Live
<1>0. /\ from \in Nat /\ base \in Nat /\ cursor \in Nat /\ nextSeq \in Nat /\ base <= nextSeq
      /\ Len(Out) \in Nat
  BY OutIndex DEF TypeInv
<1>1. ASSUME Out' = Out, UNCHANGED <<spc, from, base, cursor, lastSent>>, Sent' = Sent
      PROVE  ReplayInv'
  BY <1>1 DEF ReplayInv
<1>2. ASSUME UNCHANGED <<stream, pipe, client>> PROVE ReplayInv'
  <2>1. Out' = Out /\ Sent' = Sent
    BY <1>2 DEF Out, Sent
  <2> QED BY <1>1, <1>2, <2>1
<1>3. CASE ReadPage
  <2>1. /\ cursor' = NextCursor(cursor) /\ UNCHANGED <<server, from, base, lastSent, pipe, client>>
        /\ spc = "replay"
        /\ spc' = IF PageAt(cursor) = <<>> THEN "live" ELSE "page"
    BY <1>3 DEF ReadPage
  <2> DEFINE m == Len(Out')
             k == Len(PageAt(cursor))
  <2>2. /\ m = Len(Out) + k /\ k \in Nat /\ Len(Out) = Sent /\ cursor = from + Len(Out) /\ from > 0
        /\ \A i \in 1..m : Out'[i] = from + i - 1
        /\ k < PageSize => from + m >= nextSeq
    BY <1>3, ReadPageOut
  <2>3. k <= PageSize /\ PageSize \in Nat \ {0} /\ (PageAt(cursor) = <<>> => k = 0)
    BY <1>0, PageIndex, WatchAssumption
  <2>4. cursor' = IF k = PageSize THEN cursor + PageSize ELSE 0
    BY <2>1 DEF NextCursor
  <2>5. lastSent = IF Sent = 0 THEN -1 ELSE from + Sent - 1
    BY <2>1 DEF ReplayInv
  <2>6. Sent' = Sent
    BY <2>1 DEF Sent
  <2> HIDE DEF m, k
  <2>7. (cursor' # 0 => cursor' = from + m) /\ (cursor' = 0 => from + m >= base)
    BY <1>0, <2>2, <2>3, <2>4
  <2>8. CASE PageAt(cursor) # <<>>
    <3>1. spc' = "page"
      BY <2>1, <2>8
    <3>2. /\ from' > 0 /\ \A i \in 1..Len(Out') : Out'[i] = from' + i - 1
          /\ cursor' # 0 => cursor' = from' + Len(Out')
          /\ cursor' = 0 => from' + Len(Out') >= base'
          /\ lastSent' = IF Sent' = 0 THEN -1 ELSE from' + Sent' - 1
      BY <2>1, <2>2, <2>5, <2>6, <2>7 DEF m
    <3> QED BY <3>1, <3>2 DEF ReplayInv
  <2>9. CASE PageAt(cursor) = <<>>
    <3>1. spc' = "live" /\ m = Len(Out) /\ from + m >= base
      BY <1>0, <2>1, <2>2, <2>3, <2>9
    <3>2. lastSent = IF m = 0 THEN -1 ELSE Out'[m]
      BY <1>0, <2>2, <2>5, <3>1
    <3>3. \A i \in 1..m : from + i - 1 < base => Out'[i] = from + i - 1
      BY <2>2
    <3> QED BY <2>1, <3>1, <3>2, <3>3 DEF ReplayInv, m
  <2> QED BY <2>8, <2>9
<1>4. CASE SendPage
  <2>1. /\ spc = "page" /\ Out' = Out /\ UNCHANGED <<server, from, base, cursor, pos, client>>
        /\ Sent \in Nat /\ Sent' = Sent + 1 /\ Len(Out) \in Nat /\ Sent + 1 <= Len(Out)
        /\ lastSent' = from + Sent
        /\ \/ spc' \in {"page", "replay"}
           \/ spc' = "live" /\ cursor = 0 /\ Len(Out) = Sent + 1
    BY <1>4, SendPageCases
  <2>2. /\ from > 0 /\ \A i \in 1..Len(Out) : Out[i] = from + i - 1
        /\ cursor # 0 => cursor = from + Len(Out)
        /\ cursor = 0 => from + Len(Out) >= base
    BY <2>1 DEF ReplayInv
  <2>3. lastSent' = IF Sent' = 0 THEN -1 ELSE from + Sent' - 1
    BY <1>0, <2>1
  <2>4. CASE spc' \in {"page", "replay"}
    BY <2>1, <2>2, <2>3, <2>4 DEF ReplayInv
  <2>5. CASE spc' = "live" /\ cursor = 0 /\ Len(Out) = Sent + 1
    <3>1. Len(Out) # 0 /\ Len(Out) \in 1..Len(Out)
      BY <2>1, <2>5
    <3>2. lastSent' = Out[Len(Out)]
      BY <1>0, <2>1, <2>2, <2>5, <3>1
    <3> QED BY <2>1, <2>2, <2>5, <3>1, <3>2 DEF ReplayInv
  <2> QED BY <2>1, <2>4, <2>5
<1>5. ASSUME NEW x \in Int, Out' = Append(Out, x), spc \in Live, UNCHANGED <<from, base>>,
             spc' = "closed" \/ (spc' = "push" /\ lastSent' = x)
      PROVE  ReplayInv'
  <2>1. /\ Len(Out') = Len(Out) + 1 /\ \A i \in 1..Len(Out) : Out'[i] = Out[i]
        /\ Out'[Len(Out) + 1] = x
        /\ \A i \in 1..Len(Out') : i \in 1..Len(Out) \/ i = Len(Out) + 1
    BY <1>5, OutAdded
  <2>2. from > 0 => from + Len(Out) >= base
    BY <1>5 DEF ReplayInv
  <2>3. from > 0 => \A i \in 1..Len(Out') : from + i - 1 < base => Out'[i] = from + i - 1
    <3> SUFFICES ASSUME from > 0, NEW i \in 1..Len(Out'), from + i - 1 < base
                 PROVE  Out'[i] = from + i - 1
      OBVIOUS
    <3>1. i \in 1..Len(Out)
      BY <1>0, <2>1, <2>2
    <3> QED BY <2>1, <3>1 DEF ReplayInv
  <2>4. from > 0 => from + Len(Out') >= base
    BY <1>0, <2>1, <2>2
  <2>5. Len(Out') # 0 /\ Out'[Len(Out')] = x
    BY <1>0, <2>1
  <2> QED BY <1>5, <2>3, <2>4, <2>5 DEF ReplayInv
<1>6. CASE Recv
  <2>1. CASE Out' = Out /\ UNCHANGED <<spc, page, lastSent>>
    <3>1. UNCHANGED <<from, base, cursor, pipe, client>>
      BY <1>6, RecvCases
    <3>2. Sent' = Sent
      BY <3>1 DEF Sent
    <3> QED BY <1>1, <2>1, <3>1, <3>2
  <2>2. CASE /\ Out' = Append(Out, chan[pos + 1])
             /\ lastSent' = chan[pos + 1] /\ page' = <<chan[pos + 1]>> /\ spc' = "push"
    <3>1. spc = "live" /\ chan[pos + 1] \in Int /\ UNCHANGED <<from, base>>
      BY <1>6, RecvCases
    <3> QED BY <1>5, <2>2, <3>1
  <2> QED BY <1>6, <2>1, <2>2, RecvCases
<1>7. ASSUME Out' = Out, spc \in Live, spc' \in Live, UNCHANGED <<from, base, lastSent>>
      PROVE  ReplayInv'
  BY <1>7 DEF ReplayInv
<1>8. CASE Push
  <2>1. spc = "push" /\ spc' = "live" /\ UNCHANGED <<from, base, lastSent>>
    BY <1>8 DEF Push
  <2> QED BY <1>7, <1>8, <2>1, OutStep
<1>9. CASE Lag
  <2>1. spc = "live" /\ spc' = "lagged" /\ UNCHANGED <<from, base, lastSent, page, pipe, seen>>
    BY <1>9 DEF Lag
  <2>2. Out' = Out
    BY <2>1 DEF Out
  <2> QED BY <1>7, <2>1, <2>2
<1>10. CASE PushLagged
  <2>1. spc = "lagged" /\ spc' = "closed" /\ UNCHANGED <<from, base>> /\ Lagged \in Int
    BY <1>10 DEF PushLagged, Lagged
  <2> QED BY <1>5, <1>10, <2>1, OutStep
<1>11. ASSUME NEW f, Connect(f), f \in Nat PROVE ReplayInv'
  <2>1. /\ spc' = (IF f > 0 THEN "replay" ELSE "live") /\ cursor' = f /\ from' = f
        /\ lastSent' = -1 /\ seen' = <<>> /\ pipe' = <<>>
    BY <1>11 DEF Connect, Subscribe
  <2>2. Out' = <<>>
    BY <1>11, OutStep
  <2>3. Len(Out') = 0 /\ Sent' = 0
    BY <2>1, <2>2 DEF Sent
  <2> QED BY <1>11, <2>1, <2>3 DEF ReplayInv
<1>12. CASE Receive
  <2>1. UNCHANGED stream /\ pipe # <<>> /\ seen' = Append(seen, Head(pipe)) /\ pipe' = Tail(pipe)
    BY <1>12 DEF Receive
  <2>2. Sent' = Sent
    <3>1. Len(pipe) \in Nat /\ Len(pipe') = Len(pipe) - 1 /\ Head(pipe) \in Int
      BY <2>1, HeadTailProperties DEF TypeInv
    <3>2. Len(seen) \in Nat /\ Len(seen') = Len(seen) + 1
      BY <2>1, <3>1 DEF TypeInv
    <3> QED BY <3>1, <3>2 DEF Sent
  <2> QED BY <1>1, <1>12, <2>1, <2>2, OutStep
<1>13. CASE StreamEnds
  <2>1. spc' = "off" /\ UNCHANGED <<from, base>>
    BY <1>13 DEF StreamEnds
  <2>2. Out' = seen
    BY <1>13, OutStep
  <2>3. from > 0 => \A i \in 1..Len(seen) : from + i - 1 < base => seen[i] = from + i - 1
    BY SeenOut DEF ReplayInv
  <2> QED BY <2>1, <2>2, <2>3 DEF ReplayInv
<1>14. CASE \E w \in Writers : (\E n \in 1..MaxBatch : AppendEntries(w, n)) \/ Broadcast(w)
  BY <1>2, <1>14 DEF AppendEntries, Broadcast
<1>15. CASE UNCHANGED vars
  BY <1>2, <1>15 DEF vars
<1> QED BY <1>3, <1>4, <1>6, <1>8, <1>9, <1>10, <1>11, <1>12, <1>13, <1>14, <1>15,
           ConnectFrom DEF Next, ReceiveLagged, ConnectionBreaks

\* Every step keeps the output without a gap and the receiver behind it, unless two
\* appends have broadcast in the wrong order.
LEMMA OrderStep ==
  TypeInv /\ HandlerInv /\ PhaseInv /\ ReplayInv /\ OrderInv /\ ClientInv /\ [Next]_vars => OrderInv'
<1> SUFFICES ASSUME TypeInv, HandlerInv, PhaseInv, ReplayInv, OrderInv, ClientInv, [Next]_vars,
                    ~overtaken'
             PROVE  OrderInv'
  BY DEF OrderInv
<1> USE DEF server, stream, client, Live
<1>0. /\ from \in Nat /\ base \in Nat /\ cursor \in Nat /\ nextSeq \in Nat /\ base <= nextSeq
      /\ Len(Out) \in Nat /\ pos \in Nat /\ lastSent \in Int
  BY OutIndex DEF TypeInv
<1>1. ~overtaken
  BY Zenon DEF Next, AppendEntries, Broadcast, ReadPage, SendPage, Recv, Push, Lag, PushLagged, Connect,
         Receive, ReceiveLagged, ConnectionBreaks, StreamEnds, vars
<1>2. /\ \A i \in 2..Len(Out) : Out[i] # Lagged => Out[i] = Out[i - 1] + 1
      /\ (from > 0 /\ Len(Out) > 0) => Out[1] <= from
      /\ spc \in {"replay", "page"} => pos <= base
      /\ spc \in Live => pos <= IF lastSent = -1 THEN base ELSE lastSent + 1
      /\ InOrder
  BY <1>1 DEF OrderInv, HandlerInv
<1>3. ASSUME Out' = Out, UNCHANGED <<spc, from, base, lastSent, pos>> PROVE OrderInv'
  BY <1>2, <1>3 DEF OrderInv
<1>4. ASSUME UNCHANGED <<stream, pipe, client>> PROVE OrderInv'
  <2>1. Out' = Out
    BY <1>4 DEF Out
  <2> QED BY <1>3, <1>4, <2>1
<1>5. CASE ReadPage
  <2>1. /\ UNCHANGED <<from, base, lastSent, pos>> /\ spc = "replay"
        /\ spc' = IF PageAt(cursor) = <<>> THEN "live" ELSE "page"
    BY <1>5 DEF ReadPage
  <2> DEFINE m == Len(Out')
             k == Len(PageAt(cursor))
             r == Out'
  <2>2. /\ m = Len(Out) + k /\ k \in Nat /\ Len(Out) = Sent /\ from > 0
        /\ \A i \in 1..m : r[i] = from + i - 1
        /\ k < PageSize => from + m >= nextSeq
    BY <1>5, ReadPageOut
  <2>3. PageSize \in Nat \ {0} /\ (PageAt(cursor) = <<>> => k = 0)
    BY WatchAssumption
  <2>4. lastSent = IF Sent = 0 THEN -1 ELSE from + Sent - 1
    BY <2>1 DEF ReplayInv
  <2>5. pos <= base
    BY <1>2, <2>1
  <2> HIDE DEF m, k, r
  <2>6. ASSUME NEW i \in 2..m PROVE r[i] = r[i - 1] + 1
    <3>1. i \in 1..m /\ i - 1 \in 1..m /\ i \in Nat
      BY <1>0, <2>2
    <3>2. r[i] = from + i - 1 /\ r[i - 1] = from + (i - 1) - 1
      BY <2>2, <3>1, Zenon
    <3> QED BY <1>0, <3>1, <3>2
  <2>7. m > 0 => r[1] <= from
    BY <1>0, <2>2
  <2>8. PageAt(cursor) = <<>> => pos <= IF lastSent = -1 THEN base ELSE lastSent + 1
    BY <1>0, <2>2, <2>3, <2>4, <2>5
  <2> QED BY <2>1, <2>5, <2>6, <2>7, <2>8 DEF OrderInv, m, r
<1>6. CASE SendPage
  <2>1. /\ spc = "page" /\ Out' = Out /\ UNCHANGED <<from, base, cursor, pos>>
        /\ Sent \in Nat /\ lastSent' = from + Sent
        /\ \/ spc' \in {"page", "replay"}
           \/ spc' = "live" /\ cursor = 0 /\ Len(Out) = Sent + 1
    BY <1>6, SendPageCases
  <2>2. pos <= base /\ (cursor = 0 => from + Len(Out) >= base)
    BY <1>2, <2>1 DEF ReplayInv
  <2>3. spc' = "live" => pos <= IF lastSent' = -1 THEN base ELSE lastSent' + 1
    BY <1>0, <2>1, <2>2
  <2> QED BY <1>2, <2>1, <2>2, <2>3 DEF OrderInv
<1>7. CASE Recv
  <2>1. /\ spc = "live" /\ pos' = pos + 1 /\ pos + 1 \in 1..Len(chan)
        /\ chan[pos + 1] \in Nat /\ UNCHANGED <<from, base>>
    BY <1>7, RecvCases
  <2>2. chan[pos + 1] = pos
    BY <1>0, <1>2, <2>1 DEF InOrder
  <2>3. pos <= IF lastSent = -1 THEN base ELSE lastSent + 1
    BY <1>2, <2>1
  <2>4. CASE /\ lastSent # -1 /\ chan[pos + 1] <= lastSent /\ Out' = Out
             /\ UNCHANGED <<spc, page, lastSent>>
    <3>1. pos' <= IF lastSent' = -1 THEN base' ELSE lastSent' + 1
      BY <1>0, <2>1, <2>2, <2>4
    <3> QED BY <1>2, <2>1, <2>4, <3>1 DEF OrderInv
  <2>5. CASE /\ lastSent = -1 \/ chan[pos + 1] > lastSent
             /\ Out' = Append(Out, chan[pos + 1])
             /\ lastSent' = chan[pos + 1] /\ page' = <<chan[pos + 1]>> /\ spc' = "push"
    <3> DEFINE m == Len(Out)
               r == Out'
    <3>1. /\ Len(r) = m + 1 /\ \A i \in 1..m : r[i] = Out[i] /\ Out[i] \in Int
          /\ r[m + 1] = pos
      BY <2>1, <2>2, <2>5, OutAdded
    <3>2. /\ lastSent = IF m = 0 THEN -1 ELSE Out[m]
          /\ from > 0 => from + m >= base
      BY <2>1 DEF ReplayInv
    <3>3. m # 0 => m \in 1..m /\ Out[m] \in Nat
      BY <1>0, <2>1 DEF PhaseInv, Sound
    <3>4. \A i \in 2..m : Out[i] # Lagged => Out[i] = Out[i - 1] + 1
      BY <1>2
    <3>5. m > 0 /\ from > 0 => Out[1] <= from
      BY <1>2
    <3>6. m \in Nat
      BY <1>0
    <3> HIDE DEF m, r
    <3>7. m # 0 => pos = Out[m] + 1
      BY <1>0, <2>2, <2>3, <2>5, <3>2, <3>3
    <3>8. ASSUME NEW i \in 2..Len(r), r[i] # Lagged PROVE r[i] = r[i - 1] + 1
      <4>1. CASE i \in 2..m
        <5>1. i \in 1..m /\ i - 1 \in 1..m
          BY <3>6, <4>1
        <5>2. r[i] = Out[i] /\ r[i - 1] = Out[i - 1]
          BY <3>1, <5>1
        <5> QED BY <3>4, <3>8, <4>1, <5>2
      <4>2. CASE i = m + 1
        <5>1. i - 1 = m /\ m # 0 /\ m \in 1..m
          BY <3>1, <3>6, <4>2
        <5> QED BY <3>1, <3>7, <4>2, <5>1
      <4> QED BY <3>1, <3>6, <4>1, <4>2
    <3>9. from > 0 => r[1] <= from
      <4>1. CASE m = 0
        <5>1. r[1] = pos
          BY <3>1, <4>1
        <5>2. pos <= base
          BY <2>3, <3>2, <4>1
        <5> QED BY <1>0, <3>2, <4>1, <5>1, <5>2
      <4>2. CASE m # 0
        <5>1. 1 \in 1..m /\ m > 0
          BY <3>6, <4>2
        <5> QED BY <3>1, <3>5, <5>1
      <4> QED BY <4>1, <4>2
    <3>10. pos' <= IF lastSent' = -1 THEN base' ELSE lastSent' + 1
      BY <1>0, <2>1, <2>2, <2>5
    <3> QED BY <2>1, <2>5, <3>8, <3>9, <3>10 DEF OrderInv, r
  <2> QED BY <1>7, <2>4, <2>5, RecvCases
<1>8. CASE Push
  <2>1. spc = "push" /\ spc' = "live" /\ UNCHANGED <<from, base, lastSent, pos>>
    BY <1>8 DEF Push
  <2>2. Out' = Out
    BY <1>8, OutStep
  <2> QED BY <1>2, <2>1, <2>2 DEF OrderInv
<1>9. CASE Lag
  <2>1. spc = "live" /\ spc' = "lagged" /\ UNCHANGED <<from, base, lastSent, pos, page, pipe, seen>>
    BY <1>9 DEF Lag
  <2>2. Out' = Out
    BY <2>1 DEF Out
  <2> QED BY <1>2, <2>1, <2>2 DEF OrderInv
<1>10. CASE PushLagged
  <2>1. spc = "lagged" /\ spc' = "closed" /\ UNCHANGED <<from, base>> /\ Lagged \in Int
    BY <1>10 DEF PushLagged, Lagged
  <2> DEFINE m == Len(Out)
             r == Out'
  <2>2. /\ Len(r) = m + 1 /\ \A i \in 1..m : r[i] = Out[i]
        /\ r[m + 1] = Lagged /\ m \in Nat
    BY <1>10, <2>1, OutAdded, OutStep
  <2>3. /\ \A i \in 2..m : Out[i] # Lagged => Out[i] = Out[i - 1] + 1
        /\ m > 0 /\ from > 0 => Out[1] <= from
    BY <1>2
  <2> HIDE DEF m, r
  <2>4. ASSUME NEW i \in 2..Len(r), r[i] # Lagged PROVE r[i] = r[i - 1] + 1
    <3>1. i \in 2..m /\ i \in 1..m /\ i - 1 \in 1..m
      BY <2>2, <2>4
    <3>2. r[i] = Out[i] /\ r[i - 1] = Out[i - 1]
      BY <2>2, <3>1
    <3> QED BY <2>3, <2>4, <3>1, <3>2
  <2>5. from > 0 => r[1] <= from
    <3>1. CASE m = 0
      BY <1>0, <2>2, <3>1 DEF Lagged
    <3>2. CASE m # 0
      BY <2>2, <2>3, <3>2
    <3> QED BY <3>1, <3>2
  <2> QED BY <2>1, <2>4, <2>5 DEF OrderInv, r
<1>11. ASSUME NEW f, Connect(f), f \in Nat PROVE OrderInv'
  <2>1. lastSent' = -1 /\ pos' = Len(chan) /\ base' = nextSeq
    BY <1>11 DEF Connect, Subscribe
  <2>2. Out' = <<>>
    BY <1>11, OutStep
  <2>3. Len(Out') = 0 /\ pos' <= base'
    BY <1>2, <2>1, <2>2 DEF InOrder
  <2> QED BY <2>1, <2>3 DEF OrderInv
<1>12. CASE Receive
  <2>1. UNCHANGED stream /\ Out' = Out
    BY <1>12, OutStep DEF Receive
  <2> QED BY <1>3, <2>1
<1>13. CASE StreamEnds
  <2>1. spc' = "off" /\ UNCHANGED <<from, base>> /\ Out' = seen
    BY <1>13, OutStep DEF StreamEnds
  <2>2. \A i \in 2..Len(seen) : seen[i] # Lagged => seen[i] = seen[i - 1] + 1
    <3> SUFFICES ASSUME NEW i \in 2..Len(seen), seen[i] # Lagged PROVE seen[i] = seen[i - 1] + 1
      OBVIOUS
    <3>1. i \in 1..Len(seen) /\ i - 1 \in 1..Len(seen) /\ i \in 2..Len(Out)
      BY SeenOut
    <3>2. Out[i] = seen[i] /\ Out[i - 1] = seen[i - 1]
      BY <3>1, SeenOut
    <3> QED BY <1>2, <3>1, <3>2
  <2>3. (from > 0 /\ Len(seen) > 0) => seen[1] <= from
    BY <1>2, SeenOut
  <2> QED BY <2>1, <2>2, <2>3 DEF OrderInv
<1>14. CASE \E w \in Writers : (\E n \in 1..MaxBatch : AppendEntries(w, n)) \/ Broadcast(w)
  BY <1>4, <1>14 DEF AppendEntries, Broadcast
<1>15. CASE UNCHANGED vars
  BY <1>4, <1>15 DEF vars
<1> QED BY <1>5, <1>6, <1>7, <1>8, <1>9, <1>10, <1>11, <1>12, <1>13, <1>14, <1>15,
           ConnectFrom DEF Next, ReceiveLagged, ConnectionBreaks

\* The entry the client receives next.
LEMMA ReceiveNext ==
  ASSUME TypeInv, PhaseInv, ReplayInv, OrderInv, ClientInv, Receive
  PROVE  /\ Head(pipe) \in Nat /\ Head(pipe) < nextSeq
         /\ (seen = <<>> /\ from > 0 /\ from < base) => Head(pipe) = from
         /\ (seen # <<>> /\ ~overtaken) => \E y \in seenAll : Head(pipe) = y + 1
<1> DEFINE x == Head(pipe)
           k == Len(seen)
           o == Out
<1>1. pipe # <<>> /\ x # Lagged
  BY DEF Receive
<1>2. Head(pipe) = pipe[1] /\ 1 \in 1..Len(pipe) /\ Len(pipe) \in Nat
  BY <1>1, EmptySeq, LenProperties DEF TypeInv
<1>3. o[k + 1] = x
  BY <1>2, OutIndex
<1>4. k \in Nat /\ from \in Nat /\ Len(page) \in Nat /\ Len(o) = k + Len(pipe) + Len(page)
      /\ Len(o) \in Nat
  BY OutIndex DEF TypeInv
<1>5. \A i \in 1..Len(o) : o[i] # Lagged => o[i] \in Nat /\ o[i] < nextSeq
  BY DEF PhaseInv, Sound
<1>6. from > 0 => \A i \in 1..Len(o) : from + i - 1 < base => o[i] = from + i - 1
  BY DEF ReplayInv
<1>7. ~overtaken => \A i \in 2..Len(o) : o[i] # Lagged => o[i] = o[i - 1] + 1
  BY DEF OrderInv
<1>8. seen = <<>> <=> k = 0
  BY EmptySeq DEF TypeInv
<1>9. k # 0 => k \in 1..k /\ o[k] = seen[k] /\ seen[k] \in seenAll
  <2>1. k # 0 => k \in 1..Len(seen)
    BY <1>4
  <2> QED BY <2>1, SeenOut DEF ClientInv
<1> HIDE DEF x, k, o
<1>10. k + 1 \in 1..Len(o)
  BY <1>2, <1>4
<1>11. x \in Nat /\ x < nextSeq
  BY <1>1, <1>3, <1>5, <1>10
<1>12. (k = 0 /\ from > 0 /\ from < base) => x = from
  BY <1>3, <1>4, <1>6, <1>10
<1>13. (k # 0 /\ ~overtaken) => x = o[k] + 1
  <2> SUFFICES ASSUME k # 0, ~overtaken PROVE x = o[k] + 1
    OBVIOUS
  <2>1. k + 1 \in 2..Len(o) /\ (k + 1) - 1 = k
    BY <1>4, <1>10
  <2>2. o[k + 1] = o[(k + 1) - 1] + 1
    BY <1>1, <1>3, <1>7, <2>1, Zenon
  <2> QED BY <1>3, <2>1, <2>2
<1> QED BY <1>8, <1>9, <1>11, <1>12, <1>13 DEF x

\* The positions of a log are positions of every longer one.
LEMMA LogGrows ==
  ASSUME NEW a \in Nat, NEW b \in Nat, b >= a
  PROVE  0..(a - 1) \subseteq 0..(b - 1)
OBVIOUS

\* Every step keeps the client asking, when it reconnects, for an entry it has.
LEMMA ClientStep ==
  TypeInv /\ PhaseInv /\ ReplayInv /\ OrderInv /\ ClientInv /\ [Next]_vars => ClientInv'
<1> SUFFICES ASSUME TypeInv, PhaseInv, ReplayInv, OrderInv, ClientInv, [Next]_vars
             PROVE  ClientInv'
  OBVIOUS
<1> USE DEF server, stream, client
<1>0. nextSeq \in Nat /\ seenAll \subseteq 0..(nextSeq - 1)
  BY DEF TypeInv, ClientInv
<1>1. ~overtaken' => ~overtaken
  BY Zenon DEF Next, AppendEntries, Broadcast, ReadPage, SendPage, Recv, Push, Lag, PushLagged, Connect,
         Receive, ReceiveLagged, ConnectionBreaks, StreamEnds, vars
<1>2. ASSUME UNCHANGED <<from, base, seen, seenAll, connects>>, nextSeq' \in Nat,
             nextSeq' >= nextSeq, spc = "off" => spc' = "off"
      PROVE  ClientInv'
  <2>1. seenAll \subseteq 0..(nextSeq' - 1)
    <3>1. nextSeq \in Nat /\ nextSeq' \in Nat /\ nextSeq' >= nextSeq
      BY <1>0, <1>2
    <3>2. 0..(nextSeq - 1) \subseteq 0..(nextSeq' - 1)
      BY <3>1, LogGrows, Zenon
    <3> QED BY <1>0, <3>2, Zenon
  <2>2. ReconnectMissesNothing'
    BY <1>1, <1>2 DEF ClientInv, ReconnectMissesNothing
  <2> QED BY <1>2, <2>1, <2>2, Zenon DEF ClientInv
<1>3. ASSUME NEW w \in Writers, NEW n \in 1..MaxBatch, AppendEntries(w, n) PROVE ClientInv'
  <2>1. nextSeq' = nextSeq + n /\ n \in Nat
    BY <1>3, AppendPending
  <2>2. UNCHANGED <<spc, from, base, seen, seenAll, connects>>
    BY <1>3 DEF AppendEntries
  <2> QED BY <1>0, <1>2, <2>1, <2>2
<1>4. ASSUME UNCHANGED <<nextSeq, from, base, seen, seenAll, connects>>, spc = "off" => spc' = "off"
      PROVE  ClientInv'
  BY <1>0, <1>2, <1>4
<1>5. ASSUME NEW w \in Writers, Broadcast(w) PROVE ClientInv'
  BY <1>4, <1>5 DEF Broadcast
<1>6. CASE ReadPage \/ SendPage \/ Recv \/ Push \/ Lag \/ PushLagged
  BY <1>4, <1>6 DEF ReadPage, SendPage, Recv, Push, Lag, PushLagged
<1>7. CASE StreamEnds
  BY <1>4, <1>7 DEF StreamEnds
<1>8. CASE UNCHANGED vars
  BY <1>4, <1>8 DEF vars
<1>9. ASSUME NEW f, Connect(f), f \in Nat, seenAll # {} => f \in seenAll /\ (f < nextSeq)
      PROVE  ClientInv'
  <2>1. /\ from' = f /\ base' = nextSeq /\ seen' = <<>> /\ connects' = connects + 1
        /\ UNCHANGED <<nextSeq, overtaken, seenAll>>
    BY <1>9 DEF Connect, Subscribe
  <2>2. connects' # 0 /\ Len(seen') = 0
    BY <2>1 DEF TypeInv
  <2>3. ReconnectMissesNothing'
    BY <1>1, <2>1 DEF ClientInv, ReconnectMissesNothing
  <2> QED BY <1>0, <1>9, <2>1, <2>2, <2>3 DEF ClientInv
<1>10. CASE Receive
  <2> DEFINE x == Head(pipe)
  <2>1. /\ seen' = Append(seen, x) /\ seenAll' = seenAll \cup {x} /\ pipe # <<>>
        /\ UNCHANGED <<nextSeq, overtaken, spc, from, base, connects>>
    BY <1>10 DEF Receive
  <2>2. /\ x \in Nat /\ x < nextSeq
        /\ (seen = <<>> /\ from > 0 /\ from < base) => x = from
        /\ (seen # <<>> /\ ~overtaken) => \E y \in seenAll : x = y + 1
    BY <1>10, ReceiveNext
  <2>3. spc # "off" /\ connects # 0
    BY <2>1 DEF PhaseInv, ClientInv
  <2> HIDE DEF x
  <2>4. seen \in Seq(Int) /\ x \in Int
    BY <2>2 DEF TypeInv
  <2>5. \A i \in 1..Len(seen') : seen'[i] \in seenAll'
    <3>1. /\ Len(seen') = Len(seen) + 1 /\ \A i \in 1..Len(seen) : seen'[i] = seen[i]
          /\ seen'[Len(seen) + 1] = x /\ Len(seen) \in Nat
      BY <2>1, <2>4
    <3>2. \A i \in 1..Len(seen') : i \in 1..Len(seen) \/ i = Len(seen) + 1
      BY <3>1
    <3> QED BY <2>1, <3>1, <3>2 DEF ClientInv
  <2>6. seen' # <<>>
    BY <2>1, <2>4
  <2>7. seenAll' \subseteq 0..(nextSeq' - 1)
    BY <1>0, <2>1, <2>2
  <2>8. ASSUME ~overtaken, 0 \notin seenAll', NEW d \in seenAll', NEW e \in seenAll', NEW m \in d..e
        PROVE  m \in seenAll'
    <3>1. 0 \notin seenAll /\ \A b, c \in seenAll : \A i \in b..c : i \in seenAll
      BY <2>1, <2>8 DEF ClientInv, ReconnectMissesNothing
    <3>2. d \in Nat /\ e \in Nat /\ m \in Nat
      BY <1>0, <2>1, <2>2
    <3>3. CASE seen = <<>> /\ seenAll = {}
      BY <2>1, <3>2, <3>3
    <3>4. CASE seen = <<>> /\ seenAll # {}
      <4>1. from \in seenAll /\ from < base /\ from \in Nat
        BY <3>4 DEF ClientInv, TypeInv
      <4>2. from > 0
        BY <3>1, <4>1
      <4>3. x = from
        BY <2>2, <3>4, <4>1, <4>2
      <4>4. seenAll' = seenAll
        BY <2>1, <4>1, <4>3
      <4> QED BY <2>8, <3>1, <4>4
    <3>5. CASE seen # <<>>
      <4>1. PICK y \in seenAll : x = y + 1
        BY <2>2, <2>8, <3>5
      <4>2. y \in Nat
        BY <1>0
      <4>3. CASE m = x
        BY <2>1, <4>3
      <4>4. CASE m # x
        <5>1. CASE d \in seenAll /\ e \in seenAll
          BY <2>1, <3>1, <5>1
        <5>2. CASE d = x /\ e \in seenAll
          <6>1. m \in y..e
            BY <3>2, <4>1, <4>2, <5>2
          <6> QED BY <2>1, <3>1, <5>2, <6>1
        <5>3. CASE d \in seenAll /\ e = x
          <6>1. m \in d..y
            BY <3>2, <4>1, <4>2, <4>4, <5>3
          <6> QED BY <2>1, <3>1, <5>3, <6>1
        <5>4. CASE d = x /\ e = x
          BY <3>2, <4>4, <5>4
        <5> QED BY <2>1, <5>1, <5>2, <5>3, <5>4
      <4> QED BY <4>3, <4>4
    <3> QED BY <3>3, <3>4, <3>5
  <2>9. ReconnectMissesNothing'
    BY <2>1, <2>8 DEF ReconnectMissesNothing
  <2> QED BY <2>1, <2>3, <2>5, <2>6, <2>7, <2>9 DEF ClientInv
<1> QED BY <1>3, <1>5, <1>6, <1>7, <1>8, <1>9, <1>10, ConnectFrom
        DEF Next, ReceiveLagged, ConnectionBreaks

-----------------------------------------------------------------------------
(* The theorems.                                                           *)

\* Before the first append and the first connection the invariant holds.
LEMMA WatchInit == Init => WInv
<1> SUFFICES ASSUME Init PROVE WInv
  OBVIOUS
<1> USE DEF Init
<1>1. TypeInv
  BY DEF TypeInv
<1>2. HandlerInv
  BY DEF HandlerInv, Runs, Disjoint, InOrder
<1>3. Len(Out) = 0
  BY <1>1, OutIndex
<1>4. PhaseInv
  BY <1>3 DEF PhaseInv, Sound
<1>5. ReplayInv
  BY DEF ReplayInv, Live
<1>6. OrderInv
  BY <1>3 DEF OrderInv, Live
<1>7. ClientInv
  BY DEF ClientInv, ReconnectMissesNothing
<1> QED BY <1>1, <1>2, <1>4, <1>5, <1>6, <1>7 DEF WInv

\* So it holds in every state that the server, its stream and the client can reach.
LEMMA WatchInvariant == Spec => []WInv
<1>1. WInv /\ [Next]_vars => WInv'
  BY TypeStep, HandlerStep, PhaseStep, ReplayStep, OrderStep, ClientStep DEF WInv
<1> QED BY <1>1, WatchInit, PTL DEF Spec

\* However broadcasts interleave with the pages of the replay, a stream delivers, of
\* the entries that were in the log when it subscribed, every one from from_seq on
\* before a later one.
THEOREM ReplayDelivers == Spec => []ReplayIsComplete
<1>1. WInv => ReplayIsComplete
  <2> SUFFICES ASSUME WInv, from > 0, NEW e \in ToSet(seen), NEW d \in from..e, d < base
               PROVE  d \in ToSet(seen)
    BY DEF ReplayIsComplete
  <2>1. TypeInv /\ ClientInv /\ DOMAIN seen = 1..Len(seen) /\ from \in Nat /\ base \in Nat
    BY DEF WInv, TypeInv
  <2>2. PICK i \in 1..Len(seen) : seen[i] = e
    BY <2>1 DEF ToSet
  <2>3. /\ Len(seen) \in Nat /\ Len(seen) <= Len(Out) /\ Len(Out) \in Nat
        /\ \A k \in 1..Len(seen) : Out[k] = seen[k] /\ k \in 1..Len(Out) /\ seen[k] \in Nat
    BY <2>1, SeenOut
  <2>4. \A k \in 1..Len(seen) : from + k - 1 < base => seen[k] = from + k - 1
    BY <2>3 DEF WInv, ReplayInv
  <2>5. PICK j \in Nat \ {0} : d = from + j - 1
    <3>1. d - from + 1 \in Nat \ {0} /\ d = from + (d - from + 1) - 1
      BY <2>1, <2>2, <2>3
    <3> QED BY <3>1
  <2>6. j <= Len(seen)
    <3> SUFFICES ASSUME j > Len(seen) PROVE FALSE
      BY <2>3
    <3>1. from + i - 1 < d /\ from + i - 1 < base
      BY <2>1, <2>3, <2>5
    <3>2. e = from + i - 1
      BY <2>2, <2>4, <3>1
    <3> QED BY <2>1, <3>1, <3>2
  <2>7. j \in 1..Len(seen) /\ seen[j] = d
    BY <2>3, <2>4, <2>5, <2>6
  <2> QED BY <2>1, <2>7 DEF ToSet
<1> QED BY <1>1, WatchInvariant, PTL

\* As long as broadcasts keep the order of the sequence numbers, a stream has no gap:
\* not between pages, not between the replay and the live phase, not after a lag.
THEOREM StreamHasNoGap == Spec => []NoGap
<1>1. WInv => NoGap
  <2> SUFFICES ASSUME WInv, ~overtaken, from > 0
               PROVE  /\ seen # <<>> => seen[1] <= from
                      /\ \A i \in 2..Len(seen) : seen[i] = seen[i - 1] + 1
    BY DEF NoGap, Contiguous
  <2>1. /\ Len(seen) \in Nat /\ Len(seen) <= Len(Out) /\ Len(Out) \in Nat
        /\ \A k \in 1..Len(seen) : Out[k] = seen[k] /\ k \in 1..Len(Out) /\ seen[k] \in Nat
    BY SeenOut DEF WInv
  <2>2. /\ \A i \in 2..Len(Out) : Out[i] # Lagged => Out[i] = Out[i - 1] + 1
        /\ Len(Out) > 0 => Out[1] <= from
    BY DEF WInv, OrderInv
  <2>3. seen # <<>> => seen[1] <= from
    <3>1. seen # <<>> => 1 \in 1..Len(seen)
      BY EmptySeq DEF WInv, TypeInv
    <3> QED BY <2>1, <2>2, <3>1
  <2>4. ASSUME NEW i \in 2..Len(seen) PROVE seen[i] = seen[i - 1] + 1
    <3>1. i \in 1..Len(seen) /\ i - 1 \in 1..Len(seen) /\ i \in 2..Len(Out)
      BY <2>1
    <3>2. Out[i] = seen[i] /\ Out[i - 1] = seen[i - 1] /\ seen[i] # Lagged
      BY <2>1, <3>1 DEF Lagged
    <3> QED BY <2>2, <3>1, <3>2
  <2> QED BY <2>3, <2>4
<1> QED BY <1>1, WatchInvariant, PTL

\* A client that reconnects with the last sequence number it received misses nothing
\* between two entries it has, through any number of lagging and broken streams.
THEOREM ReconnectIsSafe == Spec => []ReconnectMissesNothing
<1>1. WInv => ReconnectMissesNothing
  BY DEF WInv, ClientInv
<1> QED BY <1>1, WatchInvariant, PTL

=============================================================================
