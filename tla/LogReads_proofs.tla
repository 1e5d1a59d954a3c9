--------------------------- MODULE LogReads_proofs ---------------------------
(***************************************************************************)
(* The answers of ListEntries, GetByKey and GetLatest, and the key index,  *)
(* for logs, pages and batches of any size.                                *)
(***************************************************************************)
EXTENDS LogReads, SequenceTheorems, WellFoundedInduction, TLAPS

-----------------------------------------------------------------------------
(* The inductive invariant.                                                *)

Record == [seq : Nat, key : Keys]

Call == [kind : {"none", "list", "key", "latest"},
         at : {"idle", "request", "read", "done", "refused"},
         from : Nat, to : Nat, key : Keys, limit : Nat, cursor : Nat,
         got : Seq(Record), total : Nat, base : Nat]

TypeInv ==
  /\ nextSeq \in Nat
  /\ pending \in Seq(Keys)
  /\ log \in Seq(Record)
  /\ call \in Call

\* Sequence numbers grow from one record to the next.
Increasing(s) == \A i, j \in 1..Len(s) : i < j => s[i].seq < s[j].seq

\* The stored numbers are below the reserved ones, and there are no more records than
\* numbers.
LogInv ==
  /\ Increasing(log)
  /\ Len(log) + Len(pending) <= nextSeq
  /\ \A i \in 1..Len(log) : i - 1 <= log[i].seq /\ log[i].seq < nextSeq - Len(pending)

\* The records the call c asks for.
Asked(c, r) ==
  \/ c.kind = "list" /\ r.seq >= c.from /\ (c.to = 0 \/ r.seq < c.to)
  \/ c.kind = "key" /\ r.key = c.key

\* The entries g of the listing c are of st and asked for, in order, without a hole.
Listed(g, c, st) ==
  /\ Increasing(g)
  /\ \A i \in 1..Len(g) : g[i] \in st /\ Asked(c, g[i])
  /\ Len(g) > 0 => \A r \in st : Asked(c, r) /\ r.seq <= g[Len(g)].seq => r \in ToSet(g)

\* The cursor is 0 before the first page, and follows the last record received before
\* the other ones; a listing that ended has what was asked for when it began.
ListOk(c, l) ==
  c.kind \in {"list", "key"} =>
    /\ c.at \in {"request", "done", "refused"}
    /\ Listed(c.got, c, ToSet(l))
    /\ c.at = "request" /\ c.cursor = 0 => Len(c.got) = 0
    /\ c.at = "request" /\ c.cursor # 0 =>
         Len(c.got) > 0 /\ c.cursor = c.got[Len(c.got)].seq + 1
    /\ c.at = "done" => \A i \in 1..c.base : Asked(c, l[i]) => l[i] \in ToSet(c.got)

\* GetLatest has counted no fewer entries than there were, and returns the newest ones.
LatestOk(c, l) ==
  c.kind = "latest" =>
    /\ c.at \in {"read", "done"} => c.base <= c.total
    /\ c.at = "done" =>
         /\ c.base > 0 => Len(c.got) > 0 /\ c.got[1].seq >= l[c.base].seq
         /\ \E i \in 0..Len(l) : c.got = First(Reverse(SubSeq(l, 1, i)), Len(c.got))

CallInv ==
  /\ call.kind = "none" <=> call.at = "idle"
  /\ call.base <= Len(log)
  /\ ListOk(call, log)
  /\ LatestOk(call, log)

\* The index ix has the newest record of every key of l.
IndexOk(ix, l) ==
  /\ DOMAIN ix = {r.key : r \in ToSet(l)}
  /\ \A k \in DOMAIN ix :
       /\ [seq |-> ix[k], key |-> k] \in ToSet(l)
       /\ \A r \in ToSet(l) : r.key = k => r.seq <= ix[k]

ReadInv == TypeInv /\ LogInv /\ CallInv /\ IndexOk(index, log)

-----------------------------------------------------------------------------
(* Induction, by the least number for which a claim fails.                 *)

\* A set of numbers that has 0, and n + 1 with n below N, has all up to N.
LEMMA UpTo ==
  ASSUME NEW N \in Nat, NEW T, 0 \in T, \A n \in Nat : n < N /\ n \in T => n + 1 \in T
  PROVE  \A n \in 0..N : n \in T
<1> DEFINE F == {n \in 0..N : n \notin T}
<1> SUFFICES ASSUME F # {} PROVE FALSE
  OBVIOUS
<1>1. F \subseteq Nat
  OBVIOUS
<1>2. PICK m \in F : \A k \in F : ~(<<k, m>> \in OpToRel(<, Nat))
  BY <1>1, NatLessThanWellFounded, WFMin, Zenon
<1>3. m # 0 /\ m \in 0..N /\ m \notin T
  OBVIOUS
<1>4. m - 1 \in Nat /\ m - 1 < N /\ (m - 1) + 1 = m /\ m - 1 \in 0..N
  BY <1>3
<1>5. m - 1 \notin T
  BY <1>3, <1>4
<1>6. m - 1 \in F
  BY <1>4, <1>5
<1>7. <<m - 1, m>> \in OpToRel(<, Nat)
  BY <1>3, <1>4 DEF OpToRel
<1> QED BY <1>2, <1>6, <1>7, Zenon

-----------------------------------------------------------------------------
(* What the iterator collects.                                             *)

\* f has, for every i up to n, what is collected from the first i records.
Collects(f, s, S, n) ==
  f = [i \in 0..n |-> IF i = 0 THEN <<>>
                      ELSE IF s[i] \in S THEN Append(f[i - 1], s[i]) ELSE f[i - 1]]

\* There is such a function.
LEMMA CollectsExists ==
  ASSUME NEW s, NEW S, NEW N \in Nat
  PROVE  \E f : Collects(f, s, S, N)
<1> DEFINE T == {n \in Nat : \E f : Collects(f, s, S, n)}
<1>1. 0 \in T
  <2> DEFINE f == [i \in 0..0 |-> <<>>]
  <2>1. Collects(f, s, S, 0)
    BY DEF Collects
  <2> QED BY <2>1
<1>2. ASSUME NEW n \in Nat, n \in T PROVE n + 1 \in T
  <2>1. PICK f : Collects(f, s, S, n)
    BY <1>2
  <2> DEFINE g == [i \in 0..(n + 1) |->
                     IF i <= n THEN f[i]
                     ELSE IF s[i] \in S THEN Append(f[i - 1], s[i]) ELSE f[i - 1]]
             h == [i \in 0..(n + 1) |->
                     IF i = 0 THEN <<>>
                     ELSE IF s[i] \in S THEN Append(g[i - 1], s[i]) ELSE g[i - 1]]
  <2>2. ASSUME NEW i \in 0..(n + 1) PROVE g[i] = h[i]
    <3>1. CASE i <= n
      <4>1. i \in 0..n /\ g[i] = f[i]
        BY <3>1
      <4>2. f[i] = IF i = 0 THEN <<>>
                   ELSE IF s[i] \in S THEN Append(f[i - 1], s[i]) ELSE f[i - 1]
        BY <2>1, <4>1, Zenon DEF Collects
      <4>3. i # 0 => g[i - 1] = f[i - 1]
        BY <3>1
      <4>4. h[i] = IF i = 0 THEN <<>>
                   ELSE IF s[i] \in S THEN Append(g[i - 1], s[i]) ELSE g[i - 1]
        OBVIOUS
      <4> HIDE DEF g, h
      <4> QED BY <4>1, <4>2, <4>3, <4>4
    <3>2. CASE ~(i <= n)
      <4>1. i # 0 /\ i - 1 \in 0..(n + 1) /\ i - 1 <= n
        BY <3>2
      <4>2. g[i - 1] = f[i - 1]
        BY <4>1
      <4>3. g[i] = IF s[i] \in S THEN Append(f[i - 1], s[i]) ELSE f[i - 1]
        BY <3>2
      <4>4. h[i] = IF s[i] \in S THEN Append(g[i - 1], s[i]) ELSE g[i - 1]
        BY <4>1
      <4> HIDE DEF g, h
      <4> QED BY <4>2, <4>3, <4>4
    <3> QED BY <3>1, <3>2
  <2>3. g = h
    <3>1. g = [i \in 0..(n + 1) |-> g[i]] /\ h = [i \in 0..(n + 1) |-> h[i]]
      OBVIOUS
    <3> HIDE DEF g, h
    <3> QED BY <2>2, <3>1
  <2>4. Collects(g, s, S, n + 1)
    <3> HIDE DEF g
    <3> QED BY <2>3, Zenon DEF Collects
  <2> QED BY <2>4
<1> HIDE DEF T
<1>3. N \in T
  BY <1>1, <1>2, UpTo
<1> QED BY <1>3 DEF T

\* Matching is the last value of such a function.
LEMMA MatchingIs ==
  ASSUME NEW R, NEW s \in Seq(R), NEW S
  PROVE  \E f : Collects(f, s, S, Len(s)) /\ Matching(s, S) = f[Len(s)]
<1> DEFINE f == CHOOSE g : Collects(g, s, S, Len(s))
<1>1. Len(s) \in Nat
  BY LenProperties
<1>2. Collects(f, s, S, Len(s))
  BY <1>1, CollectsExists
<1>3. Matching(s, S) = f[Len(s)]
  BY DEF Matching, Collects
<1> QED BY <1>2, <1>3, Zenon

\* m has the records of S among the first n of s, in increasing order.
Picked(m, s, S, n) ==
  /\ m \in Seq(Record)
  /\ Increasing(m)
  /\ \A j \in 1..Len(m) : m[j] \in S /\ \E i \in 1..n : s[i] = m[j]
  /\ \A i \in 1..n : s[i] \in S => \E j \in 1..Len(m) : m[j] = s[i]

\* One more record, which is collected.
LEMMA PickedMore ==
  ASSUME NEW s \in Seq(Record), Increasing(s), NEW S, NEW n \in Nat, n + 1 \in 1..Len(s),
         NEW m, Picked(m, s, S, n), s[n + 1] \in S
  PROVE  Picked(Append(m, s[n + 1]), s, S, n + 1)
<1> DEFINE x == s[n + 1]
           t == Append(m, x)
<1>1. m \in Seq(Record) /\ x \in Record /\ Len(s) \in Nat
  BY ElementOfSeq, LenProperties DEF Picked
<1>2. /\ t \in Seq(Record) /\ Len(t) = Len(m) + 1 /\ Len(m) \in Nat
      /\ \A i \in 1..Len(m) : t[i] = m[i]
      /\ t[Len(m) + 1] = x
  BY <1>1, AppendProperties
<1> HIDE DEF t
<1>3. ASSUME NEW j \in 1..Len(t) PROVE j \in 1..Len(m) \/ j = Len(m) + 1
  BY <1>2
<1>4. ASSUME NEW j \in 1..Len(m) PROVE j \in 1..Len(t)
  BY <1>2
<1>5. ASSUME NEW j \in 1..Len(m) PROVE t[j].seq < x.seq
  <2>1. PICK i \in 1..n : s[i] = m[j]
    BY DEF Picked
  <2>2. i \in 1..Len(s) /\ i < n + 1
    BY <1>1
  <2>3. s[i].seq < s[n + 1].seq
    BY <2>2 DEF Increasing
  <2> QED BY <1>2, <2>1, <2>3
<1>6. Increasing(t)
  <2>1. ASSUME NEW i \in 1..Len(t), NEW j \in 1..Len(t), i < j PROVE t[i].seq < t[j].seq
    <3>1. i \in 1..Len(m)
      BY <1>2, <2>1
    <3>2. CASE j = Len(m) + 1
      BY <1>2, <1>5, <3>1, <3>2
    <3>3. CASE j \in 1..Len(m)
      <4>1. m[i].seq < m[j].seq
        BY <2>1, <3>1, <3>3 DEF Picked, Increasing
      <4> QED BY <1>2, <3>1, <3>3, <4>1
    <3> QED BY <1>3, <3>2, <3>3
  <2> QED BY <2>1 DEF Increasing
<1>7. ASSUME NEW j \in 1..Len(t) PROVE t[j] \in S /\ \E i \in 1..(n + 1) : s[i] = t[j]
  <2>1. CASE j \in 1..Len(m)
    <3>1. PICK i \in 1..n : s[i] = m[j]
      BY <2>1 DEF Picked
    <3>2. i \in 1..(n + 1) /\ t[j] = m[j] /\ m[j] \in S
      BY <1>2, <2>1 DEF Picked
    <3> QED BY <3>1, <3>2
  <2>2. CASE j = Len(m) + 1
    <3>1. n + 1 \in 1..(n + 1) /\ t[j] = s[n + 1]
      BY <1>2, <2>2
    <3> QED BY <3>1
  <2> QED BY <1>3, <2>1, <2>2
<1>8. ASSUME NEW i \in 1..(n + 1), s[i] \in S PROVE \E j \in 1..Len(t) : t[j] = s[i]
  <2>1. CASE i = n + 1
    <3>1. Len(m) + 1 \in 1..Len(t)
      BY <1>2
    <3> QED BY <1>2, <2>1, <3>1
  <2>2. CASE i # n + 1
    <3>1. i \in 1..n
      BY <2>2
    <3>2. PICK j \in 1..Len(m) : m[j] = s[i]
      BY <1>8, <3>1 DEF Picked
    <3> QED BY <1>2, <1>4, <3>2
  <2> QED BY <2>1, <2>2
<1>9. Picked(t, s, S, n + 1)
  BY <1>2, <1>6, <1>7, <1>8 DEF Picked
<1> QED BY <1>9 DEF t

\* One more record, which is passed over.
LEMMA PickedSame ==
  ASSUME NEW s, NEW S, NEW n \in Nat, NEW m, Picked(m, s, S, n), s[n + 1] \notin S
  PROVE  Picked(m, s, S, n + 1)
<1>1. \A i \in 1..n : i \in 1..(n + 1)
  OBVIOUS
<1>2. ASSUME NEW i \in 1..(n + 1) PROVE i \in 1..n \/ i = n + 1
  OBVIOUS
<1>3. \A j \in 1..Len(m) : m[j] \in S /\ \E i \in 1..(n + 1) : s[i] = m[j]
  BY <1>1 DEF Picked
<1>4. \A i \in 1..(n + 1) : s[i] \in S => \E j \in 1..Len(m) : m[j] = s[i]
  BY <1>2 DEF Picked
<1> QED BY <1>3, <1>4 DEF Picked

\* The iterator over records in increasing order finds exactly those of S.
LEMMA MatchingPicks ==
  ASSUME NEW s \in Seq(Record), Increasing(s), NEW S
  PROVE  Picked(Matching(s, S), s, S, Len(s))
<1>1. PICK f : Collects(f, s, S, Len(s)) /\ Matching(s, S) = f[Len(s)]
  BY MatchingIs
<1>2. Len(s) \in Nat
  BY LenProperties
<1> DEFINE T == {n \in 0..Len(s) : Picked(f[n], s, S, n)}
<1>3. 0 \in T
  <2>1. f[0] = <<>> /\ 0 \in 0..Len(s)
    BY <1>1, <1>2 DEF Collects
  <2>2. <<>> \in Seq(Record) /\ Len(<<>>) = 0
    BY EmptySeq
  <2>3. Picked(<<>>, s, S, 0)
    BY <2>2 DEF Picked, Increasing
  <2> QED BY <2>1, <2>3
<1>4. ASSUME NEW n \in Nat, n < Len(s), n \in T PROVE n + 1 \in T
  <2>1. n + 1 \in 1..Len(s) /\ n + 1 \in 0..Len(s) /\ (n + 1) - 1 = n /\ n + 1 # 0
    BY <1>2, <1>4
  <2>2. f[n + 1] = IF s[n + 1] \in S THEN Append(f[n], s[n + 1]) ELSE f[n]
    BY <1>1, <2>1, Zenon DEF Collects
  <2>3. Picked(f[n], s, S, n)
    BY <1>4
  <2>4. Picked(f[n + 1], s, S, n + 1)
    <3>1. CASE s[n + 1] \in S
      BY <2>1, <2>2, <2>3, <3>1, PickedMore
    <3>2. CASE s[n + 1] \notin S
      BY <2>2, <2>3, <3>2, PickedSame
    <3> QED BY <3>1, <3>2
  <2> QED BY <2>1, <2>4
<1> HIDE DEF T
<1>5. \A n \in 0..Len(s) : n \in T
  BY <1>2, <1>3, <1>4, UpTo, Zenon
<1>6. Len(s) \in 0..Len(s)
  BY <1>2
<1> QED BY <1>1, <1>5, <1>6 DEF T

-----------------------------------------------------------------------------
(* What a page has.                                                        *)

\* The first n records of s.
LEMMA FirstIs ==
  ASSUME NEW R, NEW s \in Seq(R), NEW n \in Nat
  PROVE  /\ First(s, n) \in Seq(R)
         /\ Len(First(s, n)) = IF n < Len(s) THEN n ELSE Len(s)
         /\ \A i \in 1..Len(First(s, n)) : First(s, n)[i] = s[i]
<1> DEFINE k == IF n < Len(s) THEN n ELSE Len(s)
<1>1. Len(s) \in Nat /\ k \in Nat /\ k <= Len(s)
  BY LenProperties
<1>2. First(s, n) = SubSeq(s, 1, k)
  BY DEF First
<1> HIDE DEF k
<1>3. \A i \in 1..k : i \in 1..Len(s)
  BY <1>1
<1>4. \A i \in 1..k : s[i] \in R
  BY <1>3, ElementOfSeq
<1>5. SubSeq(s, 1, k) = [i \in 1..k |-> s[i]]
  BY <1>1
<1>6. [i \in 1..k |-> s[i]] \in Seq(R) /\ Len([i \in 1..k |-> s[i]]) = k
  BY <1>1, <1>4
<1>7. First(s, n) \in Seq(R) /\ Len(First(s, n)) = k /\ \A i \in 1..k : First(s, n)[i] = s[i]
  BY <1>2, <1>5, <1>6, Zenon
<1> QED BY <1>7 DEF k

\* The page g of at most limit records has stored records of S in order, none left out
\* between two of them, and all when it is not full.
Pages(g, S, limit) ==
  /\ g \in Seq(Record)
  /\ Increasing(g)
  /\ \A i \in 1..Len(g) : g[i] \in S /\ g[i] \in Stored
  /\ \A r \in Stored : r \in S /\ Len(g) > 0 /\ r.seq <= g[Len(g)].seq => r \in ToSet(g)
  /\ \A r \in Stored : r \in S /\ Len(g) < limit => r \in ToSet(g)

\* The first records found by the iterator are a page.
LEMMA FirstPages ==
  ASSUME log \in Seq(Record), Increasing(log), NEW S, NEW limit \in Nat
  PROVE  Pages(First(Matching(log, S), limit), S, limit)
<1> DEFINE m == Matching(log, S)
           g == First(m, limit)
<1>1. Picked(m, log, S, Len(log))
  BY MatchingPicks
<1> HIDE DEF m
<1>2. m \in Seq(Record) /\ Increasing(m) /\ Len(m) \in Nat /\ Len(log) \in Nat
  BY <1>1, LenProperties DEF Picked
<1>3. /\ g \in Seq(Record) /\ Len(g) = IF limit < Len(m) THEN limit ELSE Len(m)
      /\ \A i \in 1..Len(g) : g[i] = m[i]
  BY <1>2, FirstIs
<1> HIDE DEF g
<1>4. Len(g) \in Nat /\ Len(g) <= Len(m) /\ (Len(g) < limit => Len(g) = Len(m))
  BY <1>2, <1>3
<1>5. \A i \in 1..Len(g) : i \in 1..Len(m)
  BY <1>2, <1>4
<1>6. Increasing(g)
  BY <1>2, <1>3, <1>5 DEF Increasing
<1>7. DOMAIN log = 1..Len(log) /\ DOMAIN g = 1..Len(g)
  BY <1>3, LenProperties
<1>8. ASSUME NEW i \in 1..Len(g) PROVE g[i] \in S /\ g[i] \in Stored
  BY <1>1, <1>3, <1>5, <1>7, Zenon DEF Picked, Stored, ToSet
<1>9. ASSUME NEW r \in Stored, r \in S PROVE \E j \in 1..Len(m) : m[j] = r
  <2>1. PICK i \in 1..Len(log) : log[i] = r
    BY <1>7 DEF Stored, ToSet
  <2> QED BY <1>1, <1>9, <2>1, Zenon DEF Picked
<1>10. ASSUME NEW r \in Stored, r \in S, Len(g) > 0, r.seq <= g[Len(g)].seq
       PROVE  r \in ToSet(g)
  <2>1. PICK j \in 1..Len(m) : m[j] = r
    BY <1>9, <1>10
  <2>2. Len(g) \in 1..Len(g) /\ Len(g) \in 1..Len(m)
    BY <1>2, <1>4, <1>10
  <2>3. g[Len(g)] = m[Len(g)]
    BY <1>3, <2>2
  <2>4. ~(Len(g) < j)
    <3> SUFFICES ASSUME Len(g) < j PROVE FALSE
      OBVIOUS
    <3>1. m[Len(g)].seq < m[j].seq
      BY <1>2, <2>2 DEF Increasing
    <3>2. m[Len(g)] \in Record /\ m[j] \in Record
      BY <1>2, <2>2, ElementOfSeq
    <3>3. m[Len(g)].seq \in Nat /\ m[j].seq \in Nat
      BY <3>2 DEF Record
    <3> QED BY <1>10, <2>1, <2>3, <3>1, <3>3
  <2>5. j \in 1..Len(g)
    BY <1>2, <1>4, <2>4
  <2> QED BY <1>3, <1>7, <2>1, <2>5 DEF ToSet
<1>11. ASSUME NEW r \in Stored, r \in S, Len(g) < limit PROVE r \in ToSet(g)
  <2>1. PICK j \in 1..Len(m) : m[j] = r
    BY <1>9, <1>11
  <2>2. j \in 1..Len(g) /\ g[j] = r
    BY <1>3, <1>4, <1>11, <2>1
  <2> QED BY <1>7, <2>2 DEF ToSet
<1>12. Pages(g, S, limit)
  BY <1>3, <1>6, <1>8, <1>10, <1>11 DEF Pages
<1> QED BY <1>12 DEF g, m

\* The page and its cursor.
LEMMA PageIs ==
  ASSUME log \in Seq(Record), Increasing(log), NEW S, NEW to \in Nat, NEW limit \in Nat \ {0},
         NEW p, p = Page(Matching(log, S), to, limit)
  PROVE  /\ Pages(p.entries, S, limit)
         /\ p.next \in Nat
         /\ p.next # 0 => Len(p.entries) > 0 /\ p.next = p.entries[Len(p.entries)].seq + 1
         /\ p.next = 0 => \/ Len(p.entries) < limit
                          \/ /\ Len(p.entries) > 0 /\ to # 0
                             /\ p.entries[Len(p.entries)].seq + 1 >= to
<1> DEFINE g == First(Matching(log, S), limit)
           next == g[Len(g)].seq + 1
<1>1. Pages(g, S, limit)
  BY FirstPages
<1>2. /\ p.entries = g
      /\ p.next = IF Len(g) >= limit /\ (to = 0 \/ next < to) THEN next ELSE 0
  BY DEF Page, Last
<1> HIDE DEF g
<1>3. g \in Seq(Record) /\ Len(g) \in Nat
  BY <1>1, LenProperties DEF Pages
<1>4. Len(g) > 0 => next \in Nat /\ next # 0
  <2> SUFFICES ASSUME Len(g) > 0 PROVE next \in Nat /\ next # 0
    OBVIOUS
  <2>1. g[Len(g)] \in Record
    BY <1>3, ElementOfSeq
  <2>2. g[Len(g)].seq \in Nat
    BY <2>1 DEF Record
  <2> QED BY <2>2
<1> HIDE DEF next
<1>5. Len(g) >= limit => Len(g) > 0
  BY <1>3
<1>6. p.next \in Nat /\ (p.next # 0 => Len(g) > 0 /\ p.next = next)
  BY <1>2, <1>4, <1>5
<1>7. p.next = 0 => Len(g) < limit \/ (Len(g) > 0 /\ to # 0 /\ next >= to)
  BY <1>2, <1>3, <1>4, <1>5
<1> QED BY <1>1, <1>2, <1>6, <1>7 DEF next

-----------------------------------------------------------------------------
(* The log grows.                                                          *)

\* k is l with newer records after it.
Extends(l, k) ==
  /\ Len(l) <= Len(k)
  /\ \A i \in 1..Len(l) : k[i] = l[i]
  /\ \A i \in 1..Len(l), j \in 1..Len(k) : Len(l) < j => l[i].seq < k[j].seq

\* Membership by index.
LEMMA InSet ==
  ASSUME NEW R, NEW s \in Seq(R)
  PROVE  /\ Len(s) \in Nat
         /\ \A i \in 1..Len(s) : s[i] \in ToSet(s) /\ s[i] \in R
         /\ \A x \in ToSet(s) : \E i \in 1..Len(s) : s[i] = x
<1>1. Len(s) \in Nat /\ DOMAIN s = 1..Len(s) /\ \A i \in 1..Len(s) : s[i] \in R
  BY LenProperties, ElementOfSeq
<1> QED BY <1>1 DEF ToSet

\* What a listing has received stays right when the log grows.
LEMMA ListGrows ==
  ASSUME NEW l \in Seq(Record), NEW k \in Seq(Record), Extends(l, k),
         NEW c \in Call, c.base <= Len(l), ListOk(c, l)
  PROVE  ListOk(c, k)
<1> SUFFICES ASSUME c.kind \in {"list", "key"} PROVE ListOk(c, k)
  BY DEF ListOk
<1> DEFINE g == c.got
<1>1. g \in Seq(Record) /\ Len(g) \in Nat /\ Len(l) \in Nat /\ Len(k) \in Nat /\ c.base \in Nat
  BY LenProperties DEF Call
<1>2. Listed(g, c, ToSet(l))
  BY DEF ListOk
<1> HIDE DEF g
<1>3. \A i \in 1..Len(l) : i \in 1..Len(k) /\ k[i] = l[i]
  BY <1>1 DEF Extends
<1>4. ASSUME NEW r \in ToSet(l) PROVE r \in ToSet(k)
  <2>1. PICK i \in 1..Len(l) : l[i] = r
    BY InSet
  <2> QED BY <1>3, <2>1, InSet
<1>5. ASSUME NEW r \in ToSet(k), r \notin ToSet(l), NEW x \in ToSet(l) PROVE ~(r.seq <= x.seq)
  <2>1. PICK j \in 1..Len(k) : k[j] = r
    BY InSet
  <2>2. PICK i \in 1..Len(l) : l[i] = x
    BY InSet
  <2>3. Len(l) < j
    <3> SUFFICES ASSUME ~(Len(l) < j) PROVE FALSE
      OBVIOUS
    <3>1. j \in 1..Len(l)
      BY <1>1
    <3> QED BY <1>3, <1>5, <2>1, <3>1, InSet
  <2>4. x.seq < r.seq
    BY <2>1, <2>2, <2>3 DEF Extends
  <2>5. x \in Record /\ r \in Record
    BY <2>1, <2>2, InSet
  <2>6. x.seq \in Nat /\ r.seq \in Nat
    BY <2>5 DEF Record
  <2> QED BY <2>4, <2>6
<1>6. Listed(g, c, ToSet(k))
  <2>1. Increasing(g) /\ \A i \in 1..Len(g) : g[i] \in ToSet(k) /\ Asked(c, g[i])
    BY <1>2, <1>4 DEF Listed
  <2>2. ASSUME Len(g) > 0, NEW r \in ToSet(k), Asked(c, r), r.seq <= g[Len(g)].seq
        PROVE  r \in ToSet(g)
    <3>1. Len(g) \in 1..Len(g)
      BY <1>1, <2>2
    <3>2. g[Len(g)] \in ToSet(l)
      BY <1>2, <3>1 DEF Listed
    <3>3. r \in ToSet(l)
      BY <1>5, <2>2, <3>2
    <3> QED BY <1>2, <2>2, <3>3 DEF Listed
  <2> QED BY <2>1, <2>2 DEF Listed
<1>7. ASSUME c.at = "done", NEW i \in 1..c.base, Asked(c, k[i]) PROVE k[i] \in ToSet(g)
  <2>1. i \in 1..Len(l)
    BY <1>1
  <2>2. k[i] = l[i]
    BY <1>3, <2>1
  <2> QED BY <1>7, <2>2 DEF ListOk, g
<1> QED BY <1>6, <1>7 DEF ListOk, g

\* So does the answer of GetLatest.
LEMMA LatestGrows ==
  ASSUME NEW l \in Seq(Record), NEW k \in Seq(Record), Extends(l, k),
         NEW c \in Call, c.base <= Len(l), LatestOk(c, l)
  PROVE  LatestOk(c, k)
<1> SUFFICES ASSUME c.kind = "latest", c.at = "done" PROVE LatestOk(c, k)
  BY DEF LatestOk
<1>1. Len(l) \in Nat /\ Len(k) \in Nat /\ c.base \in Nat
  BY LenProperties DEF Call
<1>2. c.base <= c.total
  BY DEF LatestOk
<1>3. c.base > 0 => Len(c.got) > 0 /\ c.got[1].seq >= k[c.base].seq
  <2> SUFFICES ASSUME c.base > 0 PROVE Len(c.got) > 0 /\ c.got[1].seq >= k[c.base].seq
    OBVIOUS
  <2>1. c.base \in 1..Len(l)
    BY <1>1
  <2>2. k[c.base] = l[c.base]
    BY <2>1 DEF Extends
  <2> QED BY <2>2 DEF LatestOk
<1>4. PICK i \in 0..Len(l) : c.got = First(Reverse(SubSeq(l, 1, i)), Len(c.got))
  BY DEF LatestOk
<1>5. i \in 0..Len(k) /\ i <= Len(l)
  BY <1>1 DEF Extends
<1>6. SubSeq(k, 1, i) = SubSeq(l, 1, i)
  <2>1. SubSeq(k, 1, i) = [j \in 1..i |-> k[j]] /\ SubSeq(l, 1, i) = [j \in 1..i |-> l[j]]
    BY <1>1, <1>5
  <2>2. \A j \in 1..i : k[j] = l[j]
    BY <1>1, <1>5 DEF Extends
  <2> QED BY <2>1, <2>2
<1> QED BY <1>2, <1>3, <1>4, <1>5, <1>6, Zenon DEF LatestOk

\* The records of a request continue the log.
LEMMA CommitLog ==
  ASSUME TypeInv, LogInv, NEW k, k = log \o Reserved
  PROVE  /\ Reserved \in Seq(Record) /\ Len(Reserved) = Len(pending) /\ Increasing(Reserved)
         /\ k \in Seq(Record) /\ Len(k) = Len(log) + Len(pending) /\ Increasing(k)
         /\ \A i \in 1..Len(k) : i - 1 <= k[i].seq /\ k[i].seq < nextSeq
         /\ Extends(log, k)
         /\ ToSet(k) = ToSet(log) \cup ToSet(Reserved)
         /\ \A x \in ToSet(log), y \in ToSet(Reserved) : x.seq < y.seq
<1> DEFINE rs == Reserved
           first == nextSeq - Len(pending)
<1>1. /\ Len(pending) \in Nat /\ Len(log) \in Nat /\ nextSeq \in Nat
      /\ Len(log) + Len(pending) <= nextSeq
      /\ \A i \in 1..Len(pending) : pending[i] \in Keys
  BY LenProperties, ElementOfSeq DEF TypeInv, LogInv
<1>2. first \in Nat /\ first >= Len(log) /\ first + Len(pending) = nextSeq
  BY <1>1
<1>3. rs = [i \in 1..Len(pending) |-> [seq |-> first + i - 1, key |-> pending[i]]]
  BY DEF Reserved
<1> HIDE DEF rs, first
<1>4. ASSUME NEW i \in 1..Len(pending)
      PROVE  rs[i] \in Record /\ rs[i].seq = first + i - 1
  <2>1. first + i - 1 \in Nat /\ pending[i] \in Keys
    BY <1>1, <1>2
  <2>2. rs[i] = [seq |-> first + i - 1, key |-> pending[i]]
    BY <1>3
  <2> QED BY <2>1, <2>2 DEF Record
<1>5. rs \in Seq(Record) /\ Len(rs) = Len(pending)
  <2>1. rs \in [1..Len(pending) -> Record]
    BY <1>3, <1>4
  <2> QED BY <1>1, <2>1
<1>6. Increasing(rs)
  <2>1. ASSUME NEW i \in 1..Len(rs), NEW j \in 1..Len(rs), i < j PROVE rs[i].seq < rs[j].seq
    <3>1. rs[i].seq = first + i - 1 /\ rs[j].seq = first + j - 1
      BY <1>4, <1>5
    <3> QED BY <1>1, <1>2, <1>5, <2>1, <3>1
  <2> QED BY <2>1 DEF Increasing
<1>7. log \in Seq(Record) /\ Increasing(log)
  BY DEF TypeInv, LogInv
<1>8. k = log \o rs
  BY DEF rs
<1>9. /\ k \in Seq(Record) /\ Len(k) = Len(log) + Len(pending)
      /\ \A i \in 1..(Len(log) + Len(rs)) : k[i] = IF i <= Len(log) THEN log[i] ELSE rs[i - Len(log)]
  <2>1. /\ log \o rs \in Seq(Record) /\ Len(log \o rs) = Len(log) + Len(rs)
        /\ \A i \in 1..(Len(log) + Len(rs)) :
             (log \o rs)[i] = IF i <= Len(log) THEN log[i] ELSE rs[i - Len(log)]
    BY <1>5, <1>7, ConcatProperties, Zenon
  <2> QED BY <1>5, <1>8, <2>1, Zenon
<1>10. ASSUME NEW i \in 1..Len(log)
       PROVE  /\ i \in 1..Len(k) /\ k[i] = log[i] /\ k[i].seq \in Nat
              /\ i - 1 <= k[i].seq /\ k[i].seq < first
  <2>1. i \in 1..Len(k) /\ k[i] = log[i]
    BY <1>1, <1>5, <1>9
  <2>2. log[i] \in Record
    BY <1>7, ElementOfSeq
  <2>3. i - 1 <= log[i].seq /\ log[i].seq < first
    BY DEF LogInv, first
  <2>4. log[i].seq \in Nat
    BY <2>2 DEF Record
  <2> QED BY <2>1, <2>3, <2>4
<1>11. ASSUME NEW i \in 1..Len(k), Len(log) < i
       PROVE  \E j \in 1..Len(rs) : i = Len(log) + j /\ k[i] = rs[j] /\ rs[j].seq = first + j - 1
  <2>1. i - Len(log) \in 1..Len(rs) /\ i = Len(log) + (i - Len(log)) /\ ~(i <= Len(log))
    BY <1>1, <1>5, <1>9, <1>11
  <2>2. k[i] = rs[i - Len(log)]
    BY <1>5, <1>9, <2>1
  <2>3. rs[i - Len(log)].seq = first + (i - Len(log)) - 1
    BY <1>4, <1>5, <2>1
  <2> QED BY <2>1, <2>2, <2>3
<1>12. ASSUME NEW i \in 1..Len(k) PROVE i \in 1..Len(log) \/ Len(log) < i
  BY <1>1, <1>9
<1>13. Increasing(k)
  <2>1. ASSUME NEW i \in 1..Len(k), NEW j \in 1..Len(k), i < j PROVE k[i].seq < k[j].seq
    <3>1. CASE j \in 1..Len(log)
      <4>1. i \in 1..Len(log)
        BY <1>1, <2>1, <3>1
      <4>2. log[i].seq < log[j].seq
        BY <1>7, <2>1, <3>1, <4>1 DEF Increasing
      <4> QED BY <1>10, <3>1, <4>1, <4>2
    <3>2. CASE Len(log) < j
      <4>1. PICK b \in 1..Len(rs) : j = Len(log) + b /\ k[j] = rs[b] /\ rs[b].seq = first + b - 1
        BY <1>11, <3>2
      <4>2. CASE i \in 1..Len(log)
        <5>1. k[i].seq < first /\ k[i].seq \in Nat
          BY <1>10, <4>2
        <5> QED BY <1>2, <1>5, <4>1, <5>1
      <4>3. CASE Len(log) < i
        <5>1. PICK a \in 1..Len(rs) : i = Len(log) + a /\ k[i] = rs[a] /\ rs[a].seq = first + a - 1
          BY <1>11, <4>3, Zenon
        <5> QED BY <1>1, <1>2, <1>5, <2>1, <4>1, <5>1
      <4> QED BY <1>12, <4>2, <4>3
    <3> QED BY <1>12, <3>1, <3>2
  <2> QED BY <2>1 DEF Increasing
<1>14. ASSUME NEW i \in 1..Len(k) PROVE i - 1 <= k[i].seq /\ k[i].seq < nextSeq
  <2>1. CASE i \in 1..Len(log)
    BY <1>1, <1>2, <1>10, <2>1
  <2>2. CASE Len(log) < i
    <3>1. PICK b \in 1..Len(rs) : i = Len(log) + b /\ k[i] = rs[b] /\ rs[b].seq = first + b - 1
      BY <1>11, <2>2, Zenon
    <3> QED BY <1>1, <1>2, <1>5, <3>1
  <2> QED BY <1>12, <2>1, <2>2
<1>15. ASSUME NEW x \in ToSet(log), NEW y \in ToSet(rs) PROVE x.seq < y.seq
  <2>1. PICK i \in 1..Len(log) : log[i] = x
    BY <1>7, InSet
  <2>2. PICK j \in 1..Len(rs) : rs[j] = y
    BY <1>5, InSet
  <2>3. x.seq < first /\ x.seq \in Nat
    BY <1>10, <2>1
  <2>4. y.seq = first + j - 1
    BY <1>4, <1>5, <2>2
  <2> QED BY <1>1, <1>2, <1>5, <2>3, <2>4
<1>16. Extends(log, k)
  <2>1. Len(log) <= Len(k)
    BY <1>1, <1>9
  <2>2. ASSUME NEW i \in 1..Len(log), NEW j \in 1..Len(k), Len(log) < j PROVE log[i].seq < k[j].seq
    <3>1. PICK b \in 1..Len(rs) : k[j] = rs[b]
      BY <1>11, <2>2, Zenon
    <3>2. log[i] \in ToSet(log) /\ rs[b] \in ToSet(rs)
      BY <1>5, <1>7, InSet
    <3> QED BY <1>15, <3>1, <3>2
  <2> QED BY <1>10, <2>1, <2>2 DEF Extends
<1>17. ToSet(k) = ToSet(log) \cup ToSet(rs)
  <2>1. ASSUME NEW x \in ToSet(k) PROVE x \in ToSet(log) \cup ToSet(rs)
    <3>1. PICK i \in 1..Len(k) : k[i] = x
      BY <1>9, InSet, Zenon
    <3>2. CASE i \in 1..Len(log)
      BY <1>7, <1>10, <3>1, <3>2, InSet
    <3>3. CASE Len(log) < i
      <4>1. PICK b \in 1..Len(rs) : k[i] = rs[b]
        BY <1>11, <3>3
      <4> QED BY <1>5, <3>1, <4>1, InSet
    <3> QED BY <1>12, <3>2, <3>3
  <2>2. ASSUME NEW x \in ToSet(log) PROVE x \in ToSet(k)
    <3>1. PICK i \in 1..Len(log) : log[i] = x
      BY <1>7, InSet
    <3> QED BY <1>9, <1>10, <3>1, InSet, Zenon
  <2>3. ASSUME NEW x \in ToSet(rs) PROVE x \in ToSet(k)
    <3>1. PICK j \in 1..Len(rs) : rs[j] = x
      BY <1>5, InSet
    <3>2. Len(log) + j \in 1..Len(k) /\ Len(log) + j \in 1..(Len(log) + Len(rs))
          /\ ~(Len(log) + j <= Len(log)) /\ (Len(log) + j) - Len(log) = j
      BY <1>1, <1>5, <1>9
    <3>3. k[Len(log) + j] = rs[j]
      BY <1>9, <3>2, Zenon
    <3> QED BY <1>9, <3>1, <3>2, <3>3, InSet, Zenon
  <2> QED BY <2>1, <2>2, <2>3
<1> QED BY <1>5, <1>6, <1>9, <1>13, <1>14, <1>15, <1>16, <1>17 DEF rs

\* Newer records rs make the index that of the longer log: the last one of a key wins.
LEMMA IndexGrows ==
  ASSUME NEW l \in Seq(Record), NEW rs \in Seq(Record), NEW k, NEW ix, IndexOk(ix, l),
         Increasing(rs), ToSet(k) = ToSet(l) \cup ToSet(rs),
         \A x \in ToSet(l), y \in ToSet(rs) : x.seq < y.seq
  PROVE  IndexOk(Indexed(ix, rs), k)
<1> DEFINE Of(q) == Matching(rs, {r \in ToSet(rs) : r.key = q})
           batch == {r.key : r \in ToSet(rs)}
           iy == Indexed(ix, rs)
<1>1. iy = [q \in DOMAIN ix \cup batch |-> IF q \in batch THEN Last(Of(q)).seq ELSE ix[q]]
  BY DEF Indexed
<1>2. ASSUME NEW x \in ToSet(l) \cup ToSet(rs) PROVE x \in Record /\ x.seq \in Nat
  <2>1. x \in Record
    <3>1. CASE x \in ToSet(l)
      BY <3>1, InSet
    <3>2. CASE x \in ToSet(rs)
      BY <3>2, InSet
    <3> QED BY <3>1, <3>2
  <2> QED BY <2>1 DEF Record
<1>3. DOMAIN ix = {r.key : r \in ToSet(l)}
  BY DEF IndexOk
<1>4. DOMAIN iy = {r.key : r \in ToSet(k)}
  <2>1. DOMAIN iy = DOMAIN ix \cup batch
    BY <1>1
  <2> HIDE DEF iy
  <2> QED BY <1>3, <2>1
<1> HIDE DEF iy
<1>5. ASSUME NEW q \in batch
      PROVE  \E m \in ToSet(rs) : /\ m.key = q /\ iy[q] = m.seq
                                  /\ \A r \in ToSet(rs) : r.key = q => r.seq <= m.seq
  <2> DEFINE S == {r \in ToSet(rs) : r.key = q}
             f == Matching(rs, S)
  <2>1. Picked(f, rs, S, Len(rs))
    BY MatchingPicks
  <2>2. iy[q] = Last(f).seq
    BY <1>1
  <2> HIDE DEF f
  <2>3. f \in Seq(Record) /\ Increasing(f) /\ Len(f) \in Nat
    BY <2>1, LenProperties DEF Picked
  <2>4. ASSUME NEW r \in S PROVE \E j \in 1..Len(f) : f[j] = r
    <3>1. PICK i \in 1..Len(rs) : rs[i] = r
      BY InSet
    <3> HIDE DEF S
    <3> QED BY <2>1, <2>4, <3>1, Zenon DEF Picked
  <2>5. PICK r \in S : TRUE
    OBVIOUS
  <2>6. Len(f) \in 1..Len(f)
    <3>1. PICK j \in 1..Len(f) : f[j] = r
      BY <2>4
    <3> QED BY <2>3, <3>1
  <2>7. f[Len(f)] \in S
    <3> HIDE DEF S
    <3> QED BY <2>1, <2>6 DEF Picked
  <2>8. ASSUME NEW x \in ToSet(rs), x.key = q PROVE x.seq <= f[Len(f)].seq
    <3>1. PICK j \in 1..Len(f) : f[j] = x
      BY <2>4, <2>8
    <3>2. j = Len(f) \/ j < Len(f)
      BY <2>3, <3>1
    <3>3. x.seq = f[Len(f)].seq \/ x.seq < f[Len(f)].seq
      BY <2>3, <2>6, <3>1, <3>2 DEF Increasing
    <3>4. x.seq \in Nat /\ f[Len(f)].seq \in Nat
      BY <1>2, <2>7
    <3> QED BY <3>3, <3>4
  <2>9. iy[q] = f[Len(f)].seq
    BY <2>2 DEF Last
  <2> QED BY <2>7, <2>8, <2>9
<1>6. ASSUME NEW q \in DOMAIN iy
      PROVE  /\ [seq |-> iy[q], key |-> q] \in ToSet(k)
             /\ \A r \in ToSet(k) : r.key = q => r.seq <= iy[q]
  <2>1. CASE q \in batch
    <3>1. PICK m \in ToSet(rs) : /\ m.key = q /\ iy[q] = m.seq
                                 /\ \A r \in ToSet(rs) : r.key = q => r.seq <= m.seq
      BY <1>5, <2>1
    <3>2. m \in Record
      BY <1>2
    <3>3. m = [seq |-> iy[q], key |-> q]
      BY <3>1, <3>2 DEF Record
    <3>4. ASSUME NEW r \in ToSet(k), r.key = q PROVE r.seq <= iy[q]
      <4>1. CASE r \in ToSet(rs)
        BY <3>1, <3>4, <4>1
      <4>2. CASE r \in ToSet(l)
        <5>1. r.seq < m.seq /\ r.seq \in Nat /\ m.seq \in Nat
          BY <1>2, <4>2
        <5> QED BY <3>1, <5>1
      <4> QED BY <4>1, <4>2
    <3> QED BY <3>3, <3>4
  <2>2. CASE q \notin batch
    <3>1. q \in DOMAIN ix /\ iy[q] = ix[q]
      <4>1. DOMAIN iy = DOMAIN ix \cup batch
        BY <1>1
      <4> QED BY <1>1, <2>2, <4>1
    <3>2. [seq |-> ix[q], key |-> q] \in ToSet(l) /\ \A r \in ToSet(l) : r.key = q => r.seq <= ix[q]
      BY <3>1 DEF IndexOk
    <3>3. \A r \in ToSet(rs) : r.key # q
      BY <2>2
    <3> QED BY <3>1, <3>2, <3>3
  <2> QED BY <2>1, <2>2
<1>7. IndexOk(iy, k)
  BY <1>4, <1>6 DEF IndexOk
<1> QED BY <1>7 DEF iy

-----------------------------------------------------------------------------
(* A page is received.                                                     *)

\* The entries g and the page e after them.
LEMMA JoinPage ==
  ASSUME NEW g \in Seq(Record), NEW e \in Seq(Record), Increasing(g), Increasing(e),
         \A i \in 1..Len(g), j \in 1..Len(e) : g[i].seq < e[j].seq
  PROVE  /\ g \o e \in Seq(Record) /\ Increasing(g \o e) /\ Len(g \o e) = Len(g) + Len(e)
         /\ ToSet(g \o e) = ToSet(g) \cup ToSet(e)
         /\ Len(e) > 0 => (g \o e)[Len(g \o e)] = e[Len(e)]
<1> DEFINE u == g \o e
<1>1. Len(g) \in Nat /\ Len(e) \in Nat
  BY LenProperties
<1>2. /\ u \in Seq(Record) /\ Len(u) = Len(g) + Len(e)
      /\ \A i \in 1..(Len(g) + Len(e)) : u[i] = IF i <= Len(g) THEN g[i] ELSE e[i - Len(g)]
  BY ConcatProperties, Zenon
<1> HIDE DEF u
<1>3. ASSUME NEW i \in 1..Len(g) PROVE i \in 1..Len(u) /\ u[i] = g[i]
  BY <1>1, <1>2
<1>4. ASSUME NEW j \in 1..Len(e) PROVE Len(g) + j \in 1..Len(u) /\ u[Len(g) + j] = e[j]
  <2>1. /\ Len(g) + j \in 1..Len(u) /\ Len(g) + j \in 1..(Len(g) + Len(e))
        /\ ~(Len(g) + j <= Len(g)) /\ (Len(g) + j) - Len(g) = j
    BY <1>1, <1>2
  <2> QED BY <1>2, <2>1
<1>5. ASSUME NEW i \in 1..Len(u)
      PROVE  i \in 1..Len(g) \/ \E j \in 1..Len(e) : i = Len(g) + j
  <2>1. ~(i <= Len(g)) => i - Len(g) \in 1..Len(e) /\ i = Len(g) + (i - Len(g))
    BY <1>1, <1>2
  <2>2. i <= Len(g) => i \in 1..Len(g)
    BY <1>1
  <2> QED BY <2>1, <2>2, Zenon
<1>6. Increasing(u)
  <2>1. ASSUME NEW i \in 1..Len(u), NEW j \in 1..Len(u), i < j PROVE u[i].seq < u[j].seq
    <3>1. CASE j \in 1..Len(g)
      <4>1. i \in 1..Len(g)
        BY <1>1, <2>1, <3>1
      <4> QED BY <1>3, <2>1, <3>1, <4>1 DEF Increasing
    <3>2. ASSUME NEW b \in 1..Len(e), j = Len(g) + b PROVE u[i].seq < u[j].seq
      <4>1. CASE i \in 1..Len(g)
        BY <1>3, <1>4, <3>2, <4>1, Zenon
      <4>2. ASSUME NEW a \in 1..Len(e), i = Len(g) + a PROVE u[i].seq < u[j].seq
        <5>1. a < b
          BY <1>1, <2>1, <3>2, <4>2
        <5>2. e[a].seq < e[b].seq
          BY <5>1 DEF Increasing
        <5> QED BY <1>4, <3>2, <4>2, <5>2
      <4> QED BY <1>5, <4>1, <4>2
    <3> QED BY <1>5, <3>1, <3>2
  <2> QED BY <2>1 DEF Increasing
<1>7. ToSet(u) = ToSet(g) \cup ToSet(e)
  <2>1. ASSUME NEW x \in ToSet(u) PROVE x \in ToSet(g) \cup ToSet(e)
    <3>1. PICK i \in 1..Len(u) : u[i] = x
      BY <1>2, InSet
    <3>2. CASE i \in 1..Len(g)
      BY <1>3, <3>1, <3>2, InSet
    <3>3. ASSUME NEW j \in 1..Len(e), i = Len(g) + j PROVE x \in ToSet(e)
      BY <1>4, <3>1, <3>3, InSet
    <3> QED BY <1>5, <3>2, <3>3
  <2>2. ASSUME NEW x \in ToSet(g) PROVE x \in ToSet(u)
    <3>1. PICK i \in 1..Len(g) : g[i] = x
      BY InSet
    <3> QED BY <1>2, <1>3, <3>1, InSet
  <2>3. ASSUME NEW x \in ToSet(e) PROVE x \in ToSet(u)
    <3>1. PICK j \in 1..Len(e) : e[j] = x
      BY InSet
    <3> QED BY <1>2, <1>4, <3>1, InSet
  <2> QED BY <2>1, <2>2, <2>3
<1>8. Len(e) > 0 => u[Len(u)] = e[Len(e)]
  <2> SUFFICES ASSUME Len(e) > 0 PROVE u[Len(u)] = e[Len(e)]
    OBVIOUS
  <2>1. Len(e) \in 1..Len(e) /\ Len(u) = Len(g) + Len(e)
    BY <1>1, <1>2
  <2> QED BY <1>4, <2>1
<1> QED BY <1>2, <1>6, <1>7, <1>8 DEF u

\* A call with the page p.
Got(c, p) == [c EXCEPT !.got = @ \o p.entries, !.cursor = p.next,
                       !.at = IF p.next = 0 THEN "done" ELSE "request"]

\* The page that follows the cursor continues the listing without a hole, and ends it
\* when nothing is left.
LEMMA PageContinues ==
  ASSUME log \in Seq(Record), Increasing(log),
         NEW c \in Call, c.kind \in {"list", "key"}, c.at = "request", c.base <= Len(log),
         ListOk(c, log),
         NEW S, \A r \in Stored : r \in S <=> Asked(c, r) /\ r.seq >= c.cursor,
         NEW limit \in Nat \ {0}, NEW to \in Nat, to # 0 => c.kind = "list" /\ to = c.to,
         NEW p, p = Page(Matching(log, S), to, limit)
  PROVE  Got(c, p) \in Call /\ ListOk(Got(c, p), log)
<1> DEFINE g == c.got
           e == p.entries
           d == Got(c, p)
           u == g \o e
<1>1. /\ g \in Seq(Record) /\ Len(g) \in Nat /\ c.cursor \in Nat /\ c.base \in Nat
      /\ Len(log) \in Nat
  BY LenProperties DEF Call
<1>2. /\ Pages(e, S, limit)
      /\ p.next \in Nat
      /\ p.next # 0 => Len(e) > 0 /\ p.next = e[Len(e)].seq + 1
      /\ p.next = 0 => \/ Len(e) < limit
                       \/ Len(e) > 0 /\ to # 0 /\ e[Len(e)].seq + 1 >= to
  BY PageIs, Zenon
<1>3. /\ Listed(g, c, Stored)
      /\ c.cursor = 0 => Len(g) = 0
      /\ c.cursor # 0 => Len(g) > 0 /\ c.cursor = g[Len(g)].seq + 1
  BY DEF ListOk, Stored
<1>4. e \in Seq(Record) /\ Len(e) \in Nat /\ Increasing(e)
  BY <1>2, LenProperties DEF Pages
<1>5. /\ d.got = u /\ d.cursor = p.next
      /\ d.at = (IF p.next = 0 THEN "done" ELSE "request")
      /\ d.kind = c.kind /\ d.from = c.from /\ d.to = c.to /\ d.key = c.key /\ d.base = c.base
  BY DEF Got, Call
<1>6. u \in Seq(Record)
  BY <1>1, <1>4, ConcatProperties
<1>7. d \in Call
  BY <1>2, <1>6, Zenon DEF Got, Call
<1> HIDE DEF g, e, d, u
<1>8. ASSUME NEW r PROVE Asked(d, r) <=> Asked(c, r)
  BY <1>5 DEF Asked
<1>9. ASSUME NEW r \in Stored PROVE r \in Record /\ r.seq \in Nat
  <2>1. r \in Record
    BY InSet DEF Stored
  <2> QED BY <2>1 DEF Record
<1>10. ASSUME NEW i \in 1..Len(g) PROVE g[i] \in Stored /\ Asked(c, g[i])
  BY <1>3 DEF Listed
<1>11. ASSUME NEW j \in 1..Len(e) PROVE e[j] \in Stored /\ Asked(c, e[j]) /\ e[j].seq >= c.cursor
  BY <1>2 DEF Pages
<1>12. ASSUME NEW i \in 1..Len(g), NEW j \in 1..Len(e) PROVE g[i].seq < e[j].seq
  <2>1. Len(g) \in 1..Len(g) /\ c.cursor # 0
    BY <1>1, <1>3
  <2>2. g[i].seq \in Nat /\ g[Len(g)].seq \in Nat /\ e[j].seq \in Nat
    BY <1>9, <1>10, <1>11, <2>1
  <2>3. i = Len(g) \/ i < Len(g)
    BY <1>1
  <2>4. g[i].seq <= g[Len(g)].seq
    <3>1. i < Len(g) => g[i].seq < g[Len(g)].seq
      BY <1>3, <2>1 DEF Listed, Increasing
    <3> QED BY <2>2, <2>3, <3>1
  <2>5. e[j].seq >= g[Len(g)].seq + 1
    BY <1>3, <1>11, <2>1
  <2> QED BY <2>2, <2>4, <2>5
<1>13. /\ Increasing(u) /\ Len(u) = Len(g) + Len(e) /\ ToSet(u) = ToSet(g) \cup ToSet(e)
       /\ Len(e) > 0 => u[Len(u)] = e[Len(e)]
  <2>1. Increasing(g)
    BY <1>3 DEF Listed
  <2> QED BY <1>1, <1>4, <1>12, <2>1, JoinPage DEF u
\* What was asked for before the cursor has been received.
<1>14. ASSUME NEW r \in Stored, Asked(c, r), r.seq < c.cursor PROVE r \in ToSet(g)
  <2>1. c.cursor # 0
    BY <1>9, <1>14
  <2>2. Len(g) \in 1..Len(g) /\ c.cursor = g[Len(g)].seq + 1 /\ Len(g) > 0
    BY <1>1, <1>3, <2>1
  <2>3. g[Len(g)].seq \in Nat
    BY <1>9, <1>10, <2>2
  <2>4. r.seq <= g[Len(g)].seq
    BY <1>9, <1>14, <2>2, <2>3
  <2> QED BY <1>3, <1>14, <2>2, <2>4 DEF Listed
<1>15. Listed(u, d, Stored)
  <2>1. ASSUME NEW i \in 1..Len(u) PROVE u[i] \in Stored /\ Asked(d, u[i])
    <3>1. u[i] \in ToSet(u)
      BY <1>6, InSet
    <3>2. CASE u[i] \in ToSet(g)
      <4>1. PICK j \in 1..Len(g) : g[j] = u[i]
        BY <1>1, <3>2, InSet
      <4> QED BY <1>8, <1>10, <4>1
    <3>3. CASE u[i] \in ToSet(e)
      <4>1. PICK j \in 1..Len(e) : e[j] = u[i]
        BY <1>4, <3>3, InSet
      <4> QED BY <1>8, <1>11, <4>1
    <3> QED BY <1>13, <3>1, <3>2, <3>3
  <2>2. ASSUME Len(u) > 0, NEW r \in Stored, Asked(d, r), r.seq <= u[Len(u)].seq
        PROVE  r \in ToSet(u)
    <3>1. Asked(c, r)
      BY <1>8, <2>2
    <3>2. CASE r.seq < c.cursor
      BY <1>13, <1>14, <3>1, <3>2
    <3>3. CASE ~(r.seq < c.cursor)
      <4>1. r.seq >= c.cursor /\ r \in S
        BY <1>1, <1>9, <3>1, <3>3
      <4>2. CASE Len(e) > 0
        <5>1. r.seq <= e[Len(e)].seq
          BY <1>13, <2>2, <4>2
        <5> QED BY <1>2, <1>13, <4>1, <4>2, <5>1 DEF Pages
      <4>3. CASE ~(Len(e) > 0)
        <5>1. Len(e) = 0 /\ Len(e) < limit
          BY <1>4, <4>3
        <5> QED BY <1>2, <1>13, <4>1, <5>1 DEF Pages
      <4> QED BY <4>2, <4>3
    <3> QED BY <3>2, <3>3
  <2> QED BY <1>13, <2>1, <2>2 DEF Listed
<1>16. ASSUME p.next = 0, NEW r \in Stored, Asked(c, r) PROVE r \in ToSet(u)
  <2>1. CASE r.seq < c.cursor
    BY <1>13, <1>14, <1>16, <2>1
  <2>2. CASE ~(r.seq < c.cursor)
    <3>1. r \in S
      BY <1>1, <1>9, <1>16, <2>2
    <3>2. CASE Len(e) < limit
      BY <1>2, <1>13, <3>1, <3>2 DEF Pages
    <3>3. CASE Len(e) > 0 /\ to # 0 /\ e[Len(e)].seq + 1 >= to
      <4>1. r.seq < to
        BY <1>16, <3>3 DEF Asked
      <4>2. Len(e) \in 1..Len(e)
        BY <1>4, <3>3
      <4>3. e[Len(e)].seq \in Nat
        BY <1>9, <1>11, <4>2
      <4>4. r.seq <= e[Len(e)].seq
        BY <1>9, <3>3, <4>1, <4>3
      <4> QED BY <1>2, <1>13, <3>1, <3>3, <4>4 DEF Pages
    <3> QED BY <1>2, <1>16, <3>2, <3>3
  <2> QED BY <2>1, <2>2
<1>17. ASSUME d.at = "done", NEW i \in 1..d.base, Asked(d, log[i]) PROVE log[i] \in ToSet(u)
  <2>1. p.next = 0
    BY <1>5, <1>17
  <2>2. i \in 1..Len(log)
    BY <1>1, <1>5
  <2>3. log[i] \in Stored
    BY <2>2, InSet DEF Stored
  <2> QED BY <1>8, <1>16, <1>17, <2>1, <2>3
<1>18. d.at = "request" => Len(u) > 0 /\ d.cursor # 0 /\ d.cursor = u[Len(u)].seq + 1
  BY <1>1, <1>2, <1>4, <1>5, <1>13
<1>19. d.at \in {"request", "done", "refused"}
  BY <1>5
<1>20. ListOk(d, log)
  BY <1>5, <1>15, <1>17, <1>18, <1>19 DEF ListOk, Stored
<1> QED BY <1>7, <1>20 DEF d

-----------------------------------------------------------------------------
(* Every step keeps the invariant.                                         *)

\* A log is no shorter than itself.
LEMMA ExtendsSelf == ASSUME NEW l \in Seq(Record) PROVE Extends(l, l)
<1>1. Len(l) \in Nat
  BY LenProperties
<1> QED BY <1>1 DEF Extends

\* The writer does not disturb a call.
LEMMA CallKept ==
  ASSUME TypeInv, CallInv, log' \in Seq(Record), Extends(log, log'), call' = call
  PROVE  CallInv'
<1>1. log \in Seq(Record) /\ call \in Call /\ call.base \in Nat
  BY DEF TypeInv, Call
<1>2. ListOk(call, log') /\ LatestOk(call, log')
  BY <1>1, ListGrows, LatestGrows DEF CallInv
<1>3. call.base <= Len(log')
  <2>1. Len(log) \in Nat /\ Len(log') \in Nat
    BY <1>1, LenProperties
  <2> QED BY <1>1, <2>1 DEF CallInv, Extends
<1> QED BY <1>2, <1>3 DEF CallInv

\* No call is a call.
LEMMA NoCallOk == NoCall \in Call /\ \A l : ListOk(NoCall, l) /\ LatestOk(NoCall, l)
<1>1. EmptyKey \in Keys /\ <<>> \in Seq(Record)
  BY LogReadsAssumption, EmptySeq
<1>2. NoCall \in Call
  BY <1>1 DEF NoCall, Call
<1>3. NoCall.kind = "none"
  BY DEF NoCall
<1> QED BY <1>2, <1>3 DEF ListOk, LatestOk

\* A step that changes neither the log, the index nor the reserved numbers.
LEMMA StoreKept ==
  ASSUME TypeInv, LogInv, IndexOk(index, log), UNCHANGED store, call' \in Call
  PROVE  TypeInv' /\ LogInv' /\ IndexOk(index', log')
<1>1. UNCHANGED <<nextSeq, pending, log, index>>
  BY DEF store
<1>2. TypeInv' /\ LogInv'
  BY <1>1 DEF TypeInv, LogInv
<1> QED BY <1>1, <1>2

\* Sequence numbers are reserved.
LEMMA ReserveStep ==
  ASSUME ReadInv, NEW n \in 1..MaxBatch, NEW b \in [1..n -> Keys], Reserve(b)
  PROVE  ReadInv'
<1>1. TypeInv /\ LogInv /\ CallInv /\ IndexOk(index, log)
  BY DEF ReadInv
<1>2. /\ pending = <<>> /\ pending' = b /\ nextSeq' = nextSeq + Len(b)
      /\ UNCHANGED <<log, index, call>>
  BY DEF Reserve
<1>3. n \in Nat
  BY LogReadsAssumption
<1>4. b \in Seq(Keys) /\ Len(b) = n
  BY <1>3
<1>5. Len(pending) = 0 /\ nextSeq \in Nat /\ log \in Seq(Record) /\ Len(log) \in Nat
  BY <1>1, <1>2, EmptySeq, LenProperties DEF TypeInv
<1>6. TypeInv'
  BY <1>1, <1>2, <1>3, <1>4 DEF TypeInv
<1>7. nextSeq' - Len(pending') = nextSeq - Len(pending)
  BY <1>2, <1>3, <1>4, <1>5
<1>8. LogInv'
  <2>1. Len(log') + Len(pending') <= nextSeq'
    BY <1>1, <1>2, <1>3, <1>4, <1>5 DEF LogInv
  <2> QED BY <1>1, <1>2, <1>7, <2>1 DEF LogInv
<1>9. CallInv'
  BY <1>1, <1>2, <1>5, CallKept, ExtendsSelf
<1> QED BY <1>1, <1>2, <1>6, <1>8, <1>9 DEF ReadInv

\* The request is committed.
LEMMA CommitStep == ASSUME ReadInv, Commit PROVE ReadInv'
<1>1. TypeInv /\ LogInv /\ CallInv /\ IndexOk(index, log)
  BY DEF ReadInv
<1>2. /\ log' = log \o Reserved /\ index' = Indexed(index, Reserved) /\ pending' = <<>>
      /\ UNCHANGED <<nextSeq, call>>
  BY DEF Commit
<1>3. /\ Reserved \in Seq(Record) /\ Increasing(Reserved)
      /\ log' \in Seq(Record) /\ Len(log') = Len(log) + Len(pending) /\ Increasing(log')
      /\ \A i \in 1..Len(log') : i - 1 <= log'[i].seq /\ log'[i].seq < nextSeq
      /\ Extends(log, log')
      /\ ToSet(log') = ToSet(log) \cup ToSet(Reserved)
      /\ \A x \in ToSet(log), y \in ToSet(Reserved) : x.seq < y.seq
  BY <1>1, <1>2, CommitLog, Zenon
<1>4. Len(pending') = 0 /\ <<>> \in Seq(Keys) /\ nextSeq \in Nat /\ log \in Seq(Record)
  BY <1>1, <1>2, EmptySeq DEF TypeInv
<1>5. TypeInv'
  BY <1>1, <1>2, <1>3, <1>4 DEF TypeInv
<1>6. LogInv'
  <2>1. Len(log') + Len(pending') <= nextSeq' /\ nextSeq' - Len(pending') = nextSeq
    <3>1. Len(log) \in Nat /\ Len(pending) \in Nat
      BY <1>1, LenProperties DEF TypeInv
    <3> QED BY <1>1, <1>2, <1>3, <1>4, <3>1 DEF LogInv
  <2> QED BY <1>3, <2>1 DEF LogInv
<1>7. CallInv'
  BY <1>1, <1>2, <1>3, CallKept
<1>8. IndexOk(index', log')
  BY <1>1, <1>2, <1>3, <1>4, IndexGrows
<1> QED BY <1>5, <1>6, <1>7, <1>8 DEF ReadInv

\* The write fails: the numbers are skipped.
LEMMA FailStep == ASSUME ReadInv, CommitFails PROVE ReadInv'
<1>1. TypeInv /\ LogInv /\ CallInv /\ IndexOk(index, log)
  BY DEF ReadInv
<1>2. pending' = <<>> /\ UNCHANGED <<nextSeq, log, index, call>>
  BY DEF CommitFails
<1>3. /\ Len(pending') = 0 /\ <<>> \in Seq(Keys) /\ nextSeq \in Nat /\ log \in Seq(Record)
      /\ Len(log) \in Nat /\ Len(pending) \in Nat
  BY <1>1, <1>2, EmptySeq, LenProperties DEF TypeInv
<1>4. TypeInv'
  BY <1>1, <1>2, <1>3 DEF TypeInv
<1>5. LogInv'
  <2>1. Len(log) + 0 <= nextSeq /\ nextSeq - Len(pending') = nextSeq
    BY <1>1, <1>3 DEF LogInv
  <2>2. ASSUME NEW i \in 1..Len(log) PROVE i - 1 <= log[i].seq /\ log[i].seq < nextSeq
    <3>1. i - 1 <= log[i].seq /\ log[i].seq < nextSeq - Len(pending)
      BY <1>1 DEF LogInv
    <3>2. log[i] \in Record
      BY <1>3, ElementOfSeq
    <3>3. log[i].seq \in Nat
      BY <3>2 DEF Record
    <3> QED BY <1>3, <3>1, <3>3
  <2> QED BY <1>1, <1>2, <1>3, <2>1, <2>2 DEF LogInv
<1>6. CallInv'
  BY <1>1, <1>2, <1>3, CallKept, ExtendsSelf
<1> QED BY <1>1, <1>2, <1>4, <1>5, <1>6 DEF ReadInv

\* Sizes when nothing is reserved.
LEMMA NoneReserved ==
  ASSUME NEW a \in Nat, NEW b \in Nat, a <= b, NEW z, z = 0
  PROVE  a + z <= b /\ b - z = b
OBVIOUS

\* The server restarts.
LEMMA RestartStep == ASSUME ReadInv, Restart PROVE ReadInv'
<1>1. TypeInv /\ LogInv /\ CallInv /\ IndexOk(index, log)
  BY DEF ReadInv
<1>2. /\ pending' = <<>> /\ nextSeq' = (IF log = <<>> THEN 0 ELSE log[Len(log)].seq + 1)
      /\ call' = (IF call.at = "read" THEN NoCall ELSE call)
      /\ UNCHANGED <<log, index>>
  BY DEF Restart, Last
<1>3. /\ Len(pending') = 0 /\ <<>> \in Seq(Keys) /\ log \in Seq(Record)
      /\ Len(log) \in Nat /\ (Len(log) = 0 <=> log = <<>>)
  BY <1>1, <1>2, EmptySeq, LenProperties DEF TypeInv
<1>4. ASSUME NEW i \in 1..Len(log) PROVE log[i].seq \in Nat /\ i - 1 <= log[i].seq
  <2>1. log[i] \in Record
    BY <1>3, ElementOfSeq
  <2> QED BY <1>1, <2>1 DEF LogInv, Record
<1>5. nextSeq' \in Nat /\ Len(log) <= nextSeq' /\ \A i \in 1..Len(log) : log[i].seq < nextSeq'
  <2>1. CASE log = <<>>
    BY <1>2, <1>3, <2>1
  <2>2. CASE log # <<>>
    <3>1. Len(log) \in 1..Len(log)
      BY <1>3, <2>2
    <3>2. nextSeq' = log[Len(log)].seq + 1 /\ log[Len(log)].seq \in Nat /\ Len(log) - 1 <= log[Len(log)].seq
      BY <1>2, <1>4, <2>2, <3>1
    <3>3. ASSUME NEW i \in 1..Len(log) PROVE log[i].seq < nextSeq'
      <4>1. i = Len(log) \/ i < Len(log)
        BY <1>3
      <4>2. i < Len(log) => log[i].seq < log[Len(log)].seq
        BY <1>1, <3>1 DEF LogInv, Increasing
      <4> QED BY <1>4, <3>2, <4>1, <4>2
    <3> QED BY <1>3, <3>2, <3>3
  <2> QED BY <2>1, <2>2
<1>6. call' \in Call
  BY <1>1, <1>2, NoCallOk DEF TypeInv
<1>7. TypeInv'
  BY <1>1, <1>2, <1>3, <1>5, <1>6 DEF TypeInv
<1>8. LogInv'
  <2>1. Len(log) + Len(pending') <= nextSeq' /\ nextSeq' - Len(pending') = nextSeq'
    <3>1. Len(log) \in Nat /\ nextSeq' \in Nat /\ Len(log) <= nextSeq' /\ Len(pending') = 0
      BY <1>3, <1>5, Zenon
    <3> QED BY <3>1, NoneReserved, Zenon
  <2> QED BY <1>1, <1>2, <1>3, <1>4, <1>5, <2>1 DEF LogInv
<1>9. CallInv'
  <2>1. CASE call.at = "read"
    <3>1. call' = NoCall /\ NoCall.kind = "none" /\ NoCall.at = "idle" /\ NoCall.base = 0
      BY <1>2, <2>1 DEF NoCall
    <3>2. NoCall.base <= Len(log')
      BY <1>2, <1>3, <3>1
    <3> QED BY <3>1, <3>2, NoCallOk DEF CallInv
  <2>2. CASE call.at # "read"
    BY <1>1, <1>2, <1>3, <2>2, CallKept, ExtendsSelf
  <2> QED BY <2>1, <2>2
<1> QED BY <1>1, <1>2, <1>7, <1>8, <1>9 DEF ReadInv

\* The size of a page is never 0.
LEMMA ClampedIs ==
  ASSUME NEW n \in Nat
  PROVE  /\ Clamped(n, DefaultLimit, MaxLimit) \in Nat \ {0}
         /\ Clamped(n, 1, MaxGetLatest) \in Nat \ {0}
<1>1. MaxLimit \in Nat /\ DefaultLimit \in 1..MaxLimit
  BY LogReadsAssumption
<1>2. DefaultLimit \in Nat \ {0} /\ MaxLimit \in Nat \ {0} /\ MaxGetLatest \in Nat \ {0}
  BY <1>1, LogReadsAssumption
<1> QED BY <1>2 DEF Clamped

\* A page of a listing is answered and received.
LEMMA ReceiveStep ==
  ASSUME ReadInv, UNCHANGED store, call.kind \in {"list", "key"}, call.at = "request",
         NEW S, \A r \in Stored : r \in S <=> Asked(call, r) /\ r.seq >= call.cursor,
         NEW to \in Nat, to # 0 => call.kind = "list" /\ to = call.to,
         NEW limit \in Nat \ {0}, Received(Page(Matching(log, S), to, limit))
  PROVE  ReadInv'
<1> DEFINE p == Page(Matching(log, S), to, limit)
<1>1. TypeInv /\ LogInv /\ CallInv /\ IndexOk(index, log)
  BY DEF ReadInv
<1>2. log \in Seq(Record) /\ Increasing(log) /\ call \in Call /\ call.base <= Len(log)
      /\ ListOk(call, log)
  BY <1>1 DEF TypeInv, LogInv, CallInv
<1>3. call' = Got(call, p)
  BY DEF Received, Got
<1>4. Got(call, p) \in Call /\ ListOk(Got(call, p), log)
  BY <1>2, PageContinues
<1> HIDE DEF p
<1>5. call' \in Call /\ ListOk(call', log)
  BY <1>3, <1>4
<1>6. call'.kind = call.kind /\ call'.at # "idle" /\ call'.base = call.base
  BY <1>2, <1>3 DEF Got, Call
<1>7. LatestOk(call', log)
  BY <1>6 DEF LatestOk
<1>8. log' = log
  BY DEF store
<1>9. CallInv'
  BY <1>2, <1>5, <1>6, <1>7, <1>8 DEF CallInv
<1> QED BY <1>1, <1>5, <1>9, StoreKept DEF ReadInv

\* ListEntries answers a page.
LEMMA ListStep == ASSUME ReadInv, ListEntries PROVE ReadInv'
<1> DEFINE start == IF call.cursor > 0 THEN call.cursor ELSE call.from
           S == {r \in ToSet(log) : r.seq >= start /\ (call.to = 0 \/ r.seq < call.to)}
           limit == Clamped(call.limit, DefaultLimit, MaxLimit)
<1>1. TypeInv /\ LogInv /\ CallInv
  BY DEF ReadInv
<1>2. call.kind = "list" /\ call.at = "request" /\ UNCHANGED store
  BY DEF ListEntries
<1>3. Received(Page(Matching(log, S), call.to, limit))
  BY DEF ListEntries, seq_range_paged
<1>4. /\ call.cursor \in Nat /\ call.from \in Nat /\ call.to \in Nat /\ call.limit \in Nat
      /\ call.got \in Seq(Record) /\ log \in Seq(Record)
  BY <1>1 DEF TypeInv, Call
<1>5. limit \in Nat \ {0}
  BY <1>4, ClampedIs, Zenon
<1>6. ASSUME NEW r \in Stored PROVE r \in S <=> Asked(call, r) /\ r.seq >= call.cursor
  <2>1. r \in Record
    BY <1>4, InSet DEF Stored
  <2>2. r.seq \in Nat
    BY <2>1 DEF Record
  <2>3. r \in S <=> r.seq >= start /\ (call.to = 0 \/ r.seq < call.to)
    BY DEF Stored
  <2>4. Asked(call, r) <=> r.seq >= call.from /\ (call.to = 0 \/ r.seq < call.to)
    BY <1>2 DEF Asked
  <2>5. CASE call.cursor = 0
    BY <1>4, <2>2, <2>3, <2>4, <2>5
  <2>6. CASE call.cursor # 0
    <3> DEFINE g == call.got
    <3>1. /\ Len(g) > 0 /\ call.cursor = g[Len(g)].seq + 1
          /\ \A i \in 1..Len(g) : Asked(call, g[i])
      BY <1>1, <1>2, <2>6 DEF CallInv, ListOk, Listed
    <3>2. Len(g) \in 1..Len(g) /\ g[Len(g)] \in Record
      BY <1>4, <3>1, LenProperties, ElementOfSeq
    <3>3. g[Len(g)].seq \in Nat /\ g[Len(g)].seq >= call.from
      BY <1>2, <3>1, <3>2 DEF Asked, Record
    <3> HIDE DEF g
    <3>4. call.cursor >= call.from /\ start = call.cursor
      BY <1>4, <2>6, <3>1, <3>3
    <3> HIDE DEF start, S
    <3> QED BY <1>4, <2>2, <2>3, <2>4, <3>4
  <2> QED BY <2>5, <2>6
<1> HIDE DEF S, limit
<1> QED BY <1>2, <1>3, <1>4, <1>5, <1>6, ReceiveStep

\* GetByKey refuses the empty key and answers a page for another one.
LEMMA KeyStep == ASSUME ReadInv, GetByKey PROVE ReadInv'
<1> DEFINE S == {r \in ToSet(log) : r.seq >= call.cursor /\ r.key = call.key}
           limit == Clamped(call.limit, DefaultLimit, MaxLimit)
<1>1. TypeInv /\ LogInv /\ CallInv /\ IndexOk(index, log)
  BY DEF ReadInv
<1>2. call.kind = "key" /\ call.at = "request" /\ UNCHANGED store
  BY DEF GetByKey
<1>3. call \in Call /\ call.cursor \in Nat /\ call.limit \in Nat
  BY <1>1 DEF TypeInv, Call
<1>4. limit \in Nat \ {0}
  BY <1>3, ClampedIs
<1>5. CASE call' = [call EXCEPT !.at = "refused"]
  <2>1. /\ call' \in Call /\ call'.kind = "key" /\ call'.at = "refused"
        /\ call'.got = call.got /\ call'.base = call.base /\ call'.key = call.key
    BY <1>2, <1>3, <1>5 DEF Call
  <2>2. \A r : Asked(call', r) <=> Asked(call, r)
    BY <1>2, <2>1 DEF Asked
  <2>3. Listed(call.got, call, ToSet(log))
    BY <1>1, <1>2 DEF CallInv, ListOk
  <2>4. Listed(call'.got, call', ToSet(log))
    BY <2>1, <2>2, <2>3 DEF Listed
  <2>5. ListOk(call', log) /\ LatestOk(call', log)
    BY <2>1, <2>4 DEF ListOk, LatestOk
  <2>6. log' = log
    BY <1>2 DEF store
  <2>7. CallInv'
    BY <1>1, <2>1, <2>5, <2>6 DEF CallInv
  <2> QED BY <1>1, <1>2, <2>1, <2>7, StoreKept DEF ReadInv
<1>6. CASE Received(entries_by_key(call.key, call.cursor, limit))
  <2>1. Received(Page(Matching(log, S), 0, limit))
    BY <1>6 DEF entries_by_key
  <2>2. \A r \in Stored : r \in S <=> Asked(call, r) /\ r.seq >= call.cursor
    BY <1>2 DEF Stored, Asked
  <2> HIDE DEF S, limit
  <2> QED BY <1>2, <1>4, <2>1, <2>2, ReceiveStep
<1> QED BY <1>5, <1>6 DEF GetByKey

\* GetLatest loads the number of entries.
LEMMA CountStep == ASSUME ReadInv, GetLatestCount PROVE ReadInv'
<1>1. TypeInv /\ LogInv /\ CallInv /\ IndexOk(index, log)
  BY DEF ReadInv
<1>2. /\ call.kind = "latest" /\ call.at = "request" /\ UNCHANGED store
      /\ call' = [call EXCEPT !.at = "read", !.total = nextSeq]
  BY DEF GetLatestCount
<1>3. call \in Call /\ nextSeq \in Nat /\ call.base \in Nat /\ Len(log) \in Nat
      /\ Len(pending) \in Nat
  BY <1>1, LenProperties DEF TypeInv, Call
<1>4. /\ call' \in Call /\ call'.kind = "latest" /\ call'.at = "read"
      /\ call'.base = call.base /\ call'.total = nextSeq
  BY <1>2, <1>3, Zenon DEF Call
<1>5. call.base <= Len(log) /\ Len(log) + Len(pending) <= nextSeq
  BY <1>1 DEF CallInv, LogInv
<1>6. call'.base <= call'.total
  BY <1>3, <1>4, <1>5
<1>7. ListOk(call', log) /\ LatestOk(call', log)
  BY <1>4, <1>6 DEF ListOk, LatestOk
<1>8. log' = log
  BY <1>2 DEF store
<1>9. CallInv'
  BY <1>4, <1>5, <1>7, <1>8 DEF CallInv
<1> QED BY <1>1, <1>2, <1>4, <1>9, StoreKept DEF ReadInv

\* The newest n entries of the log l.
LEMMA NewestIs ==
  ASSUME NEW l \in Seq(Record), Increasing(l), NEW n \in Nat \ {0}, NEW g,
         g = First(Reverse(l), n), NEW b \in Nat, b <= Len(l)
  PROVE  /\ g \in Seq(Record)
         /\ g = First(Reverse(SubSeq(l, 1, Len(l))), Len(g))
         /\ b > 0 => Len(g) > 0 /\ g[1].seq >= l[b].seq
<1> DEFINE v == Reverse(l)
<1>1. Len(l) \in Nat /\ \A i \in 1..Len(l) : l[i] \in Record
  BY LenProperties, ElementOfSeq
<1>2. v = [i \in 1..Len(l) |-> l[(Len(l) - i) + 1]]
  BY DEF Reverse
<1>3. \A i \in 1..Len(l) : (Len(l) - i) + 1 \in 1..Len(l)
  BY <1>1
<1>4. v \in Seq(Record) /\ Len(v) = Len(l)
  <2>1. v \in [1..Len(l) -> Record]
    BY <1>1, <1>2, <1>3
  <2> QED BY <1>1, <2>1
<1> HIDE DEF v
<1>5. /\ g \in Seq(Record) /\ Len(g) = IF n < Len(v) THEN n ELSE Len(v)
      /\ \A i \in 1..Len(g) : g[i] = v[i]
  BY <1>4, FirstIs DEF v
<1>6. SubSeq(l, 1, Len(l)) = l
  BY SubSeqFull
<1>7. First(v, Len(g)) = g
  <2>1. Len(g) = (IF n < Len(v) THEN n ELSE Len(v)) /\ Len(v) \in Nat
    BY <1>1, <1>4, <1>5
  <2>2. (IF Len(g) < Len(v) THEN Len(g) ELSE Len(v)) = (IF n < Len(v) THEN n ELSE Len(v))
    BY <2>1
  <2>3. g = First(v, n)
    BY DEF v
  <2> QED BY <2>2, <2>3 DEF First
<1>8. b > 0 => Len(g) > 0 /\ g[1].seq >= l[b].seq
  <2> SUFFICES ASSUME b > 0 PROVE Len(g) > 0 /\ g[1].seq >= l[b].seq
    OBVIOUS
  <2>1. Len(l) \in 1..Len(l) /\ b \in 1..Len(l) /\ 1 \in 1..Len(l) /\ (Len(l) - 1) + 1 = Len(l)
    BY <1>1
  <2>2. Len(g) > 0 /\ 1 \in 1..Len(g)
    BY <1>1, <1>4, <1>5, <2>1
  <2>3. g[1] = l[Len(l)]
    BY <1>2, <1>5, <2>1, <2>2, Zenon
  <2>4. l[Len(l)].seq \in Nat /\ l[b].seq \in Nat
    BY <1>1, <2>1 DEF Record
  <2>5. b < Len(l) => l[b].seq < l[Len(l)].seq
    BY <2>1 DEF Increasing
  <2>6. b = Len(l) \/ b < Len(l)
    BY <1>1
  <2> QED BY <2>2, <2>3, <2>4, <2>5, <2>6
<1> QED BY <1>5, <1>6, <1>7, <1>8, Zenon DEF v

\* GetLatest reads the entries.
LEMMA LatestStep == ASSUME ReadInv, GetLatestRead PROVE ReadInv'
<1> DEFINE n == Clamped(call.limit, 1, MaxGetLatest)
           g == First(Reverse(log), n)
<1>1. TypeInv /\ LogInv /\ CallInv /\ IndexOk(index, log)
  BY DEF ReadInv
<1>2. /\ call.kind = "latest" /\ call.at = "read" /\ UNCHANGED store
      /\ call' = [call EXCEPT !.at = "done", !.got = g]
  BY DEF GetLatestRead, latest
<1>3. /\ call \in Call /\ call.limit \in Nat /\ call.base \in Nat /\ log \in Seq(Record)
      /\ Len(log) \in Nat /\ call.base <= Len(log) /\ Increasing(log)
  BY <1>1, LenProperties DEF TypeInv, Call, CallInv, LogInv
<1>4. n \in Nat \ {0}
  BY <1>3, ClampedIs, Zenon
<1> HIDE DEF n
<1>5. /\ g \in Seq(Record)
      /\ g = First(Reverse(SubSeq(log, 1, Len(log))), Len(g))
      /\ call.base > 0 => Len(g) > 0 /\ g[1].seq >= log[call.base].seq
  BY <1>3, <1>4, NewestIs, Zenon
<1> HIDE DEF g
<1>6. /\ call' \in Call /\ call'.kind = "latest" /\ call'.at = "done" /\ call'.got = g
      /\ call'.base = call.base /\ call'.total = call.total
  BY <1>2, <1>3, <1>5, Zenon DEF Call
<1>7. call.base <= call.total
  BY <1>1, <1>2 DEF CallInv, LatestOk
<1>8. Len(log) \in 0..Len(log)
  BY <1>3
<1>9. LatestOk(call', log)
  BY <1>5, <1>6, <1>7, <1>8 DEF LatestOk
<1>10. ListOk(call', log)
  BY <1>6 DEF ListOk
<1>11. log' = log
  BY <1>2 DEF store
<1>12. CallInv'
  BY <1>3, <1>6, <1>9, <1>10, <1>11 DEF CallInv
<1> QED BY <1>1, <1>2, <1>6, <1>12, StoreKept DEF ReadInv

\* The client begins a call.
LEMMA BeginStep ==
  ASSUME ReadInv, NEW c \in Call, c.kind # "none", c.got = <<>>, c.cursor = 0, Begin(c)
  PROVE  ReadInv'
<1>1. TypeInv /\ LogInv /\ CallInv /\ IndexOk(index, log)
  BY DEF ReadInv
<1>2. call' = [c EXCEPT !.at = "request", !.base = Len(log)] /\ UNCHANGED store
  BY DEF Begin
<1>3. Len(log) \in Nat /\ Len(<<>>) = 0
  BY <1>1, LenProperties, EmptySeq DEF TypeInv
<1>4. /\ call' \in Call /\ call'.kind = c.kind /\ call'.at = "request" /\ call'.got = <<>>
      /\ call'.cursor = 0 /\ call'.base = Len(log)
  BY <1>2, <1>3, Zenon DEF Call
<1>5. Listed(<<>>, call', ToSet(log))
  BY <1>3 DEF Listed, Increasing
<1>6. ListOk(call', log) /\ LatestOk(call', log)
  BY <1>3, <1>4, <1>5 DEF ListOk, LatestOk
<1>7. log' = log /\ Len(log) <= Len(log)
  BY <1>2, <1>3 DEF store
<1>8. CallInv'
  BY <1>4, <1>6, <1>7 DEF CallInv
<1> QED BY <1>1, <1>2, <1>4, <1>8, StoreKept DEF ReadInv

\* The arguments of a call are numbers.
LEMMA Arguments ==
  /\ \A n \in 0..(MaxLimit + 1) : n \in Nat
  /\ \A n \in 0..MaxSeq : n \in Nat
BY LogReadsAssumption

\* The calls a client begins.
LEMMA BeginCalls ==
  ASSUME ReadInv, NEW n \in 0..(MaxLimit + 1),
         \/ \E f, t \in 0..MaxSeq :
              Begin([NoCall EXCEPT !.kind = "list", !.from = f, !.to = t, !.limit = n])
         \/ \E k \in Keys : Begin([NoCall EXCEPT !.kind = "key", !.key = k, !.limit = n])
         \/ Begin([NoCall EXCEPT !.kind = "latest", !.limit = n])
  PROVE  ReadInv'
<1>1. n \in Nat /\ NoCall \in Call /\ NoCall.got = <<>> /\ NoCall.cursor = 0
  <2>1. n \in Nat
    BY Arguments, Zenon
  <2>2. NoCall \in Call
    BY NoCallOk, Zenon
  <2>3. NoCall.got = <<>> /\ NoCall.cursor = 0
    BY Zenon DEF NoCall
  <2> QED BY <2>1, <2>2, <2>3, Zenon
<1>2. ASSUME NEW f \in 0..MaxSeq, NEW t \in 0..MaxSeq,
             Begin([NoCall EXCEPT !.kind = "list", !.from = f, !.to = t, !.limit = n])
      PROVE  ReadInv'
  <2> DEFINE c == [NoCall EXCEPT !.kind = "list", !.from = f, !.to = t, !.limit = n]
  <2>1. f \in Nat /\ t \in Nat
    BY Arguments, Zenon
  <2>2. c \in Call /\ c.kind # "none" /\ c.got = <<>> /\ c.cursor = 0
    BY <1>1, <2>1, Zenon DEF Call
  <2> HIDE DEF c
  <2>3. Begin(c)
    BY <1>2, Zenon DEF c
  <2> QED BY <2>2, <2>3, BeginStep, Zenon
<1>3. ASSUME NEW k \in Keys, Begin([NoCall EXCEPT !.kind = "key", !.key = k, !.limit = n])
      PROVE  ReadInv'
  <2> DEFINE c == [NoCall EXCEPT !.kind = "key", !.key = k, !.limit = n]
  <2>1. c \in Call /\ c.kind # "none" /\ c.got = <<>> /\ c.cursor = 0
    BY <1>1, Zenon DEF Call
  <2> HIDE DEF c
  <2>2. Begin(c)
    BY <1>3, Zenon DEF c
  <2> QED BY <2>1, <2>2, BeginStep, Zenon
<1>4. ASSUME Begin([NoCall EXCEPT !.kind = "latest", !.limit = n]) PROVE ReadInv'
  <2> DEFINE c == [NoCall EXCEPT !.kind = "latest", !.limit = n]
  <2>1. c \in Call /\ c.kind # "none" /\ c.got = <<>> /\ c.cursor = 0
    BY <1>1, Zenon DEF Call
  <2> HIDE DEF c
  <2>2. Begin(c)
    BY <1>4, Zenon DEF c
  <2> QED BY <2>1, <2>2, BeginStep, Zenon
<1> QED BY <1>2, <1>3, <1>4, Zenon

\* The client is done with a call.
LEMMA FinishStep == ASSUME ReadInv, Finish PROVE ReadInv'
<1>1. TypeInv /\ LogInv /\ CallInv /\ IndexOk(index, log)
  BY DEF ReadInv
<1>2. call' = NoCall /\ UNCHANGED store /\ log' = log
  BY DEF Finish, store
<1>3. NoCall.kind = "none" /\ NoCall.at = "idle" /\ NoCall.base = 0
  BY DEF NoCall
<1>4. Len(log) \in Nat
  BY <1>1, LenProperties DEF TypeInv
<1>5. NoCall.base <= Len(log)
  BY <1>3, <1>4
<1>6. CallInv'
  BY <1>2, <1>3, <1>5, NoCallOk DEF CallInv
<1> QED BY <1>1, <1>2, <1>6, NoCallOk, StoreKept DEF ReadInv

\* The invariant holds when the log is empty.
LEMMA ReadsInit == Init => ReadInv
<1> SUFFICES ASSUME Init PROVE ReadInv
  OBVIOUS
<1>1. nextSeq = 0 /\ pending = <<>> /\ log = <<>> /\ index = [k \in {} |-> 0] /\ call = NoCall
  BY DEF Init
<1>2. Len(<<>>) = 0 /\ <<>> \in Seq(Keys) /\ <<>> \in Seq(Record) /\ ToSet(<<>>) = {}
  BY EmptySeq DEF ToSet
<1>3. TypeInv
  BY <1>1, <1>2, NoCallOk DEF TypeInv
<1>4. LogInv
  BY <1>1, <1>2 DEF LogInv, Increasing
<1>5. NoCall.kind = "none" /\ NoCall.at = "idle" /\ NoCall.base = 0
  BY DEF NoCall
<1>6. CallInv
  BY <1>1, <1>2, <1>5, NoCallOk DEF CallInv
<1>7. IndexOk(index, log)
  BY <1>1, <1>2 DEF IndexOk
<1> QED BY <1>3, <1>4, <1>6, <1>7 DEF ReadInv

\* The invariant always holds.
LEMMA ReadsInvariant == Spec => []ReadInv
<1>1. ReadInv /\ [Next]_vars => ReadInv'
  <2> SUFFICES ASSUME ReadInv, [Next]_vars PROVE ReadInv'
    OBVIOUS
  <2>1. ASSUME NEW n \in 1..MaxBatch, NEW b \in [1..n -> Keys], Reserve(b) PROVE ReadInv'
    BY <2>1, ReserveStep
  <2>2. CASE Commit
    BY <2>2, CommitStep
  <2>3. CASE CommitFails
    BY <2>3, FailStep
  <2>4. CASE Restart
    BY <2>4, RestartStep
  <2>5. ASSUME NEW n \in 0..(MaxLimit + 1),
               \/ \E f, t \in 0..MaxSeq :
                    Begin([NoCall EXCEPT !.kind = "list", !.from = f, !.to = t, !.limit = n])
               \/ \E k \in Keys : Begin([NoCall EXCEPT !.kind = "key", !.key = k, !.limit = n])
               \/ Begin([NoCall EXCEPT !.kind = "latest", !.limit = n])
        PROVE  ReadInv'
    BY <2>5, BeginCalls, Zenon
  <2>6. CASE ListEntries
    BY <2>6, ListStep
  <2>7. CASE GetByKey
    BY <2>7, KeyStep
  <2>8. CASE GetLatestCount
    BY <2>8, CountStep
  <2>9. CASE GetLatestRead
    BY <2>9, LatestStep
  <2>10. CASE Finish
    BY <2>10, FinishStep
  <2>11. CASE UNCHANGED vars
    <3>1. UNCHANGED store /\ call' = call /\ log' = log
      BY <2>11 DEF vars, store
    <3>2. TypeInv /\ LogInv /\ CallInv /\ IndexOk(index, log)
      BY DEF ReadInv
    <3>3. CallInv' /\ call' \in Call
      BY <3>1, <3>2 DEF CallInv, TypeInv
    <3> QED BY <3>1, <3>2, <3>3, StoreKept DEF ReadInv
  <2> QED BY <2>1, <2>2, <2>3, <2>4, <2>5, <2>6, <2>7, <2>8, <2>9, <2>10, <2>11, Zenon DEF Next
<1> QED BY <1>1, ReadsInit, PTL DEF Spec

-----------------------------------------------------------------------------
(* The theorems.                                                           *)

\* The pages of ListEntries and GetByKey, put together, have the wanted records in
\* order and without a hole, for any page size and whatever is committed, fails or
\* restarts between the pages.
THEOREM PagesJoin == Spec => []PagesHaveNoHoles
<1>1. ReadInv => PagesHaveNoHoles
  <2> SUFFICES ASSUME ReadInv, call.kind \in {"list", "key"}
               PROVE  /\ \A i, j \in 1..Len(call.got) : i < j => call.got[i].seq < call.got[j].seq
                      /\ \A i \in 1..Len(call.got) : call.got[i] \in Stored /\ Wanted(call.got[i])
                      /\ call.got # <<>> =>
                           \A r \in Stored : (Wanted(r) /\ r.seq <= Last(call.got).seq)
                                               => r \in ToSet(call.got)
    BY DEF PagesHaveNoHoles
  <2>1. Listed(call.got, call, Stored)
    BY DEF ReadInv, CallInv, ListOk, Stored
  <2>2. \A r : Wanted(r) <=> Asked(call, r)
    BY DEF Wanted, Asked
  <2>3. call.got # <<>> => Len(call.got) > 0
    <3>1. call.got \in Seq(Record)
      BY DEF ReadInv, TypeInv, Call
    <3> QED BY <3>1, EmptySeq, LenProperties
  <2> QED BY <2>1, <2>2, <2>3 DEF Listed, Increasing, Last
<1> QED BY <1>1, ReadsInvariant, PTL

\* A listing whose cursor came back as 0 has every wanted record stored when it began,
\* for any page size and any log.
THEOREM ListingCompletes == Spec => []EndedListingIsComplete
<1>1. ReadInv => EndedListingIsComplete
  <2> SUFFICES ASSUME ReadInv, call.kind \in {"list", "key"}, call.at = "done",
                      NEW i \in 1..call.base, Wanted(log[i])
               PROVE  log[i] \in ToSet(call.got)
    BY DEF EndedListingIsComplete
  <2>1. Asked(call, log[i])
    BY DEF Wanted, Asked
  <2> QED BY <2>1 DEF ReadInv, CallInv, ListOk
<1> QED BY <1>1, ReadsInvariant, PTL

\* GetLatest returns a newest-first stretch of the log that begins at an entry no older
\* than the newest one at the time of the call, with a total that tells whether it was
\* truncated, although it counts and reads at two moments.
THEOREM LatestAnswer == Spec => []LatestIsNewest
<1>1. ReadInv => LatestIsNewest
  <2> SUFFICES ASSUME ReadInv, call.kind = "latest", call.at = "done"
               PROVE  /\ call.base > 0 => call.got # <<>> /\ call.got[1].seq >= log[call.base].seq
                      /\ \E i \in 0..Len(log) :
                           call.got = First(Reverse(SubSeq(log, 1, i)), Len(call.got))
                      /\ Len(call.got) < call.base => call.total > Len(call.got)
    BY DEF LatestIsNewest
  <2>1. /\ call.base <= call.total
        /\ call.base > 0 => Len(call.got) > 0 /\ call.got[1].seq >= log[call.base].seq
        /\ \E i \in 0..Len(log) : call.got = First(Reverse(SubSeq(log, 1, i)), Len(call.got))
    BY DEF ReadInv, CallInv, LatestOk
  <2>2. /\ call.got \in Seq(Record) /\ Len(call.got) \in Nat /\ call.base \in Nat
        /\ call.total \in Nat
    BY LenProperties DEF ReadInv, TypeInv, Call
  <2>3. Len(call.got) > 0 => call.got # <<>>
    BY EmptySeq
  <2>4. Len(call.got) < call.base => call.total > Len(call.got)
    BY <2>1, <2>2
  <2> QED BY <2>1, <2>3, <2>4
<1> QED BY <1>1, ReadsInvariant, PTL

\* The index has the newest entry of every key, for batches of any size with repeated
\* keys, after failed writes and restarts too.
THEOREM IndexIsRight == Spec => []IndexIsNewest
<1>1. ReadInv => IndexIsNewest
  BY DEF ReadInv, IndexOk, IndexIsNewest, Stored
<1> QED BY <1>1, ReadsInvariant, PTL
=============================================================================
