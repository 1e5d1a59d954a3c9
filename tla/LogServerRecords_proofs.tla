---------------------- MODULE LogServerRecords_proofs ----------------------
(***************************************************************************)
(* Theorems about the records of the log and the answers of force_sth, for *)
(* every set of handlers and data and every bound: the order of the        *)
(* sequence numbers, their agreement with leaf indexes, what becomes of an *)
(* acknowledged entry, what a forced tree head covers, and that the server *)
(* implements TransparencyLog.  They rest on the invariant IInv of         *)
(* LogServer_proofs.                                                       *)
(***************************************************************************)
EXTENDS LogServer_proofs

-----------------------------------------------------------------------------
(* The inductive invariants.                                               *)

Increasing(l) == \A i, j \in 1..Len(l) : i < j => l[i].seq < l[j].seq

Below(l, n) == \A i \in 1..Len(l) : l[i].seq < n

Indexed(l) == \A i \in 1..Len(l) : l[i].seq = i - 1

In(r, l) == \E i \in 1..Len(l) : l[i] = r

\* The sequence numbers a handler holds lie between the stored ones and next_seq,
\* and those of every state a power loss may restore are in order.
SeqInv ==
  /\ Increasing(log)
  /\ up => Below(log, nextSeq)
  /\ \A w \in Writers :
       wpc[w] = "write" => Below(log, first[w]) /\ first[w] + Len(batch[w]) = nextSeq
  /\ \A k \in 1..Len(wal) : Increasing(wal[k].log)

\* Without a failed write, next_seq is the length of the log plus the batch of the
\* handler that has reserved its numbers and not committed.
GapInv ==
  failures = 0 =>
    /\ Indexed(log)
    /\ \A k \in 1..Len(wal) : Indexed(wal[k].log)
    /\ \A w \in Writers :
         wpc[w] = "write" => first[w] = Len(log) /\ nextSeq = Len(log) + Len(batch[w])
    /\ (up /\ \A w \in Writers : wpc[w] # "write") => nextSeq = Len(log)

\* Without a power loss, what a handler has committed is in the log before it
\* answers, and stays there.
AckInv ==
  losses = 0 =>
    /\ \A a \in acked : In(a, log)
    /\ \A w \in Writers :
         wpc[w] \in {"merkle", "reply"} =>
           \A i \in 1..Len(batch[w]) : In(Records(first[w], batch[w])[i], log)

\* A handler past Reserve has a request to write.
BatchInv == \A w \in Writers : wpc[w] # "idle" => batch[w] # <<>>

\* A call of force_sth that is about to answer and found a nonempty tree has a tree
\* head of its size or a larger one stored, by itself or by another signer.
ForceInv ==
  \A s \in Signers :
    (spc[s] = "answer" /\ snap[s] # <<>>) => \E n \in DOMAIN heads : Len(snap[s]) <= n

-----------------------------------------------------------------------------
(* What a step does to the database.                                       *)

\* The database changes only by a commit, a stored tree head or a power loss.
LEMMA DatabaseStep ==
  ASSUME [Next]_vars
  PROVE  \/ UNCHANGED <<log, heads, wal>>
         \/ \E w \in Writers : Commit(w)
         \/ \E s \in Signers : StoreHead(s)
         \/ \E k \in DOMAIN wal : PowerLoss(k)
<1> USE DEF writer, signer, database, client, faults
<1>1. ASSUME NEW w \in Writers, Write(w), ~Commit(w) PROVE UNCHANGED <<log, heads, wal>>
  BY <1>1 DEF Write, Reserve, CommitFails, Extend, Reply
<1>2. ASSUME NEW s \in Signers, Sign(s), ~StoreHead(s) PROVE UNCHANGED <<log, heads, wal>>
  BY <1>2 DEF Sign, Snapshot, Check, StoreHeadFails, ForceAnswer
<1>3. ASSUME NEW n \in DOMAIN heads, GetSth(n) PROVE UNCHANGED <<log, heads, wal>>
  BY <1>3 DEF GetSth
<1>4. Crash \/ Start \/ UNCHANGED vars => UNCHANGED <<log, heads, wal>>
  BY DEF Crash, Start, vars
<1> QED BY <1>1, <1>2, <1>3, <1>4 DEF Next, Halt

\* Every recorded state of the database was recorded before or is the current one.
LEMMA WalStep ==
  ASSUME TypeInv, [Next]_vars, NEW k \in 1..Len(wal')
  PROVE  \/ \E j \in 1..Len(wal) : wal'[k] = wal[j]
         \/ wal'[k] = [log |-> log, heads |-> heads]
<1>1. wal \in Seq(Contents)
  BY DEF TypeInv
<1>2. CASE UNCHANGED <<log, heads, wal>>
  BY <1>1, <1>2
<1>3. ASSUME NEW l, NEW h, WriteBatch(l, h)
      PROVE  \/ \E j \in 1..Len(wal) : wal'[k] = wal[j]
             \/ wal'[k] = [log |-> log, heads |-> heads]
  <2>1. CASE wal' = wal
    BY <1>1, <2>1
  <2>2. CASE wal' = Append(wal, [log |-> log, heads |-> heads])
    <3> DEFINE c == [log |-> log, heads |-> heads]
    <3>1. wal' = Append(wal, c)
      BY <2>2
    <3> HIDE DEF c
    <3>2. wal'[k] = c \/ (k \in 1..Len(wal) /\ wal'[k] = wal[k])
      BY <1>1, <3>1
    <3> QED BY <3>2 DEF c
  <2> QED BY <1>3, <2>1, <2>2 DEF WriteBatch
<1>4. (\E w \in Writers : Commit(w)) \/ (\E s \in Signers : StoreHead(s))
        => \E l, h : WriteBatch(l, h)
  BY Zenon DEF Commit, StoreHead
<1>5. ASSUME NEW i \in DOMAIN wal, PowerLoss(i)
      PROVE  \E j \in 1..Len(wal) : wal'[k] = wal[j]
  <2>1. i \in 1..Len(wal) /\ wal' = SubSeq(wal, 1, i - 1)
    BY <1>5 DEF PowerLoss, Prefix
  <2>2. k \in 1..Len(wal) /\ wal'[k] = wal[k]
    BY <1>1, <2>1
  <2> QED BY <2>2
<1> QED BY <1>2, <1>3, <1>4, <1>5, DatabaseStep, Zenon

\* What is in the log stays in it when the log grows at its end.
LEMMA InGrows ==
  ASSUME NEW l \in Seq(Record), NEW r \in Seq(Record), NEW x, In(x, l)
  PROVE  In(x, l \o r)
<1>1. PICK i \in 1..Len(l) : l[i] = x
  BY DEF In
<1>2. i \in 1..Len(l \o r) /\ (l \o r)[i] = x
  BY <1>1
<1> QED BY <1>2 DEF In

\* What is appended to the log is in it.
LEMMA InAppended ==
  ASSUME NEW l \in Seq(Record), NEW r \in Seq(Record), NEW i \in 1..Len(r)
  PROVE  In(r[i], l \o r)
<1>1. Len(l) + i \in 1..Len(l \o r) /\ (l \o r)[Len(l) + i] = r[i]
  OBVIOUS
<1> QED BY <1>1, Zenon DEF In

\* The elements of a log followed by the records of a request.
LEMMA AppendedSeq ==
  ASSUME NEW l \in Seq(Record), NEW f \in Nat, NEW b \in Seq(Data)
  PROVE  /\ Len(l \o Records(f, b)) = Len(l) + Len(b)
         /\ \A i \in 1..(Len(l) + Len(b)) :
              (l \o Records(f, b))[i].seq = IF i <= Len(l) THEN l[i].seq ELSE f + i - Len(l) - 1
         /\ \A i \in 1..Len(l) : l[i].seq \in Nat
         /\ Len(l) \in Nat /\ Len(b) \in Nat
<1> DEFINE r == Records(f, b)
<1>1. r \in Seq(Record) /\ Len(r) = Len(b)
  BY RecordsType
<1>2. \A i \in 1..Len(b) : r[i].seq = f + i - 1
  <2>1. \A i \in 1..Len(b) : r[i] = [seq |-> f + i - 1, leaf |-> b[i]]
    BY RecordsType
  <2>2. ASSUME NEW i \in 1..Len(b) PROVE r[i].seq = f + i - 1
    <3>1. r[i] = [seq |-> f + i - 1, leaf |-> b[i]]
      BY <2>1
    <3> HIDE DEF r
    <3> QED BY <3>1
  <2> QED BY <2>2
<1>3. \A i \in 1..Len(l) : l[i].seq \in Nat
  <2>1. \A i \in 1..Len(l) : l[i] \in Record
    OBVIOUS
  <2> QED BY <2>1 DEF Record
<1> HIDE DEF r
<1>4. Len(l \o r) = Len(l) + Len(b)
  BY <1>1
<1>5. ASSUME NEW i \in 1..(Len(l) + Len(b))
      PROVE  (l \o r)[i].seq = IF i <= Len(l) THEN l[i].seq ELSE f + i - Len(l) - 1
  <2>1. CASE i <= Len(l)
    BY <1>1, <2>1
  <2>2. CASE i > Len(l)
    <3>1. (l \o r)[i] = r[i - Len(l)] /\ i - Len(l) \in 1..Len(b)
      BY <1>1, <2>2
    <3>2. r[i - Len(l)].seq = f + (i - Len(l)) - 1
      BY <1>2, <3>1
    <3>3. (l \o r)[i].seq = f + (i - Len(l)) - 1
      BY <3>1, <3>2
    <3>4. f + (i - Len(l)) - 1 = f + i - Len(l) - 1 /\ ~(i <= Len(l))
      BY <2>2
    <3> QED BY <3>3, <3>4
  <2>3. i <= Len(l) \/ i > Len(l)
    OBVIOUS
  <2> QED BY <2>1, <2>2, <2>3, Zenon
<1> QED BY <1>3, <1>4, <1>5 DEF r

-----------------------------------------------------------------------------
(* Sequence numbers.                                                       *)

\* Records with numbers from f on extend a log that is below f.
LEMMA AppendedIncreasing ==
  ASSUME NEW l \in Seq(Record), NEW f \in Nat, NEW b \in Seq(Data), Increasing(l), Below(l, f)
  PROVE  Increasing(l \o Records(f, b)) /\ Below(l \o Records(f, b), f + Len(b))
<1> DEFINE t == l \o Records(f, b)
<1>1. /\ Len(t) = Len(l) + Len(b) /\ Len(l) \in Nat /\ Len(b) \in Nat
      /\ \A i \in 1..Len(l) : l[i].seq \in Nat
      /\ \A i \in 1..(Len(l) + Len(b)) :
           t[i].seq = IF i <= Len(l) THEN l[i].seq ELSE f + i - Len(l) - 1
  BY AppendedSeq, Zenon
<1> HIDE DEF t
<1>2. ASSUME NEW i \in 1..Len(t), NEW j \in 1..Len(t), i < j PROVE t[i].seq < t[j].seq
  <2>1. CASE j <= Len(l)
    <3>1. i \in 1..Len(l) /\ j \in 1..Len(l) /\ t[i].seq = l[i].seq /\ t[j].seq = l[j].seq
      BY <1>1, <1>2, <2>1
    <3> QED BY <1>2, <3>1 DEF Increasing
  <2>2. CASE i <= Len(l) /\ j > Len(l)
    <3>1. i \in 1..Len(l) /\ t[i].seq = l[i].seq /\ t[j].seq = f + j - Len(l) - 1
      BY <1>1, <2>2
    <3>2. l[i].seq < f /\ l[i].seq \in Nat
      BY <1>1, <3>1 DEF Below
    <3> QED BY <1>1, <2>2, <3>1, <3>2
  <2>3. CASE i > Len(l)
    <3>1. t[i].seq = f + i - Len(l) - 1 /\ t[j].seq = f + j - Len(l) - 1
      BY <1>1, <1>2, <2>3
    <3> QED BY <1>1, <1>2, <3>1
  <2> QED BY <1>1, <2>1, <2>2, <2>3
<1>3. ASSUME NEW i \in 1..Len(t) PROVE t[i].seq < f + Len(b)
  <2>1. CASE i <= Len(l)
    <3>1. i \in 1..Len(l) /\ t[i].seq = l[i].seq /\ l[i].seq \in Nat
      BY <1>1, <2>1
    <3>2. l[i].seq < f
      BY <3>1 DEF Below
    <3> QED BY <1>1, <3>1, <3>2
  <2>2. CASE i > Len(l)
    <3>1. t[i].seq = f + i - Len(l) - 1
      BY <1>1, <2>2
    <3> QED BY <1>1, <3>1
  <2> QED BY <1>1, <2>1, <2>2
<1>4. Increasing(t) /\ Below(t, f + Len(b))
  BY <1>2, <1>3 DEF Increasing, Below
<1> QED BY <1>4 DEF t

\* Db::open finds a sequence number beyond every stored one.
LEMMA NextSeqBeyond ==
  ASSUME NEW l \in Seq(Record), Increasing(l)
  PROVE  Below(l, NextSeqOf(l))
<1> SUFFICES ASSUME NEW i \in 1..Len(l) PROVE l[i].seq < NextSeqOf(l)
  BY DEF Below
<1>1. l # <<>> /\ Len(l) \in 1..Len(l) /\ NextSeqOf(l) = l[Len(l)].seq + 1
  BY DEF NextSeqOf
<1>2. l[i] \in Record /\ l[Len(l)] \in Record
  BY <1>1
<1>3. l[i].seq \in Nat /\ l[Len(l)].seq \in Nat
  BY <1>2 DEF Record
<1>4. i = Len(l) \/ l[i].seq < l[Len(l)].seq
  BY <1>1 DEF Increasing
<1> QED BY <1>1, <1>3, <1>4

\* Every step keeps the sequence numbers in order and next_seq beyond them.
LEMMA SeqStep == IInv /\ SeqInv /\ [Next]_vars => SeqInv'
<1> SUFFICES ASSUME IInv, SeqInv, [Next]_vars PROVE SeqInv'
  OBVIOUS
<1> USE DEF writer, signer, database, client, faults
<1>1. \A k \in 1..Len(wal') : Increasing(wal'[k].log)
  <2> SUFFICES ASSUME NEW k \in 1..Len(wal') PROVE Increasing(wal'[k].log)
    OBVIOUS
  <2>1. CASE wal'[k] = [log |-> log, heads |-> heads]
    <3>1. wal'[k].log = log
      BY <2>1
    <3> QED BY <3>1 DEF SeqInv
  <2>2. CASE \E j \in 1..Len(wal) : wal'[k] = wal[j]
    BY <2>2 DEF SeqInv
  <2> QED BY <2>1, <2>2, WalStep DEF IInv
<1>2. ASSUME Increasing(log'), up' => Below(log', nextSeq'),
             \A w \in Writers : wpc'[w] = "write" =>
               Below(log', first'[w]) /\ first'[w] + Len(batch'[w]) = nextSeq'
      PROVE  SeqInv'
  BY <1>1, <1>2, Zenon DEF SeqInv, Increasing, Below
<1>3. ASSUME UNCHANGED <<up, nextSeq, wpc, first, batch, log>> PROVE SeqInv'
  BY <1>2, <1>3 DEF SeqInv
<1>4. ASSUME NEW w \in Writers, NEW b \in Batches, Reserve(w, b) PROVE SeqInv'
  <2>1. Len(b) \in Nat /\ nextSeq \in Nat /\ \A i \in 1..Len(log) : log[i].seq \in Nat
    BY BatchesType, AppendedSeq DEF IInv, TypeInv
  <2>2. log' = log /\ Increasing(log) /\ Below(log, nextSeq)
    BY <1>4 DEF Reserve, SeqInv
  <2>3. nextSeq' = nextSeq + Len(b) /\ Below(log', nextSeq')
    BY <1>4, <2>1, <2>2 DEF Reserve, Below
  <2>4. \A v \in Writers : wpc'[v] = "write" => v = w
    BY <1>4, FreeLock DEF Reserve, IInv, TypeInv
  <2>5. first'[w] = nextSeq /\ batch'[w] = b
    BY <1>4 DEF Reserve, IInv, TypeInv
  <2> QED BY <1>2, <2>2, <2>3, <2>4, <2>5
<1>5. ASSUME NEW w \in Writers, Commit(w) PROVE SeqInv'
  <2>1. log' = log \o Records(first[w], batch[w]) /\ UNCHANGED <<up, nextSeq, first, batch>>
    BY <1>5, CommitLeaves, Zenon DEF IInv, Commit
  <2>2. Below(log, first[w]) /\ first[w] + Len(batch[w]) = nextSeq /\ Increasing(log)
    BY <1>5 DEF Commit, SeqInv
  <2>3. log \in Seq(Record) /\ first[w] \in Nat /\ batch[w] \in Seq(Data)
    BY DEF IInv, TypeInv
  <2>4. Increasing(log') /\ Below(log', nextSeq')
    BY <2>1, <2>2, <2>3, AppendedIncreasing
  <2>5. \A v \in Writers : wpc'[v] # "write"
    BY <1>5, OneHolder DEF Commit, IInv, TypeInv
  <2> QED BY <1>2, <2>4, <2>5
<1>6. ASSUME NEW w \in Writers, CommitFails(w) \/ Extend(w) \/ Reply(w) PROVE SeqInv'
  <2>1. UNCHANGED <<up, nextSeq, log>>
    BY <1>6 DEF CommitFails, Extend, Reply
  <2>2. \A v \in Writers : wpc'[v] = "write" =>
          wpc[v] = "write" /\ first'[v] = first[v] /\ batch'[v] = batch[v]
    BY <1>6 DEF CommitFails, Extend, Reply, WriterDone, IInv, TypeInv
  <2> QED BY <1>2, <2>1, <2>2 DEF SeqInv
<1>7. ASSUME NEW s \in Signers, Sign(s) PROVE SeqInv'
  <2>1. UNCHANGED <<up, nextSeq, wpc, first, batch, log>>
    BY <1>7 DEF Sign, Snapshot, Check, StoreHead, StoreHeadFails, ForceAnswer, WriteBatch
  <2> QED BY <1>3, <2>1
<1>8. ASSUME NEW n \in DOMAIN heads, GetSth(n) PROVE SeqInv'
  BY <1>3, <1>8 DEF GetSth
<1>9. ASSUME Stop, Increasing(log') PROVE SeqInv'
  BY <1>2, <1>9 DEF Stop
<1>10. CASE Crash
  BY <1>9, <1>10 DEF Crash, SeqInv
<1>11. ASSUME NEW k \in DOMAIN wal, PowerLoss(k) PROVE SeqInv'
  BY <1>9, <1>11 DEF PowerLoss, SeqInv
<1>12. CASE Start
  <2>1. \A w \in Writers : wpc'[w] # "write"
    BY <1>12 DEF Start, IInv, DownInv
  <2>2. Increasing(log') /\ Below(log', nextSeq')
    BY <1>12, NextSeqBeyond DEF Start, SeqInv, IInv, TypeInv
  <2> QED BY <1>2, <2>1, <2>2
<1>13. CASE UNCHANGED vars
  BY <1>3, <1>13 DEF vars
<1> QED
  BY <1>4, <1>5, <1>6, <1>7, <1>8, <1>10, <1>11, <1>12, <1>13, Zenon DEF Next, Halt, Write

\* Stored entries have increasing sequence numbers below next_seq (DbInner.next_seq,
\* LogStore::append and append_batch, Db::open), for any writers, failing writes,
\* crashes and power losses: no number is given to two stored entries.
THEOREM SequenceNumbersIncrease == Spec => []SeqsIncrease
<1>1. Init => SeqInv
  BY DEF Init, SeqInv, Increasing, Below
<1>2. SeqInv => SeqsIncrease
  BY DEF SeqInv, SeqsIncrease, Increasing, Below
<1> QED BY <1>1, <1>2, SeqStep, InvHolds, PTL DEF Spec

-----------------------------------------------------------------------------
(* Sequence numbers and leaf indexes.                                      *)

\* Db::open continues a log without gaps at its length.
LEMMA NextSeqIndexed ==
  ASSUME NEW l \in Seq(Record), Indexed(l)
  PROVE  NextSeqOf(l) = Len(l)
<1>1. CASE l = <<>>
  BY <1>1 DEF NextSeqOf
<1>2. CASE l # <<>>
  <2>1. Len(l) \in 1..Len(l)
    BY <1>2
  <2> QED BY <1>2, <2>1 DEF NextSeqOf, Indexed
<1> QED BY <1>1, <1>2

\* Without a failed write no step leaves a gap in the sequence numbers.
LEMMA GapStep == IInv /\ GapInv /\ [Next]_vars => GapInv'
<1> SUFFICES ASSUME IInv, GapInv, [Next]_vars, failures' = 0 PROVE GapInv'
  BY DEF GapInv
<1> USE DEF writer, signer, database, client, faults
<1>1. failures = 0
  <2>1. failures' = failures \/ failures' = failures + 1
    BY Zenon DEF Next, Halt, Write, Sign, Reserve, Commit, CommitFails, Extend, Reply, Snapshot,
           Check, StoreHead, StoreHeadFails, ForceAnswer, GetSth, Crash, PowerLoss, Start, vars
  <2> QED BY <2>1 DEF IInv, TypeInv
<1>2. \A k \in 1..Len(wal') : Indexed(wal'[k].log)
  <2> SUFFICES ASSUME NEW k \in 1..Len(wal') PROVE Indexed(wal'[k].log)
    OBVIOUS
  <2>1. CASE wal'[k] = [log |-> log, heads |-> heads]
    <3>1. wal'[k].log = log
      BY <2>1
    <3> QED BY <1>1, <3>1 DEF GapInv
  <2>2. CASE \E j \in 1..Len(wal) : wal'[k] = wal[j]
    BY <1>1, <2>2 DEF GapInv
  <2> QED BY <2>1, <2>2, WalStep DEF IInv
<1>3. ASSUME Indexed(log'),
             \A w \in Writers : wpc'[w] = "write" =>
               first'[w] = Len(log') /\ nextSeq' = Len(log') + Len(batch'[w]),
             (up' /\ \A w \in Writers : wpc'[w] # "write") => nextSeq' = Len(log')
      PROVE  GapInv'
  BY <1>2, <1>3, Zenon DEF GapInv, Indexed
<1>4. ASSUME UNCHANGED <<up, nextSeq, wpc, first, batch, log>> PROVE GapInv'
  BY <1>1, <1>3, <1>4 DEF GapInv
<1>5. ASSUME NEW w \in Writers, NEW b \in Batches, Reserve(w, b) PROVE GapInv'
  <2>1. nextSeq = Len(log) /\ Indexed(log)
    BY <1>1, <1>5, FreeLock DEF Reserve, GapInv, IInv
  <2>2. \A v \in Writers : wpc'[v] = "write" => v = w
    BY <1>5, FreeLock DEF Reserve, IInv, TypeInv
  <2>3. /\ first'[w] = nextSeq /\ batch'[w] = b /\ nextSeq' = nextSeq + Len(b)
        /\ log' = log /\ wpc'[w] = "write"
    BY <1>5 DEF Reserve, IInv, TypeInv
  <2> QED BY <1>3, <2>1, <2>2, <2>3
<1>6. ASSUME NEW w \in Writers, Commit(w) PROVE GapInv'
  <2>1. log' = log \o Records(first[w], batch[w]) /\ nextSeq' = nextSeq
    BY <1>6, CommitLeaves, Zenon DEF IInv, Commit
  <2>2. first[w] = Len(log) /\ nextSeq = Len(log) + Len(batch[w]) /\ Indexed(log)
    BY <1>1, <1>6 DEF Commit, GapInv
  <2>3. log \in Seq(Record) /\ first[w] \in Nat /\ batch[w] \in Seq(Data)
    BY DEF IInv, TypeInv
  <2>4. /\ Len(log') = Len(log) + Len(batch[w]) /\ Len(log) \in Nat /\ Len(batch[w]) \in Nat
        /\ \A i \in 1..(Len(log) + Len(batch[w])) :
             log'[i].seq = IF i <= Len(log) THEN log[i].seq ELSE first[w] + i - Len(log) - 1
    BY <2>1, <2>3, AppendedSeq, Zenon
  <2>5. Indexed(log')
    BY <2>2, <2>4 DEF Indexed
  <2>6. \A v \in Writers : wpc'[v] # "write"
    BY <1>6, OneHolder DEF Commit, IInv, TypeInv
  <2> QED BY <1>3, <2>1, <2>2, <2>4, <2>5, <2>6, Zenon
<1>7. ASSUME NEW w \in Writers, CommitFails(w) PROVE FALSE
  BY <1>1, <1>7 DEF CommitFails
<1>8. ASSUME NEW w \in Writers, Extend(w) \/ Reply(w) PROVE GapInv'
  <2>1. UNCHANGED <<up, nextSeq, log>>
    BY <1>8 DEF Extend, Reply
  <2>2. \A v \in Writers : wpc'[v] = "write" =>
          wpc[v] = "write" /\ first'[v] = first[v] /\ batch'[v] = batch[v]
    BY <1>8 DEF Extend, Reply, WriterDone, IInv, TypeInv
  <2>3. \A v \in Writers : wpc[v] = "write" => wpc'[v] = "write"
    BY <1>8 DEF Extend, Reply, WriterDone, IInv, TypeInv
  <2> QED BY <1>1, <1>3, <2>1, <2>2, <2>3, Zenon DEF GapInv
<1>9. ASSUME NEW s \in Signers, Sign(s) PROVE GapInv'
  <2>1. UNCHANGED <<up, nextSeq, wpc, first, batch, log>>
    BY <1>9 DEF Sign, Snapshot, Check, StoreHead, StoreHeadFails, ForceAnswer, WriteBatch
  <2> QED BY <1>4, <2>1
<1>10. ASSUME NEW n \in DOMAIN heads, GetSth(n) PROVE GapInv'
  BY <1>4, <1>10 DEF GetSth
<1>11. ASSUME Stop, Indexed(log') PROVE GapInv'
  BY <1>3, <1>11 DEF Stop
<1>12. CASE Crash
  BY <1>1, <1>11, <1>12 DEF Crash, GapInv
<1>13. ASSUME NEW k \in DOMAIN wal, PowerLoss(k) PROVE GapInv'
  BY <1>1, <1>11, <1>13, Zenon DEF PowerLoss, GapInv
<1>14. CASE Start
  <2>1. \A w \in Writers : wpc'[w] # "write"
    BY <1>14 DEF Start, IInv, DownInv
  <2>2. Indexed(log') /\ nextSeq' = Len(log')
    BY <1>1, <1>14, NextSeqIndexed DEF Start, GapInv, IInv, TypeInv
  <2> QED BY <1>3, <2>1, <2>2
<1>15. CASE UNCHANGED vars
  BY <1>4, <1>15 DEF vars
<1> QED
  BY <1>5, <1>6, <1>7, <1>8, <1>9, <1>10, <1>12, <1>13, <1>14, <1>15, Zenon
     DEF Next, Halt, Write

\* While no database write has failed, the sequence number of every entry is its
\* leaf index, which InclusionProof takes for granted, through crashes between the
\* reservation and the write, power losses and restarts.
THEOREM SequenceNumbersAreIndexes == Spec => []SeqIsLeafIndex
<1>1. Init => GapInv
  BY DEF Init, GapInv, Indexed
<1>2. GapInv => SeqIsLeafIndex
  BY DEF GapInv, SeqIsLeafIndex, Indexed
<1> QED BY <1>1, <1>2, GapStep, InvHolds, PTL DEF Spec

-----------------------------------------------------------------------------
(* Acknowledged entries.                                                   *)

\* Power losses are only counted up.
LEMMA LossesStep ==
  ASSUME IInv, [Next]_vars, losses' = 0
  PROVE  losses = 0 /\ \A k \in DOMAIN wal : ~PowerLoss(k)
<1> USE DEF writer, signer, database, client, faults
<1>1. losses' = losses \/ losses' = losses + 1
  BY Zenon DEF Next, Halt, Write, Sign, Reserve, Commit, CommitFails, Extend, Reply, Snapshot,
         Check, StoreHead, StoreHeadFails, ForceAnswer, GetSth, Crash, PowerLoss, Start, vars
<1>2. losses = 0
  BY <1>1 DEF IInv, TypeInv
<1> QED BY <1>2 DEF PowerLoss

\* Without a power loss an entry on its way to a client, or there, stays in the log.
LEMMA AckStep == IInv /\ AckInv /\ [Next]_vars => AckInv'
<1> SUFFICES ASSUME IInv, AckInv, [Next]_vars, losses' = 0 PROVE AckInv'
  BY Zenon DEF AckInv
<1> USE DEF writer, signer, database, client, faults
<1>1. losses = 0 /\ \A k \in DOMAIN wal : ~PowerLoss(k)
  BY LossesStep
<1>2. log \in Seq(Record)
  BY DEF IInv, TypeInv
<1>3. ASSUME NEW x, In(x, log) PROVE In(x, log')
  <2>1. ASSUME NEW w \in Writers, Commit(w) PROVE In(x, log')
    BY <1>2, <1>3, <2>1, CommitLeaves, InGrows, Zenon DEF IInv
  <2>2. ASSUME NEW s \in Signers, StoreHead(s) PROVE In(x, log')
    BY <1>3, <2>2 DEF StoreHead, WriteBatch
  <2> QED BY <1>1, <1>3, <2>1, <2>2, DatabaseStep
<1> DEFINE Settled(w) == \A i \in 1..Len(batch[w]) : In(Records(first[w], batch[w])[i], log)
<1>4. \A w \in Writers : wpc[w] \in {"merkle", "reply"} => Settled(w)
  BY <1>1 DEF AckInv
<1>5. \A a \in acked : In(a, log)
  BY <1>1 DEF AckInv
<1>6. ASSUME \A a \in acked' : In(a, log'),
             \A w \in Writers : wpc'[w] \in {"merkle", "reply"} =>
               \A i \in 1..Len(batch'[w]) : In(Records(first'[w], batch'[w])[i], log')
      PROVE  AckInv'
  BY <1>6, Zenon DEF AckInv, In, Records
<1>7. ASSUME NEW w \in Writers, first'[w] = first[w], batch'[w] = batch[w],
             wpc[w] \in {"merkle", "reply"}
      PROVE  \A i \in 1..Len(batch'[w]) : In(Records(first'[w], batch'[w])[i], log')
  BY <1>3, <1>4, <1>7
<1>8. ASSUME acked' = acked, UNCHANGED <<wpc, first, batch>> PROVE AckInv'
  <2>1. \A a \in acked' : In(a, log')
    BY <1>3, <1>5, <1>8
  <2> QED BY <1>6, <1>7, <1>8, <2>1
<1>9. ASSUME NEW w \in Writers, NEW b \in Batches, Reserve(w, b) PROVE AckInv'
  <2>1. /\ acked' = acked
        /\ \A v \in Writers : wpc'[v] \in {"merkle", "reply"} =>
             wpc[v] \in {"merkle", "reply"} /\ first'[v] = first[v] /\ batch'[v] = batch[v]
    BY <1>9 DEF Reserve, IInv, TypeInv
  <2> QED BY <1>3, <1>5, <1>6, <1>7, <2>1
<1>10. ASSUME NEW w \in Writers, Commit(w) PROVE AckInv'
  <2>1. /\ acked' = acked /\ first' = first /\ batch' = batch
        /\ \A v \in Writers \ {w} : wpc'[v] = wpc[v]
    BY <1>10 DEF Commit, IInv, TypeInv
  <2>2. /\ log' = log \o Records(first[w], batch[w])
        /\ Records(first[w], batch[w]) \in Seq(Record)
        /\ Len(Records(first[w], batch[w])) = Len(batch[w])
    BY <1>10, CommitLeaves, RecordsType, Zenon DEF IInv, TypeInv
  <2>3. \A i \in 1..Len(batch[w]) : In(Records(first[w], batch[w])[i], log')
    BY <1>2, <2>2, InAppended
  <2>4. \A v \in Writers : wpc'[v] \in {"merkle", "reply"} =>
          \A i \in 1..Len(batch'[v]) : In(Records(first'[v], batch'[v])[i], log')
    BY <1>7, <2>1, <2>3
  <2> QED BY <1>3, <1>5, <1>6, <2>1, <2>4
<1>11. ASSUME NEW w \in Writers, CommitFails(w) \/ Extend(w) PROVE AckInv'
  <2>1. /\ acked' = acked
        /\ \A v \in Writers : wpc'[v] \in {"merkle", "reply"} =>
             wpc[v] \in {"merkle", "reply"} /\ first'[v] = first[v] /\ batch'[v] = batch[v]
    BY <1>11 DEF CommitFails, Extend, WriterDone, IInv, TypeInv
  <2> QED BY <1>3, <1>5, <1>6, <1>7, <2>1
<1>12. ASSUME NEW w \in Writers, Reply(w) PROVE AckInv'
  <2>1. acked' = acked \cup {Records(first[w], batch[w])[i] : i \in 1..Len(batch[w])}
    BY <1>12 DEF Reply
  <2>2. Settled(w)
    BY <1>4, <1>12 DEF Reply
  <2>3. \A a \in acked' : In(a, log')
    BY <1>3, <1>5, <2>1, <2>2
  <2>4. \A v \in Writers : wpc'[v] \in {"merkle", "reply"} =>
          wpc[v] \in {"merkle", "reply"} /\ first'[v] = first[v] /\ batch'[v] = batch[v]
    BY <1>12 DEF Reply, WriterDone, IInv, TypeInv
  <2> QED BY <1>6, <1>7, <2>3, <2>4
<1>13. ASSUME NEW s \in Signers, Sign(s) PROVE AckInv'
  <2>1. acked' = acked /\ UNCHANGED <<wpc, first, batch>>
    BY <1>13 DEF Sign, Snapshot, Check, StoreHead, StoreHeadFails, ForceAnswer
  <2> QED BY <1>8, <2>1
<1>14. ASSUME NEW n \in DOMAIN heads, GetSth(n) PROVE AckInv'
  BY <1>8, <1>14 DEF GetSth
<1>15. CASE Crash
  <2>1. acked' = acked /\ \A w \in Writers : wpc'[w] = "idle"
    BY <1>15 DEF Crash, Stop
  <2> QED BY <1>3, <1>5, <1>6, <2>1
<1>16. CASE Start
  BY <1>8, <1>16 DEF Start
<1>17. CASE UNCHANGED vars
  BY <1>8, <1>17 DEF vars
<1> QED
  BY <1>1, <1>9, <1>10, <1>11, <1>12, <1>13, <1>14, <1>15, <1>16, <1>17, Zenon
     DEF Next, Halt, Write

\* An entry acknowledged by Append or BatchAppend is in the log, with its payload
\* and under its sequence number, through any crash, restart and failing write;
\* only a power loss takes it away (WriteOptions without sync).
THEOREM AcknowledgedIsStored == Spec => []AckedIsStored
<1>1. Init => AckInv
  BY DEF Init, AckInv
<1>2. AckInv => AckedIsStored
  BY DEF AckInv, AckedIsStored, In
<1> QED BY <1>1, <1>2, AckStep, InvHolds, PTL DEF Spec

-----------------------------------------------------------------------------
(* The answers of force_sth.                                               *)

\* sign_and_store returns Ok only when a tree head of the size it found is stored,
\* and no step but a power loss, which ends the call, withdraws it.
LEMMA ForceStep == IInv /\ ForceInv /\ [Next]_vars => ForceInv'
<1> DEFINE Stored(t) == \E n \in DOMAIN heads' : Len(snap'[t]) <= n
<1> SUFFICES ASSUME IInv, ForceInv, [Next]_vars,
                    NEW t \in Signers, spc'[t] = "answer", snap'[t] # <<>>
             PROVE  Stored(t)
  BY Zenon DEF ForceInv
<1> USE DEF writer, signer, database, client, faults
<1>1. ~Stop
  BY DEF Stop
<1>2. ~Crash /\ \A k \in DOMAIN wal : ~PowerLoss(k)
  BY <1>1 DEF Crash, PowerLoss
<1>3. /\ losses' = losses
      /\ \A n \in DOMAIN heads : n \in DOMAIN heads' /\ heads'[n] = heads[n]
  <2>1. losses' = losses
    BY <1>2, Zenon DEF Next, Halt, Write, Sign, Reserve, Commit, CommitFails, Extend, Reply,
         Snapshot, Check, StoreHead, StoreHeadFails, ForceAnswer, GetSth, Start, vars
  <2> QED BY <2>1, AppendOnlyStep, Zenon
<1>4. ASSUME spc'[t] = spc[t], snap'[t] = snap[t] PROVE Stored(t)
  BY <1>3, <1>4, Zenon DEF ForceInv
<1>5. ASSUME NEW s \in Signers, Sign(s), t # s PROVE Stored(t)
  <2>1. spc'[t] = spc[t] /\ snap'[t] = snap[t]
    BY <1>5 DEF Sign, Snapshot, Check, StoreHead, StoreHeadFails, ForceAnswer, Signed, SignerDone,
       IInv, TypeInv
  <2> QED BY <1>4, <2>1
<1>6. CASE Snapshot(t)
  <2>1. snap'[t] = snap[t] /\ snap[t] = <<>>
    BY <1>6 DEF Snapshot, Signed, SignerDone, IInv, TypeInv, SnapInv
  <2> QED BY <2>1
<1>7. CASE Check(t)
  <2>1. Signed(t) /\ DOMAIN heads # {} /\ LatestSize(heads) = Len(snap[t])
    BY <1>7 DEF Check, AlreadySigned, IInv, TypeInv
  <2>2. snap' = snap
    BY <2>1 DEF Signed, SignerDone, IInv, TypeInv
  <2>3. LatestSize(heads) \in DOMAIN heads
    BY <2>1, LatestIs, Zenon DEF IInv, TypeInv, HeadsArePrefixes
  <2>4. Len(snap'[t]) \in DOMAIN heads' /\ Len(snap'[t]) \in Nat
    BY <1>3, <2>1, <2>2, <2>3 DEF IInv, TypeInv
  <2> QED BY <2>4
<1>8. CASE StoreHead(t)
  <2>1. Signed(t) /\ heads' = PutHead(heads, Len(snap[t]), snap[t])
    BY <1>8 DEF StoreHead, WriteBatch
  <2>2. snap' = snap
    BY <2>1 DEF Signed, SignerDone, IInv, TypeInv
  <2>3. Len(snap[t]) \in DOMAIN heads' /\ Len(snap[t]) \in Nat
    BY <2>1 DEF PutHead, IInv, TypeInv
  <2> QED BY <2>2, <2>3
<1>9. ~StoreHeadFails(t) /\ ~ForceAnswer(t)
  BY DEF StoreHeadFails, ForceAnswer, SignerDone, IInv, TypeInv
<1>10. ASSUME UNCHANGED <<spc, snap>> PROVE Stored(t)
  BY <1>4, <1>10
<1>11. (\E w \in Writers : Write(w)) \/ (\E n \in DOMAIN heads : GetSth(n)) \/ Start \/ UNCHANGED vars
         => UNCHANGED <<spc, snap>>
  BY DEF Write, Reserve, Commit, CommitFails, Extend, Reply, GetSth, Start, vars
<1>12. ASSUME NEW s \in Signers, Sign(s) PROVE Stored(t)
  BY <1>5, <1>6, <1>7, <1>8, <1>9, <1>12, Zenon DEF Sign
<1> HIDE DEF Stored
<1> QED BY <1>2, <1>10, <1>11, <1>12, Zenon DEF Next, Halt

\* Of two prefixes of a log the shorter is a prefix of the longer.
LEMMA PrefixOfPrefix ==
  ASSUME NEW S, NEW t \in Seq(S), NEW n \in 0..Len(t), NEW s \in Seq(S),
         IsPrefixOf(s, t), Len(s) <= n
  PROVE  IsPrefixOf(s, Prefix(t, n))
<1>1. Prefix(t, n) \in Seq(S) /\ Len(Prefix(t, n)) = n
  BY PrefixType
<1>2. s = Prefix(t, Len(s)) /\ Len(s) \in 0..n
  BY DEF IsPrefixOf
<1>3. Prefix(Prefix(t, n), Len(s)) = Prefix(t, Len(s))
  BY <1>1, <1>2 DEF Prefix
<1> QED BY <1>1, <1>2, <1>3 DEF IsPrefixOf

\* The step in which force_sth answers hands out a head that extends its snapshot.
LEMMA AnswerStep ==
  ASSUME IInv, ForceInv, [Next]_vars, NEW s \in Signers, spc[s] = "answer",
         spc'[s] = "idle", up'
  PROVE  IsPrefixOf(snap[s], trusted')
<1> USE DEF writer, signer, database, client, faults
<1>1. ForceAnswer(s)
  <2>1. ASSUME NEW r \in Signers, Sign(r), r # s PROVE FALSE
    BY <2>1 DEF Sign, Snapshot, Check, StoreHead, StoreHeadFails, ForceAnswer, Signed, SignerDone,
       IInv, TypeInv
  <2>2. ~Snapshot(s) /\ ~Check(s) /\ ~StoreHead(s) /\ ~StoreHeadFails(s)
    BY DEF Snapshot, Check, StoreHead, StoreHeadFails
  <2>3. (\E w \in Writers : Write(w)) \/ (\E n \in DOMAIN heads : GetSth(n)) \/ Start \/ UNCHANGED vars
          => UNCHANGED spc
    BY DEF Write, Reserve, Commit, CommitFails, Extend, Reply, GetSth, Start, vars
  <2>4. ~Crash /\ \A k \in DOMAIN wal : ~PowerLoss(k)
    BY DEF Crash, PowerLoss, Stop
  <2>5. spc'[s] # spc[s]
    OBVIOUS
  <2> QED BY <2>1, <2>2, <2>3, <2>4, <2>5, Zenon DEF Next, Halt, Sign
<1>2. /\ snap[s] \in Seq(Data) /\ IsPrefixOf(snap[s], Leaves(log)) /\ log \in Seq(Record)
      /\ trusted \in Seq(Data) /\ Commits(log, heads)
  BY DEF IInv, TypeInv, SnapInv, HeadsArePrefixes
<1>3. CASE snap[s] = <<>>
  <2>1. trusted' \in Seq(Data)
    BY InvStep DEF IInv, TypeInv
  <2> QED BY <1>3, <2>1 DEF IsPrefixOf, Prefix
<1>4. CASE snap[s] # <<>>
  <2> DEFINE n == LatestSize(heads)
  <2>1. PICK m \in DOMAIN heads : Len(snap[s]) <= m
    BY <1>4 DEF ForceInv
  <2>2. n \in DOMAIN heads /\ m <= n
    BY <1>2, <2>1, LatestIs, Zenon
  <2>3. trusted' = heads[n]
    BY <1>1, <2>1, Zenon DEF ForceAnswer
  <2>4. n \in 1..Len(log) /\ m \in 1..Len(log) /\ heads[n] = Prefix(Leaves(log), n)
    BY <1>2, <2>1, <2>2, Zenon DEF Commits
  <2>5. Leaves(log) \in Seq(Data) /\ Len(Leaves(log)) = Len(log)
    BY <1>2, LeavesType
  <2> HIDE DEF n
  <2>6. n \in 0..Len(Leaves(log)) /\ Len(snap[s]) <= n
    BY <1>2, <2>1, <2>2, <2>4, <2>5
  <2>7. IsPrefixOf(snap[s], Prefix(Leaves(log), n))
    BY <1>2, <2>5, <2>6, PrefixOfPrefix
  <2> QED BY <2>3, <2>4, <2>7
<1> QED BY <1>3, <1>4

\* The tree head a call of force_sth returns covers the log the call found, for any
\* number of concurrent calls and appends beside the STH task, with failing writes,
\* crashes and power losses: what was signed meanwhile may be larger, or smaller and
\* stored late, but the answer is never behind the caller's own snapshot.
THEOREM ForcedHeads == Spec => ForcedHeadCovers
<1>1. Init => ForceInv
  BY DEF Init, ForceInv
<1>2. IInv /\ ForceInv /\ [Next]_vars =>
        [ \A s \in Signers :
            (spc[s] = "answer" /\ spc'[s] = "idle" /\ up') => IsPrefixOf(snap[s], trusted') ]_vars
  BY AnswerStep, Zenon
<1> QED BY <1>1, <1>2, ForceStep, InvHolds, PTL DEF Spec, ForcedHeadCovers

-----------------------------------------------------------------------------
(* The server implements TransparencyLog.                                  *)

\* A handler that is writing has a nonempty request.
LEMMA BatchStep == IInv /\ BatchInv /\ [Next]_vars => BatchInv'
<1> SUFFICES ASSUME IInv, BatchInv, [Next]_vars PROVE BatchInv'
  OBVIOUS
<1> USE DEF writer, signer, database, client, faults
<1>1. ASSUME NEW w \in Writers, NEW b \in Batches, Reserve(w, b) PROVE BatchInv'
  <2>1. b # <<>>
    BY BatchesType
  <2>2. /\ wpc' = [wpc EXCEPT ![w] = "write"]
        /\ batch' = [batch EXCEPT ![w] = b]
    BY <1>1 DEF Reserve
  <2> QED BY <2>1, <2>2 DEF BatchInv, IInv, TypeInv
<1>2. ASSUME NEW w \in Writers, Commit(w) \/ Extend(w) PROVE BatchInv'
  BY <1>2 DEF Commit, Extend, BatchInv, IInv, TypeInv
<1>3. ASSUME NEW w \in Writers, CommitFails(w) \/ Reply(w) PROVE BatchInv'
  BY <1>3 DEF CommitFails, Reply, WriterDone, BatchInv, IInv, TypeInv
<1>4. ASSUME NEW s \in Signers, Sign(s) PROVE BatchInv'
  <2>1. UNCHANGED <<wpc, batch>>
    BY <1>4 DEF Sign, Snapshot, Check, StoreHead, StoreHeadFails, ForceAnswer
  <2> QED BY <2>1 DEF BatchInv
<1>5. ASSUME NEW n \in DOMAIN heads, GetSth(n) PROVE BatchInv'
  BY <1>5 DEF GetSth, BatchInv
<1>6. ASSUME Stop PROVE BatchInv'
  BY <1>6 DEF Stop, BatchInv
<1>7. Start \/ UNCHANGED vars => BatchInv'
  BY DEF Start, vars, BatchInv
<1>8. Crash \/ (\E k \in DOMAIN wal : PowerLoss(k)) => Stop
  BY DEF Crash, PowerLoss
<1> QED
  BY <1>1, <1>2, <1>3, <1>4, <1>5, <1>6, <1>7, <1>8, Zenon DEF Next, Halt, Write

\* A commit is a growth of the abstract log.
LEMMA CommitGrows ==
  ASSUME IInv, SeqInv, BatchInv, [Next]_vars, NEW w \in Writers, Commit(w)
  PROVE  Abstract!Grow
<1> DEFINE r == Records(first[w], batch[w])
<1>1. /\ r \in Seq(Record) /\ log' = log \o r /\ log \in Seq(Record)
      /\ Len(r) = Len(batch[w]) /\ batch[w] \in Seq(Data)
  BY CommitLeaves, RecordsType, Zenon DEF IInv, TypeInv
<1>2. batch[w] # <<>>
  BY DEF Commit, BatchInv
<1> HIDE DEF r
<1>3. Len(r) > 0 /\ Len(log') = Len(log) + Len(r) /\ Len(log) \in Nat /\ Len(r) \in Nat
  <2>1. Len(batch[w]) \in Nat /\ Len(batch[w]) # 0
    BY <1>1, <1>2
  <2>2. Len(log \o r) = Len(log) + Len(r) /\ Len(log) \in Nat
    BY <1>1
  <2> QED BY <1>1, <2>1, <2>2
<1>4. log' # log
  BY <1>3
<1>5. Abstract!Begins(log, log')
  BY <1>1 DEF Abstract!Begins
<1>6. log' \in Seq(Record) /\ Increasing(log')
  BY <1>1, SeqStep DEF SeqInv
<1>7. ASSUME NEW i \in (Len(log) + 1)..Len(log')
      PROVE  /\ log'[i] \in [seq : Nat, leaf : Data]
             /\ i > 1 => log'[i].seq > log'[i - 1].seq
  <2>1. i \in 1..Len(log')
    BY <1>3
  <2>2. log'[i] \in [seq : Nat, leaf : Data]
    <3>1. log'[i] \in Record
      BY <1>6, <2>1
    <3> QED BY <3>1, Zenon DEF Record
  <2>3. ASSUME i > 1 PROVE log'[i].seq > log'[i - 1].seq
    <3>1. i - 1 \in 1..Len(log') /\ i - 1 < i
      BY <1>3, <2>3
    <3>2. log'[i - 1] \in Record /\ log'[i] \in Record
      BY <1>6, <2>1, <3>1
    <3>3. log'[i - 1].seq \in Nat /\ log'[i].seq \in Nat
      BY <3>2 DEF Record
    <3>4. log'[i - 1].seq < log'[i].seq
      BY <1>6, <2>1, <3>1 DEF Increasing
    <3> QED BY <3>3, <3>4
  <2> QED BY <2>2, <2>3
<1>8. heads' = heads /\ acked' = acked /\ trusted' = trusted
  BY DEF Commit, WriteBatch, client
<1> QED BY <1>4, <1>5, <1>7, <1>8 DEF Abstract!Grow

\* A stored tree head is the publication of a prefix, also when the same size is
\* signed again.
LEMMA StoreHeadPublishes ==
  ASSUME IInv, NEW s \in Signers, StoreHead(s)
  PROVE  Abstract!Publish
<1> DEFINE n == Len(snap[s])
           roots == {heads[m] : m \in DOMAIN heads}
<1>1. spc[s] = "write"
  BY DEF StoreHead
<1>2. snap[s] \in Seq(Data) /\ snap[s] # <<>> /\ IsPrefixOf(snap[s], Leaves(log))
  BY <1>1 DEF IInv, SnapInv, TypeInv
<1>3. n \in 1..Len(log) /\ snap[s] = Prefix(Leaves(log), n)
  BY <1>2, LeavesType DEF IsPrefixOf, IInv, TypeInv
<1>4. n \in Nat /\ heads \in HeadMap
  BY <1>2 DEF IInv, TypeInv
<1>5. heads' = PutHead(heads, n, snap[s]) /\ log' = log /\ acked' = acked /\ trusted' = trusted
  BY DEF StoreHead, WriteBatch, client
<1> HIDE DEF n
<1>6. /\ DOMAIN heads' = DOMAIN heads \cup {n}
      /\ \A m \in DOMAIN heads \cup {n} : heads'[m] = IF m = n THEN snap[s] ELSE heads[m]
  <2>1. /\ DOMAIN PutHead(heads, n, snap[s]) = DOMAIN heads \cup {n}
        /\ \A m \in DOMAIN heads \cup {n} :
             PutHead(heads, n, snap[s])[m] = IF m = n THEN snap[s] ELSE heads[m]
    BY <1>2, <1>4, PutHeadType, ZenonT(30)
  <2> QED BY <1>5, <2>1, Zenon
<1>7. n \in DOMAIN heads => heads[n] = snap[s]
  BY <1>3 DEF IInv, HeadsArePrefixes, Commits
<1>8. {heads'[m] : m \in DOMAIN heads'} = roots \cup {snap[s]}
  <2>1. ASSUME NEW m \in DOMAIN heads' PROVE heads'[m] \in roots \cup {snap[s]}
    BY <1>4, <1>6
  <2>2. ASSUME NEW m \in DOMAIN heads PROVE m \in DOMAIN heads' /\ heads'[m] = heads[m]
    BY <1>4, <1>6, <1>7
  <2>3. n \in DOMAIN heads' /\ heads'[n] = snap[s]
    BY <1>4, <1>6
  <2> QED BY <2>1, <2>2, <2>3
<1>9. snap[s] = SubSeq(Abstract!LeavesOf(log), 1, n)
  BY <1>3 DEF Prefix, Leaves, Abstract!LeavesOf
<1> QED BY <1>3, <1>5, <1>8, <1>9 DEF Abstract!Publish

\* Without power losses every step of the server is one of TransparencyLog, or
\* changes nothing a client of the log can see.
LEMMA AbstractStep ==
  ASSUME IInv, SeqInv, AckInv, BatchInv, losses = 0, MaxLosses = 0, [Next]_vars
  PROVE  [Abstract!TNext]_(Abstract!tvars) /\ losses' = 0
<1> USE DEF writer, signer, database, client, faults
<1>1. \A k \in DOMAIN wal : ~PowerLoss(k)
  BY DEF PowerLoss
<1>2. losses' = 0
  BY <1>1, Zenon DEF Next, Halt, Write, Sign, Reserve, Commit, CommitFails, Extend, Reply, Snapshot,
              Check, StoreHead, StoreHeadFails, ForceAnswer, GetSth, Crash, Start, vars
<1>3. ASSUME UNCHANGED <<log, acked, heads, trusted>> PROVE UNCHANGED (Abstract!tvars)
  BY <1>3 DEF Abstract!tvars
<1>4. ASSUME NEW w \in Writers, Write(w), ~Commit(w), ~Reply(w)
      PROVE  UNCHANGED <<log, acked, heads, trusted>>
  BY <1>4 DEF Write, Reserve, CommitFails, Extend
<1>5. ASSUME NEW w \in Writers, Commit(w) PROVE Abstract!TNext
  BY <1>5, CommitGrows DEF Abstract!TNext
<1>6. ASSUME NEW w \in Writers, Reply(w) PROVE Abstract!TNext
  <2>1. acked \subseteq acked' /\ log' = log /\ heads' = heads /\ trusted' = trusted
    BY <1>6, Zenon DEF Reply
  <2>2. \A a \in acked' : \E i \in 1..Len(log) : log[i] = a
    BY <1>2, <2>1, AckStep, Zenon DEF AckInv, In
  <2>3. Abstract!Acknowledge
    BY <2>1, <2>2 DEF Abstract!Acknowledge
  <2> QED BY <2>3 DEF Abstract!TNext
<1>7. ASSUME NEW s \in Signers, Sign(s), ~StoreHead(s), ~ForceAnswer(s)
      PROVE  UNCHANGED <<log, acked, heads, trusted>>
  BY <1>7 DEF Sign, Snapshot, Check, StoreHeadFails
<1>8. ASSUME NEW s \in Signers, StoreHead(s) PROVE Abstract!TNext
  BY <1>8, StoreHeadPublishes DEF Abstract!TNext
<1>9. ASSUME NEW n \in DOMAIN heads, GetSth(n) PROVE Abstract!TNext
  <2>1. trusted' = heads[n] /\ log' = log /\ heads' = heads /\ acked' = acked
    BY <1>9 DEF GetSth
  <2>2. Abstract!Obtain
    BY <2>1 DEF Abstract!Obtain
  <2> QED BY <2>2 DEF Abstract!TNext
<1>10. Crash \/ Start \/ UNCHANGED vars => UNCHANGED <<log, acked, heads, trusted>>
  BY DEF Crash, Stop, Start, vars
<1>11. ASSUME NEW s \in Signers, ForceAnswer(s)
      PROVE  Abstract!TNext \/ UNCHANGED <<log, acked, heads, trusted>>
  <2>1. log' = log /\ heads' = heads /\ acked' = acked
    BY <1>11 DEF ForceAnswer
  <2>2. CASE DOMAIN heads = {}
    BY <1>11, <2>1, <2>2 DEF ForceAnswer
  <2>3. CASE DOMAIN heads # {}
    <3>1. trusted' = heads[LatestSize(heads)]
      BY <1>11, <2>3, Zenon DEF ForceAnswer
    <3>2. LatestSize(heads) \in DOMAIN heads
      BY <2>3, LatestIs, Zenon DEF IInv, TypeInv, HeadsArePrefixes
    <3>3. Abstract!Obtain
      BY <2>1, <3>1, <3>2, Zenon DEF Abstract!Obtain
    <3> QED BY <3>3 DEF Abstract!TNext
  <2> QED BY <2>2, <2>3
<1> QED
  BY <1>1, <1>2, <1>3, <1>4, <1>5, <1>6, <1>7, <1>8, <1>9, <1>10, <1>11 DEF Next, Halt

\* Without power losses the server, with its handlers, append_mu, failing writes,
\* crashes and restarts, implements TransparencyLog: an append-only log whose
\* receipts are for stored entries and whose tree heads are published prefixes.
THEOREM ServerImplementsLog ==
  ASSUME MaxLosses = 0
  PROVE  Spec => IsTransparencyLog
<1> DEFINE RefInv == IInv /\ SeqInv /\ AckInv /\ BatchInv /\ losses = 0
<1>1. Init => RefInv
  BY InvInit DEF Init, SeqInv, Increasing, Below, AckInv, BatchInv
<1>2. RefInv /\ [Next]_vars => RefInv' /\ [Abstract!TNext]_(Abstract!tvars)
  BY InvStep, SeqStep, AckStep, BatchStep, AbstractStep
<1>3. Init => Abstract!TInit
  BY DEF Init, NoHeads, Abstract!TInit
<1> HIDE DEF RefInv
<1> QED BY <1>1, <1>2, <1>3, PTL DEF Spec, IsTransparencyLog, Abstract!TSpec
=============================================================================
