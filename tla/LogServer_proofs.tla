-------------------------- MODULE LogServer_proofs --------------------------
(***************************************************************************)
(* Theorems about LogServer for every set of writers, signers and data and *)
(* every bound: type correctness, the agreement of the Merkle tree with    *)
(* the stored log, and that signed tree heads commit to prefixes of it,    *)
(* through interleavings, failing writes, crashes and power losses.        *)
(***************************************************************************)
EXTENDS LogServer, WellFoundedInduction, TLAPS

-----------------------------------------------------------------------------
(* The inductive invariant.                                                *)

HeadMap == UNION {[D -> Seq(Data)] : D \in SUBSET Nat}
Contents == [log : Seq(Record), heads : HeadMap]

\* TypeOK, with the stored tree heads and the WAL in sets the provers handle.
TypeInv ==
  /\ up \in BOOLEAN
  /\ nextSeq \in Nat
  /\ merkle \in Seq(Data)
  /\ mu \in Writers \cup {Free}
  /\ wpc \in [Writers -> {"idle", "write", "merkle", "reply"}]
  /\ first \in [Writers -> Nat]
  /\ batch \in [Writers -> Seq(Data)]
  /\ spc \in [Signers -> {"idle", "check", "write", "answer"}]
  /\ snap \in [Signers -> Seq(Data)]
  /\ log \in Seq(Record)
  /\ heads \in HeadMap
  /\ wal \in Seq(Contents)
  /\ acked \subseteq Record
  /\ trusted \in Seq(Data)
  /\ failures \in Nat /\ crashes \in Nat /\ losses \in Nat

\* append_mu is held exactly by the handler that is between Reserve and Extend.
LockInv == \A w \in Writers : mu = w <=> wpc[w] \in {"write", "merkle"}

\* A process that is down runs no handler.
DownInv ==
  ~up => /\ mu = Free
         /\ \A w \in Writers : wpc[w] = "idle"
         /\ \A s \in Signers : spc[s] = "idle"

\* The tree lags the log by the batch of the handler that has just committed.
TreeInv ==
  up => /\ \A w \in Writers : wpc[w] = "merkle" => Leaves(log) = merkle \o batch[w]
        /\ (\A w \in Writers : wpc[w] # "merkle") => Leaves(log) = merkle

\* What is being signed, or was and is to be answered, is a prefix of the stored
\* log, and empty only in a call that had nothing to sign.
SnapInv ==
  \A s \in Signers :
    /\ spc[s] = "idle" => snap[s] = <<>>
    /\ spc[s] # "idle" => IsPrefixOf(snap[s], Leaves(log))
    /\ spc[s] \in {"check", "write"} => snap[s] # <<>>

\* The tree heads commit to prefixes of the log in every state of the database
\* that a power loss may bring back.
WalInv == \A k \in 1..Len(wal) : Commits(wal[k].log, wal[k].heads)

IInv ==
  /\ TypeInv
  /\ LockInv
  /\ DownInv
  /\ TreeInv
  /\ SnapInv
  /\ HeadsArePrefixes
  /\ WalInv

-----------------------------------------------------------------------------
(* Lemmas on the operators.                                                *)

\* The leaves of a log are a sequence of the same length.
LEMMA LeavesType ==
  ASSUME NEW l \in Seq(Record)
  PROVE  /\ Leaves(l) \in Seq(Data)
         /\ Len(Leaves(l)) = Len(l)
         /\ \A i \in 1..Len(l) : Leaves(l)[i] = l[i].leaf
<1>1. Len(l) \in Nat /\ \A i \in 1..Len(l) : l[i] \in Record
  OBVIOUS
<1>2. \A i \in 1..Len(l) : l[i].leaf \in Data
  BY <1>1 DEF Record
<1>3. Leaves(l) \in [1..Len(l) -> Data]
  BY <1>2 DEF Leaves
<1>4. Leaves(l) \in Seq(Data) /\ Len(Leaves(l)) = Len(l)
  BY <1>1, <1>3
<1> QED BY <1>4 DEF Leaves

\* The records of a request are a sequence of records with the request's leaves.
LEMMA RecordsType ==
  ASSUME NEW f \in Nat, NEW b \in Seq(Data)
  PROVE  /\ Records(f, b) \in Seq(Record)
         /\ Len(Records(f, b)) = Len(b)
         /\ \A i \in 1..Len(b) : Records(f, b)[i] = [seq |-> f + i - 1, leaf |-> b[i]]
         /\ Leaves(Records(f, b)) = b
<1>1. Len(b) \in Nat /\ \A i \in 1..Len(b) : b[i] \in Data
  OBVIOUS
<1>2. \A i \in 1..Len(b) : f + i - 1 \in Nat
  BY <1>1
<1>3. \A i \in 1..Len(b) : [seq |-> f + i - 1, leaf |-> b[i]] \in Record
  BY <1>1, <1>2 DEF Record
<1>4. Records(f, b) \in [1..Len(b) -> Record]
  BY <1>3 DEF Records
<1>5. Records(f, b) \in Seq(Record) /\ Len(Records(f, b)) = Len(b)
  BY <1>1, <1>4
<1>6. \A i \in 1..Len(b) : Records(f, b)[i] = [seq |-> f + i - 1, leaf |-> b[i]]
  BY DEF Records
<1>7. Leaves(Records(f, b)) = b
  <2>1. ASSUME NEW i \in 1..Len(b)
        PROVE  Records(f, b)[i].leaf = b[i]
    <3>1. Records(f, b)[i] = [seq |-> f + i - 1, leaf |-> b[i]]
      BY <1>6
    <3> QED BY <3>1, SMT
  <2>2. /\ Leaves(Records(f, b)) \in Seq(Data)
        /\ Len(Leaves(Records(f, b))) = Len(b)
        /\ \A i \in 1..Len(b) : Leaves(Records(f, b))[i] = Records(f, b)[i].leaf
    BY <1>5, LeavesType
  <2> QED BY <2>1, <2>2
<1> QED BY <1>5, <1>6, <1>7

\* Every request is a nonempty sequence of leaves.
LEMMA BatchesType ==
  ASSUME NEW b \in Batches
  PROVE  b \in Seq(Data) /\ Len(b) \in Nat \ {0}
<1>1. PICK n \in 1..MaxBatch : b \in [1..n -> Data]
  BY DEF Batches
<1>2. n \in Nat \ {0}
  BY ConstantsAssumption
<1> QED BY <1>1, <1>2

\* The leaves of a longer log extend those of the shorter one.
LEMMA LeavesConcat ==
  ASSUME NEW l \in Seq(Record), NEW r \in Seq(Record)
  PROVE  Leaves(l \o r) = Leaves(l) \o Leaves(r)
<1>1. l \o r \in Seq(Record) /\ Len(l \o r) = Len(l) + Len(r)
  OBVIOUS
<1>2. Leaves(l) \o Leaves(r) \in Seq(Data) /\ Len(Leaves(l) \o Leaves(r)) = Len(l) + Len(r)
  BY LeavesType
<1>3. ASSUME NEW i \in 1..(Len(l) + Len(r))
      PROVE  Leaves(l \o r)[i] = (Leaves(l) \o Leaves(r))[i]
  <2>1. Leaves(l \o r)[i] = (l \o r)[i].leaf
    BY <1>1, LeavesType, Zenon
  <2>2. CASE i <= Len(l)
    <3>1. (l \o r)[i] = l[i] /\ i \in 1..Len(l)
      BY <2>2
    <3>2. (Leaves(l) \o Leaves(r))[i] = Leaves(l)[i]
      BY <2>2, LeavesType
    <3>3. Leaves(l)[i] = l[i].leaf
      BY <3>1, LeavesType
    <3> QED BY <2>1, <3>1, <3>2, <3>3
  <2>3. CASE i > Len(l)
    <3>1. (l \o r)[i] = r[i - Len(l)] /\ i - Len(l) \in 1..Len(r)
      BY <2>3
    <3>2. (Leaves(l) \o Leaves(r))[i] = Leaves(r)[i - Len(l)]
      BY <2>3, LeavesType
    <3>3. Leaves(r)[i - Len(l)] = r[i - Len(l)].leaf
      BY <3>1, LeavesType
    <3> QED BY <2>1, <3>1, <3>2, <3>3
  <2>4. i <= Len(l) \/ i > Len(l)
    OBVIOUS
  <2> QED BY <2>2, <2>3, <2>4, Zenon
<1>4. Leaves(l \o r) \in Seq(Data) /\ Len(Leaves(l \o r)) = Len(l) + Len(r)
  BY <1>1, LeavesType, Zenon
<1> QED BY <1>2, <1>3, <1>4

\* A prefix within the first sequence does not see the second.
LEMMA PrefixConcat ==
  ASSUME NEW S, NEW s \in Seq(S), NEW t \in Seq(S), NEW n \in 0..Len(s)
  PROVE  Prefix(s \o t, n) = Prefix(s, n)
BY DEF Prefix

\* A prefix is a sequence of its length.
LEMMA PrefixType ==
  ASSUME NEW S, NEW s \in Seq(S), NEW n \in 0..Len(s)
  PROVE  Prefix(s, n) \in Seq(S) /\ Len(Prefix(s, n)) = n
BY DEF Prefix

\* Storing a tree head gives a map of tree heads.
LEMMA PutHeadType ==
  ASSUME NEW h \in HeadMap, NEW n \in Nat, NEW root \in Seq(Data)
  PROVE  /\ PutHead(h, n, root) \in HeadMap
         /\ DOMAIN PutHead(h, n, root) = DOMAIN h \cup {n}
         /\ \A m \in DOMAIN h \cup {n} :
              PutHead(h, n, root)[m] = IF m = n THEN root ELSE h[m]
<1>1. PICK D \in SUBSET Nat : h \in [D -> Seq(Data)]
  BY DEF HeadMap
<1>2. PutHead(h, n, root) \in [D \cup {n} -> Seq(Data)]
  BY <1>1 DEF PutHead
<1>3. D \cup {n} \in SUBSET Nat
  OBVIOUS
<1> QED BY <1>1, <1>2, <1>3 DEF HeadMap, PutHead

\* A map of tree heads has natural sizes and roots that are leaf sequences.
LEMMA HeadMapElim ==
  ASSUME NEW h \in HeadMap
  PROVE  DOMAIN h \subseteq Nat /\ \A n \in DOMAIN h : h[n] \in Seq(Data)
BY Zenon DEF HeadMap

\* Tree heads keep committing to prefixes when the log grows at its end.
LEMMA CommitsGrow ==
  ASSUME NEW l \in Seq(Record), NEW r \in Seq(Record), NEW h \in HeadMap, Commits(l, h)
  PROVE  Commits(l \o r, h)
<1> SUFFICES ASSUME NEW n \in DOMAIN h
             PROVE  n \in 1..Len(l \o r) /\ h[n] = Prefix(Leaves(l \o r), n)
  BY DEF Commits
<1>1. n \in 1..Len(l) /\ h[n] = Prefix(Leaves(l), n)
  BY DEF Commits
<1>2. n \in 1..Len(l \o r)
  BY <1>1
<1>3. Prefix(Leaves(l \o r), n) = Prefix(Leaves(l), n)
  <2>1. Leaves(l) \in Seq(Data) /\ Leaves(r) \in Seq(Data) /\ n \in 0..Len(Leaves(l))
    BY <1>1, LeavesType
  <2>2. Prefix(Leaves(l) \o Leaves(r), n) = Prefix(Leaves(l), n)
    BY <2>1, PrefixConcat
  <2> QED BY <2>2, LeavesConcat, Zenon
<1> QED BY <1>1, <1>2, <1>3

\* A nonempty set of sizes up to N has a largest: the least of its upper bounds.
LEMMA LargestExists ==
  ASSUME NEW N \in Nat, NEW S, S \subseteq 0..N, S # {}
  PROVE  \E n \in S : \A m \in S : m <= n
<1> DEFINE B == {b \in Nat : \A m \in S : m <= b}
<1>1. B \subseteq Nat /\ B # {}
  <2>1. N \in B
    OBVIOUS
  <2> QED BY <2>1
<1>2. PICK b \in B : \A c \in B : ~(<<c, b>> \in OpToRel(<, Nat))
  BY <1>1, NatLessThanWellFounded, WFMin, Zenon
<1>3. b \in Nat /\ \A m \in S : m <= b
  BY <1>2
<1>4. CASE b \in S
  BY <1>3, <1>4
<1>5. CASE b \notin S
  <2>0. PICK m \in S : TRUE
    BY Zenon
  <2>1. m \in Nat
    BY <2>0
  <2>2. b # 0 /\ b - 1 \in Nat /\ b - 1 < b
    BY <1>3, <1>5, <2>1
  <2>3. \A k \in S : k <= b - 1
    BY <1>3, <1>5
  <2>4. b - 1 \in B
    BY <2>2, <2>3
  <2>5. <<b - 1, b>> \in OpToRel(<, Nat)
    BY <1>3, <2>2 DEF OpToRel
  <2> QED BY <1>2, <2>4, <2>5, Zenon
<1> QED BY <1>4, <1>5

\* HeadStore::latest finds the tree head of the largest size.
LEMMA LatestIs ==
  ASSUME NEW l \in Seq(Record), NEW h, Commits(l, h), DOMAIN h # {}
  PROVE  /\ LatestSize(h) \in DOMAIN h
         /\ \A m \in DOMAIN h : m <= LatestSize(h)
<1>1. Len(l) \in Nat /\ DOMAIN h \subseteq 0..Len(l)
  BY DEF Commits
<1>2. \E n \in DOMAIN h : \A m \in DOMAIN h : m <= n
  BY <1>1, LargestExists, Zenon
<1> QED BY <1>2, Zenon DEF LatestSize

-----------------------------------------------------------------------------
(* Type correctness.                                                       *)

\* The server starts with well-typed state.
LEMMA TypeInit == Init => TypeInv
<1> SUFFICES ASSUME Init PROVE TypeInv
  OBVIOUS
<1>1. NoHeads \in HeadMap
  <2>1. NoHeads \in [{} -> Seq(Data)]
    BY DEF NoHeads
  <2> QED BY <2>1, Zenon DEF HeadMap
<1> QED BY <1>1 DEF Init, TypeInv

\* One write of the database keeps it well-typed.
LEMMA WriteBatchType ==
  ASSUME TypeInv, NEW l \in Seq(Record), NEW h \in HeadMap, WriteBatch(l, h)
  PROVE  log' \in Seq(Record) /\ heads' \in HeadMap /\ wal' \in Seq(Contents)
<1>1. [log |-> log, heads |-> heads] \in Contents
  BY DEF TypeInv, Contents
<1>2. wal' \in Seq(Contents)
  BY <1>1 DEF WriteBatch, TypeInv
<1> QED BY <1>2 DEF WriteBatch

\* What is in memory after the process died is well-typed.
LEMMA StopType ==
  ASSUME Stop
  PROVE  /\ up' \in BOOLEAN /\ nextSeq' \in Nat /\ merkle' \in Seq(Data)
         /\ mu' \in Writers \cup {Free}
         /\ wpc' \in [Writers -> {"idle", "write", "merkle", "reply"}]
         /\ first' \in [Writers -> Nat]
         /\ batch' \in [Writers -> Seq(Data)]
         /\ spc' \in [Signers -> {"idle", "check", "write", "answer"}]
         /\ snap' \in [Signers -> Seq(Data)]
         /\ UNCHANGED <<acked, trusted>>
<1>1. <<>> \in Seq(Data)
  OBVIOUS
<1> QED BY <1>1, Zenon DEF Stop, client

\* After sign_and_store has returned the signer's state is well-typed.
LEMMA SignedType ==
  ASSUME TypeInv, NEW s \in Signers, Signed(s)
  PROVE  /\ spc' \in [Signers -> {"idle", "check", "write", "answer"}]
         /\ snap' \in [Signers -> Seq(Data)]
<1>1. <<>> \in Seq(Data)
  OBVIOUS
<1>2. CASE SignerDone(s)
  BY <1>1, <1>2 DEF TypeInv, SignerDone
<1>3. CASE spc' = [spc EXCEPT ![s] = "answer"] /\ UNCHANGED snap
  BY <1>3 DEF TypeInv
<1> QED BY <1>2, <1>3, Zenon DEF Signed

\* Every step of the server, its clients and its faults keeps the types.
LEMMA TypeStep == TypeInv /\ HeadsArePrefixes /\ [Next]_vars => TypeInv'
<1> SUFFICES ASSUME TypeInv, HeadsArePrefixes, [Next]_vars PROVE TypeInv'
  OBVIOUS
<1> USE DEF TypeInv, writer, signer, database, client, faults
<1>1. ASSUME NEW w \in Writers, NEW b \in Batches, Reserve(w, b) PROVE TypeInv'
  BY <1>1, BatchesType DEF Reserve
<1>2. ASSUME NEW w \in Writers, Commit(w) PROVE TypeInv'
  <2>1. log \o Records(first[w], batch[w]) \in Seq(Record)
    BY RecordsType
  <2>2. log' \in Seq(Record) /\ heads' \in HeadMap /\ wal' \in Seq(Contents)
    BY <1>2, <2>1, WriteBatchType, Zenon DEF Commit
  <2> QED BY <1>2, <2>2 DEF Commit
<1>3. ASSUME NEW w \in Writers, CommitFails(w) PROVE TypeInv'
  BY <1>3 DEF CommitFails, WriterDone
<1>4. ASSUME NEW w \in Writers, Extend(w) PROVE TypeInv'
  BY <1>4 DEF Extend
<1>5. ASSUME NEW w \in Writers, Reply(w) PROVE TypeInv'
  <2>1. \A i \in 1..Len(batch[w]) : Records(first[w], batch[w])[i] \in Record
    BY RecordsType
  <2>2. acked' \subseteq Record
    BY <1>5, <2>1 DEF Reply
  <2> QED BY <1>5, <2>2 DEF Reply, WriterDone
<1>6. ASSUME NEW s \in Signers, Snapshot(s) PROVE TypeInv'
  <2>1. CASE snap' = [snap EXCEPT ![s] = merkle] /\ spc' = [spc EXCEPT ![s] = "check"]
    BY <1>6, <2>1 DEF Snapshot
  <2>2. CASE Signed(s)
    BY <1>6, <2>2, SignedType DEF Snapshot
  <2> QED BY <1>6, <2>1, <2>2, Zenon DEF Snapshot
<1>7. ASSUME NEW s \in Signers, Check(s) PROVE TypeInv'
  <2>1. CASE Signed(s)
    BY <1>7, <2>1, SignedType DEF Check
  <2>2. CASE spc' = [spc EXCEPT ![s] = "write"] /\ UNCHANGED snap
    BY <1>7, <2>2 DEF Check
  <2> QED BY <1>7, <2>1, <2>2, Zenon DEF Check
<1>8. ASSUME NEW s \in Signers, ForceAnswer(s) PROVE TypeInv'
  <2>1. DOMAIN heads # {} => heads[LatestSize(heads)] \in Seq(Data)
    <3>1. DOMAIN heads # {} => LatestSize(heads) \in DOMAIN heads
      BY LatestIs, Zenon DEF HeadsArePrefixes
    <3> QED BY <3>1, HeadMapElim, Zenon
  <2>2. trusted' \in Seq(Data)
    BY <1>8, <2>1 DEF ForceAnswer
  <2> QED BY <1>8, <2>2 DEF ForceAnswer, SignerDone
<1>9. ASSUME NEW s \in Signers, StoreHead(s) PROVE TypeInv'
  <2>1. PutHead(heads, Len(snap[s]), snap[s]) \in HeadMap
    <3>1. heads \in HeadMap /\ Len(snap[s]) \in Nat /\ snap[s] \in Seq(Data)
      OBVIOUS
    <3> HIDE DEF TypeInv
    <3> QED BY <3>1, PutHeadType, Zenon
  <2>2. log' \in Seq(Record) /\ heads' \in HeadMap /\ wal' \in Seq(Contents)
    BY <1>9, <2>1, WriteBatchType DEF StoreHead
  <2>3. Signed(s)
    BY <1>9 DEF StoreHead
  <2> QED BY <1>9, <2>2, <2>3, SignedType DEF StoreHead
<1>10. ASSUME NEW s \in Signers, StoreHeadFails(s) PROVE TypeInv'
  BY <1>10 DEF StoreHeadFails, SignerDone
<1>11. ASSUME NEW n \in DOMAIN heads, GetSth(n) PROVE TypeInv'
  <2>1. heads[n] \in Seq(Data)
    BY HeadMapElim
  <2> QED BY <1>11, <2>1 DEF GetSth
<1>12. ASSUME Crash PROVE TypeInv'
  <2>1. Stop
    BY <1>12 DEF Crash
  <2>2. UNCHANGED <<log, heads, wal, failures, losses>> /\ crashes' \in Nat
    BY <1>12 DEF Crash
  <2> QED BY <2>1, <2>2, StopType
<1>13. ASSUME NEW k \in DOMAIN wal, PowerLoss(k) PROVE TypeInv'
  <2>1. k \in 1..Len(wal) /\ wal[k] \in Contents
    BY <1>13 DEF PowerLoss
  <2>2. wal[k].log \in Seq(Record) /\ wal[k].heads \in HeadMap
    BY <2>1 DEF Contents
  <2>3. Prefix(wal, k - 1) \in Seq(Contents)
    BY <2>1 DEF Prefix
  <2>4. Stop
    BY <1>13 DEF PowerLoss
  <2>5. /\ log' \in Seq(Record) /\ heads' \in HeadMap /\ wal' \in Seq(Contents)
        /\ UNCHANGED <<failures, crashes>> /\ losses' \in Nat
    BY <1>13, <2>2, <2>3 DEF PowerLoss
  <2> QED BY <2>4, <2>5, StopType
<1>14. ASSUME Start PROVE TypeInv'
  <2>1. Leaves(log) \in Seq(Data)
    BY LeavesType
  <2>2. NextSeqOf(log) \in Nat
    <3>1. log # <<>> => log[Len(log)] \in Record
      OBVIOUS
    <3>2. log # <<>> => log[Len(log)].seq \in Nat
      BY <3>1 DEF Record
    <3> QED BY <3>2 DEF NextSeqOf
  <2> QED BY <1>14, <2>1, <2>2 DEF Start
<1>15. CASE UNCHANGED vars
  BY <1>15 DEF vars
<1> QED
  BY <1>1, <1>2, <1>3, <1>4, <1>5, <1>6, <1>7, <1>8, <1>9, <1>10, <1>11, <1>12, <1>13,
     <1>14, <1>15, Zenon DEF Next, Halt, Write, Sign

\* TypeInv contains TypeOK.
LEMMA TypeInvImpliesTypeOK == TypeInv => TypeOK
<1> SUFFICES ASSUME TypeInv PROVE TypeOK
  OBVIOUS
<1>1. IsHeads(heads)
  BY HeadMapElim DEF TypeInv, IsHeads
<1>2. ASSUME NEW k \in 1..Len(wal)
      PROVE  wal[k].log \in Seq(Record) /\ IsHeads(wal[k].heads)
  <2>1. wal[k] \in Contents
    BY DEF TypeInv
  <2>2. wal[k].log \in Seq(Record) /\ wal[k].heads \in HeadMap
    BY <2>1 DEF Contents
  <2> QED BY <2>2, HeadMapElim DEF IsHeads
<1>3. DOMAIN wal = 1..Len(wal) /\ Len(wal) \in Nat
  BY DEF TypeInv
<1> QED BY <1>1, <1>2, <1>3 DEF TypeInv, TypeOK

-----------------------------------------------------------------------------
(* The inductive invariant holds.                                          *)

\* The lock has one holder at a time, and a dead process holds nothing.
LEMMA LockStep == TypeInv /\ LockInv /\ DownInv /\ [Next]_vars => LockInv' /\ DownInv'
<1> SUFFICES ASSUME TypeInv, LockInv, DownInv, [Next]_vars PROVE LockInv' /\ DownInv'
  OBVIOUS
<1> USE FreeAssumption DEF TypeInv, LockInv, DownInv, writer, signer, database, client, faults
<1>1. ASSUME NEW w \in Writers, NEW b \in Batches, Reserve(w, b) PROVE LockInv' /\ DownInv'
  BY <1>1 DEF Reserve
<1>2. ASSUME NEW w \in Writers, Commit(w) PROVE LockInv' /\ DownInv'
  BY <1>2 DEF Commit
<1>3. ASSUME NEW w \in Writers, CommitFails(w) PROVE LockInv' /\ DownInv'
  BY <1>3 DEF CommitFails, WriterDone
<1>4. ASSUME NEW w \in Writers, Extend(w) PROVE LockInv' /\ DownInv'
  BY <1>4 DEF Extend
<1>5. ASSUME NEW w \in Writers, Reply(w) PROVE LockInv' /\ DownInv'
  BY <1>5 DEF Reply, WriterDone
<1>6. ASSUME NEW s \in Signers, Sign(s) PROVE LockInv' /\ DownInv'
  <2>1. up /\ UNCHANGED <<up, mu, wpc>>
    BY <1>6 DEF Sign, Snapshot, Check, StoreHead, StoreHeadFails, ForceAnswer
  <2> QED BY <2>1
<1>7. ASSUME NEW n \in DOMAIN heads, GetSth(n) PROVE LockInv' /\ DownInv'
  BY <1>7 DEF GetSth
<1>8. ASSUME Stop PROVE LockInv' /\ DownInv'
  BY <1>8 DEF Stop
<1>9. ASSUME Start PROVE LockInv' /\ DownInv'
  BY <1>9 DEF Start
<1>10. CASE UNCHANGED vars
  BY <1>10 DEF vars
<1>11. Crash \/ (\E k \in DOMAIN wal : PowerLoss(k)) => Stop
  BY DEF Crash, PowerLoss
<1> QED
  BY <1>1, <1>2, <1>3, <1>4, <1>5, <1>6, <1>7, <1>8, <1>9, <1>10, <1>11 DEF Next, Halt, Write

\* With append_mu free, no handler is between its commit and the tree.
LEMMA FreeLock ==
  ASSUME LockInv, mu = Free
  PROVE  \A w \in Writers : wpc[w] \notin {"write", "merkle"}
BY FreeAssumption DEF LockInv

\* A handler between its commit and the tree is the only one there.
LEMMA OneHolder ==
  ASSUME LockInv, NEW v \in Writers, NEW w \in Writers,
         wpc[v] \in {"write", "merkle"}, wpc[w] \in {"write", "merkle"}
  PROVE  v = w
BY DEF LockInv

\* A sequence is a prefix of itself.
LEMMA PrefixSelf ==
  ASSUME NEW S, NEW s \in Seq(S)
  PROVE  IsPrefixOf(s, s)
BY DEF IsPrefixOf, Prefix

\* A prefix stays one when the sequence grows at its end.
LEMMA PrefixGrows ==
  ASSUME NEW S, NEW s \in Seq(S), NEW t \in Seq(S), NEW u \in Seq(S), IsPrefixOf(s, t)
  PROVE  IsPrefixOf(s, t \o u)
<1>1. Len(s) \in 0..Len(t) /\ Len(t \o u) = Len(t) + Len(u)
  BY DEF IsPrefixOf
<1>2. Prefix(t \o u, Len(s)) = Prefix(t, Len(s))
  BY <1>1, PrefixConcat
<1> QED BY <1>1, <1>2 DEF IsPrefixOf

\* A commit appends the leaves of the request to those of the log.
LEMMA CommitLeaves ==
  ASSUME TypeInv, NEW w \in Writers, Commit(w)
  PROVE  /\ Records(first[w], batch[w]) \in Seq(Record)
         /\ log' = log \o Records(first[w], batch[w])
         /\ Leaves(log') = Leaves(log) \o batch[w]
<1>1. first[w] \in Nat /\ batch[w] \in Seq(Data) /\ log \in Seq(Record)
  BY DEF TypeInv
<1>2. Records(first[w], batch[w]) \in Seq(Record) /\ Leaves(Records(first[w], batch[w])) = batch[w]
  BY <1>1, RecordsType
<1>3. log' = log \o Records(first[w], batch[w])
  BY DEF Commit, WriteBatch
<1> QED BY <1>1, <1>2, <1>3, LeavesConcat, Zenon

\* The tree and the log stay in step: a commit puts the log one batch ahead,
\* Extend closes the gap, and a start rebuilds the tree from the log.
LEMMA TreeStep ==
  TypeInv /\ LockInv /\ DownInv /\ TreeInv /\ [Next]_vars => TreeInv'
<1> SUFFICES ASSUME TypeInv, LockInv, DownInv, TreeInv, [Next]_vars PROVE TreeInv'
  OBVIOUS
<1> USE DEF TypeInv, TreeInv, writer, signer, database, client, faults
<1>1. ASSUME NEW w \in Writers, NEW b \in Batches, Reserve(w, b) PROVE TreeInv'
  <2>1. \A v \in Writers : wpc[v] # "merkle"
    BY <1>1, FreeLock DEF Reserve
  <2> QED BY <1>1, <2>1 DEF Reserve
<1>2. ASSUME NEW w \in Writers, Commit(w) PROVE TreeInv'
  <2>1. \A v \in Writers : wpc[v] # "merkle"
    BY <1>2, OneHolder DEF Commit
  <2>2. Leaves(log) = merkle
    BY <1>2, <2>1 DEF Commit
  <2>3. Leaves(log') = merkle' \o batch'[w]
    BY <1>2, <2>2, CommitLeaves, Zenon DEF Commit
  <2>4. \A v \in Writers : wpc'[v] = "merkle" => v = w
    BY <1>2, <2>1 DEF Commit
  <2>5. wpc'[w] = "merkle"
    BY <1>2 DEF Commit
  <2> QED BY <2>3, <2>4, <2>5, Zenon
<1>3. ASSUME NEW w \in Writers, CommitFails(w) PROVE TreeInv'
  <2>1. \A v \in Writers : wpc[v] # "merkle"
    BY <1>3, OneHolder DEF CommitFails
  <2> QED BY <1>3, <2>1 DEF CommitFails, WriterDone
<1>4. ASSUME NEW w \in Writers, Extend(w) PROVE TreeInv'
  <2>1. \A v \in Writers : wpc[v] = "merkle" => v = w
    BY <1>4, OneHolder DEF Extend
  <2>2. Leaves(log) = merkle \o batch[w]
    BY <1>4 DEF Extend
  <2>3. \A v \in Writers : wpc'[v] # "merkle"
    BY <1>4, <2>1 DEF Extend
  <2> QED BY <1>4, <2>2, <2>3 DEF Extend
<1>5. ASSUME NEW w \in Writers, Reply(w) PROVE TreeInv'
  BY <1>5 DEF Reply, WriterDone
<1>6. ASSUME NEW s \in Signers, Sign(s) PROVE TreeInv'
  <2>1. UNCHANGED <<up, wpc, merkle, batch, log>>
    BY <1>6 DEF Sign, Snapshot, Check, StoreHead, StoreHeadFails, ForceAnswer, WriteBatch
  <2> QED BY <2>1
<1>7. ASSUME NEW n \in DOMAIN heads, GetSth(n) PROVE TreeInv'
  BY <1>7 DEF GetSth
<1>8. ASSUME Stop PROVE TreeInv'
  BY <1>8 DEF Stop
<1>9. ASSUME Start PROVE TreeInv'
  BY <1>9 DEF Start, DownInv
<1>10. CASE UNCHANGED vars
  BY <1>10 DEF vars
<1>11. Crash \/ (\E k \in DOMAIN wal : PowerLoss(k)) => Stop
  BY DEF Crash, PowerLoss
<1> QED
  BY <1>1, <1>2, <1>3, <1>4, <1>5, <1>6, <1>7, <1>8, <1>9, <1>10, <1>11 DEF Next, Halt, Write

\* What is being signed stays a prefix of the log, which only grows meanwhile.
LEMMA SnapStep ==
  TypeInv /\ LockInv /\ TreeInv /\ SnapInv /\ [Next]_vars => SnapInv'
<1> DEFINE Goal(t) ==
             /\ spc'[t] = "idle" => snap'[t] = <<>>
             /\ spc'[t] # "idle" => IsPrefixOf(snap'[t], Leaves(log'))
             /\ spc'[t] \in {"check", "write"} => snap'[t] # <<>>
<1> SUFFICES ASSUME TypeInv, LockInv, TreeInv, SnapInv, [Next]_vars, NEW t \in Signers
             PROVE  Goal(t)
  BY Zenon DEF SnapInv, IsPrefixOf, Leaves, Prefix
<1> USE DEF writer, signer, database, client, faults
<1>1. ASSUME UNCHANGED <<spc, snap, log>> PROVE Goal(t)
  BY <1>1, Zenon DEF SnapInv
<1>2. ASSUME NEW w \in Writers, Commit(w) PROVE Goal(t)
  <2>1. spc' = spc /\ snap' = snap
    BY <1>2 DEF Commit
  <2>2. snap[t] \in Seq(Data) /\ Leaves(log) \in Seq(Data) /\ batch[w] \in Seq(Data)
    BY LeavesType DEF TypeInv
  <2>3. spc[t] # "idle" => IsPrefixOf(snap[t], Leaves(log) \o batch[w])
    BY <2>2, PrefixGrows DEF SnapInv
  <2> QED BY <1>2, <2>1, <2>3, CommitLeaves, Zenon DEF SnapInv
<1>3. ASSUME NEW w \in Writers, Write(w), ~Commit(w) PROVE Goal(t)
  <2>1. UNCHANGED <<spc, snap, log>>
    BY <1>3 DEF Write, Reserve, CommitFails, Extend, Reply
  <2> QED BY <1>1, <2>1
<1>4. ASSUME NEW s \in Signers, Snapshot(s) PROVE Goal(t)
  <2>1. up /\ Leaves(log) = merkle /\ log' = log /\ spc[s] = "idle" /\ snap[s] = <<>>
    BY <1>4, FreeLock DEF Snapshot, TreeInv, SnapInv
  <2>2. merkle \in Seq(Data) /\ IsPrefixOf(merkle, merkle) /\ IsPrefixOf(<<>>, merkle)
    BY PrefixSelf DEF TypeInv, IsPrefixOf, Prefix
  <2>3. CASE t # s
    <3>1. spc'[t] = spc[t] /\ snap'[t] = snap[t]
      BY <1>4, <2>3 DEF Snapshot, Signed, SignerDone, TypeInv
    <3> QED BY <2>1, <3>1 DEF SnapInv
  <2>4. CASE t = s
    <3>1. \/ spc'[s] = "check" /\ snap'[s] = merkle /\ merkle # <<>>
          \/ spc'[s] = "idle" /\ snap'[s] = <<>>
          \/ spc'[s] = "answer" /\ snap'[s] = snap[s]
      BY <1>4 DEF Snapshot, Signed, SignerDone, TypeInv
    <3> QED BY <2>1, <2>2, <2>4, <3>1
  <2> QED BY <2>3, <2>4
<1>5. ASSUME NEW s \in Signers, Sign(s), ~Snapshot(s) PROVE Goal(t)
  <2>1. log' = log
    BY <1>5 DEF Sign, Check, StoreHead, StoreHeadFails, ForceAnswer, WriteBatch
  <2>2. \/ spc'[t] = "idle" /\ snap'[t] = <<>>
        \/ spc'[t] = spc[t] /\ snap'[t] = snap[t]
        \/ /\ spc'[t] \in {"write", "answer"} /\ snap'[t] = snap[t]
           /\ spc[t] \in {"check", "write"}
    <3>1. CASE SignerDone(s)
      BY <3>1 DEF SignerDone, TypeInv
    <3>2. CASE UNCHANGED snap /\ spc[s] \in {"check", "write"}
               /\ \E c \in {"write", "answer"} : spc' = [spc EXCEPT ![s] = c]
      BY <3>2 DEF TypeInv
    <3>3. SignerDone(s) \/ (UNCHANGED snap /\ spc[s] \in {"check", "write"}
                            /\ \E c \in {"write", "answer"} : spc' = [spc EXCEPT ![s] = c])
      BY <1>5, Zenon DEF Sign, Check, StoreHead, StoreHeadFails, ForceAnswer, Signed
    <3> QED BY <3>1, <3>2, <3>3
  <2> QED BY <2>1, <2>2 DEF SnapInv
<1>6. ASSUME NEW n \in DOMAIN heads, GetSth(n) PROVE Goal(t)
  BY <1>1, <1>6 DEF GetSth
<1>7. ASSUME Stop PROVE Goal(t)
  BY <1>7 DEF Stop
<1>8. ASSUME Start PROVE Goal(t)
  BY <1>1, <1>8 DEF Start
<1>9. CASE UNCHANGED vars
  BY <1>1, <1>9 DEF vars
<1>10. Crash \/ (\E k \in DOMAIN wal : PowerLoss(k)) => Stop
  BY DEF Crash, PowerLoss
<1> HIDE DEF Goal
<1> QED
  BY <1>2, <1>3, <1>4, <1>5, <1>6, <1>7, <1>8, <1>9, <1>10, Zenon DEF Next, Halt

\* One write of the database keeps every recorded state of it committed to, when
\* the new contents are.
LEMMA WriteBatchCommits ==
  ASSUME TypeInv, HeadsArePrefixes, WalInv, NEW l, NEW h, WriteBatch(l, h), Commits(l, h)
  PROVE  HeadsArePrefixes' /\ WalInv'
<1>1. HeadsArePrefixes'
  BY DEF WriteBatch, HeadsArePrefixes, Commits
<1>2. CASE wal' = wal
  BY <1>1, <1>2 DEF WalInv
<1>3. CASE wal' = Append(wal, [log |-> log, heads |-> heads])
  <2> SUFFICES ASSUME NEW k \in 1..Len(wal') PROVE Commits(wal'[k].log, wal'[k].heads)
    BY <1>1 DEF WalInv
  <2>1. wal \in Seq(Contents)
    BY DEF TypeInv
  <2>2. CASE k <= Len(wal)
    BY <1>3, <2>1, <2>2 DEF WalInv
  <2>3. CASE k = Len(wal) + 1
    BY <1>3, <2>1, <2>3 DEF HeadsArePrefixes
  <2> QED BY <1>3, <2>1, <2>2, <2>3
<1> QED BY <1>2, <1>3 DEF WriteBatch

\* The tree head of a snapshot commits to a prefix of the log.
LEMMA PutHeadCommits ==
  ASSUME TypeInv, HeadsArePrefixes, SnapInv, NEW s \in Signers, spc[s] = "write"
  PROVE  Commits(log, PutHead(heads, Len(snap[s]), snap[s]))
<1> DEFINE n == Len(snap[s])
           h == PutHead(heads, n, snap[s])
<1>1. snap[s] \in Seq(Data) /\ snap[s] # <<>> /\ IsPrefixOf(snap[s], Leaves(log))
  BY DEF SnapInv, TypeInv
<1>2. n \in 1..Len(log) /\ snap[s] = Prefix(Leaves(log), n)
  BY <1>1, LeavesType DEF IsPrefixOf, TypeInv
<1>3. n \in Nat /\ heads \in HeadMap
  BY <1>1 DEF TypeInv
<1>4. DOMAIN h = DOMAIN heads \cup {n}
  BY <1>1, <1>3, PutHeadType, Zenon
<1>5. \A m \in DOMAIN heads \cup {n} : h[m] = IF m = n THEN snap[s] ELSE heads[m]
  <2> HIDE DEF n
  <2> QED BY <1>1, <1>3, PutHeadType, ZenonT(30)
<1>6. ASSUME NEW m \in DOMAIN h
      PROVE  m \in 1..Len(log) /\ h[m] = Prefix(Leaves(log), m)
  <2>1. CASE m = n
    <3>1. h[m] = snap[s]
      BY <1>4, <1>5, <2>1
    <3> HIDE DEF h, n
    <3> QED BY <1>2, <2>1, <3>1
  <2>2. CASE m # n
    BY <1>4, <1>5, <2>2 DEF HeadsArePrefixes, Commits
  <2> QED BY <2>1, <2>2
<1> QED BY <1>6 DEF Commits

\* Tree heads commit to prefixes of the log after every step, and in every state
\* a power loss may restore.
LEMMA HeadsStep ==
  IInv /\ [Next]_vars => HeadsArePrefixes' /\ WalInv'
<1> SUFFICES ASSUME IInv, [Next]_vars PROVE HeadsArePrefixes' /\ WalInv'
  OBVIOUS
<1> USE DEF writer, signer, database, client, faults
<1>1. ASSUME UNCHANGED <<log, heads, wal>> PROVE HeadsArePrefixes' /\ WalInv'
  BY <1>1 DEF IInv, HeadsArePrefixes, WalInv, Commits
<1>2. ASSUME NEW w \in Writers, Commit(w) PROVE HeadsArePrefixes' /\ WalInv'
  <2>1. Commits(log \o Records(first[w], batch[w]), heads)
    BY <1>2, CommitLeaves, CommitsGrow DEF IInv, HeadsArePrefixes, TypeInv
  <2>2. WriteBatch(log \o Records(first[w], batch[w]), heads)
    BY <1>2 DEF Commit
  <2> QED BY <2>1, <2>2, WriteBatchCommits DEF IInv
<1>3. ASSUME NEW w \in Writers, Write(w), ~Commit(w) PROVE HeadsArePrefixes' /\ WalInv'
  <2>1. UNCHANGED <<log, heads, wal>>
    BY <1>3 DEF Write, Reserve, CommitFails, Extend, Reply
  <2> QED BY <1>1, <2>1
<1>4. ASSUME NEW s \in Signers, StoreHead(s) PROVE HeadsArePrefixes' /\ WalInv'
  <2>1. Commits(log, PutHead(heads, Len(snap[s]), snap[s]))
    BY <1>4, PutHeadCommits, Zenon DEF IInv, StoreHead
  <2>2. WriteBatch(log, PutHead(heads, Len(snap[s]), snap[s]))
    BY <1>4 DEF StoreHead
  <2> QED BY <2>1, <2>2, WriteBatchCommits DEF IInv
<1>5. ASSUME NEW s \in Signers, Sign(s), ~StoreHead(s) PROVE HeadsArePrefixes' /\ WalInv'
  <2>1. UNCHANGED <<log, heads, wal>>
    BY <1>5 DEF Sign, Snapshot, Check, StoreHeadFails, ForceAnswer
  <2> QED BY <1>1, <2>1
<1>6. ASSUME NEW n \in DOMAIN heads, GetSth(n) PROVE HeadsArePrefixes' /\ WalInv'
  BY <1>1, <1>6 DEF GetSth
<1>7. ASSUME Crash \/ Start \/ UNCHANGED vars PROVE HeadsArePrefixes' /\ WalInv'
  BY <1>1, <1>7 DEF Crash, Start, vars
<1>8. ASSUME NEW k \in DOMAIN wal, PowerLoss(k) PROVE HeadsArePrefixes' /\ WalInv'
  <2>1. wal \in Seq(Contents) /\ k \in 1..Len(wal)
    BY <1>8 DEF PowerLoss, IInv, TypeInv
  <2>2. HeadsArePrefixes'
    BY <1>8, <2>1 DEF PowerLoss, IInv, WalInv, HeadsArePrefixes
  <2>3. /\ wal' = Prefix(wal, k - 1)
        /\ Len(wal') = k - 1
        /\ \A j \in 1..(k - 1) : wal'[j] = wal[j] /\ j \in 1..Len(wal)
    BY <1>8, <2>1 DEF PowerLoss, Prefix
  <2>4. WalInv'
    BY <2>3 DEF IInv, WalInv
  <2> QED BY <2>2, <2>4
<1> QED
  BY <1>2, <1>3, <1>4, <1>5, <1>6, <1>7, <1>8 DEF Next, Halt

\* The invariant holds initially ...
LEMMA InvInit == Init => IInv
<1> SUFFICES ASSUME Init PROVE IInv
  OBVIOUS
<1>1. TypeInv
  BY TypeInit
<1>2. LockInv /\ DownInv /\ SnapInv
  BY FreeAssumption DEF Init, LockInv, DownInv, SnapInv
<1>3. TreeInv
  BY DEF Init, TreeInv, Leaves
<1>4. HeadsArePrefixes /\ WalInv
  BY DEF Init, HeadsArePrefixes, Commits, WalInv, NoHeads
<1> QED BY <1>1, <1>2, <1>3, <1>4 DEF IInv

\* ... and is preserved by every step.
LEMMA InvStep == IInv /\ [Next]_vars => IInv'
BY TypeStep, LockStep, TreeStep, SnapStep, HeadsStep DEF IInv

\* The invariant holds in every reachable state.
LEMMA InvHolds == Spec => []IInv
BY InvInit, InvStep, PTL DEF Spec

-----------------------------------------------------------------------------
(* The theorems.                                                           *)

\* Every state of the server, the database and the clients is well-typed, for any
\* writers, signers and faults.
THEOREM TypeCorrect == Spec => []TypeOK
<1>1. IInv => TypeOK
  BY TypeInvImpliesTypeOK DEF IInv
<1> QED BY <1>1, InvHolds, PTL

\* Every stored tree head is the root of the first tree_size entries of the stored
\* log (sign_and_store, HeadStore::write), for any number of writers, signers,
\* failing writes, crashes and power losses.
THEOREM HeadsCommitToPrefixes == Spec => []HeadsArePrefixes
BY InvHolds, PTL DEF IInv

\* Whenever append_mu is free, the in-memory Merkle tree has exactly the leaves of
\* the stored log, also after failed writes and restarts.
THEOREM TreeMatches == Spec => []TreeMatchesLog
<1>1. IInv => TreeMatchesLog
  BY FreeLock DEF IInv, TreeInv, TreeMatchesLog
<1> QED BY <1>1, InvHolds, PTL

\* The log grows at its end and stored tree heads keep their roots, step by step.
LEMMA AppendOnlyStep ==
  ASSUME IInv, [Next]_vars, losses' = losses
  PROVE  /\ IsPrefixOf(log, log')
         /\ \A n \in DOMAIN heads : n \in DOMAIN heads' /\ heads'[n] = heads[n]
<1> DEFINE Grows == IsPrefixOf(log, log')
           Kept == \A n \in DOMAIN heads : n \in DOMAIN heads' /\ heads'[n] = heads[n]
<1> USE DEF writer, signer, database, client, faults
<1>1. log \in Seq(Record)
  BY DEF IInv, TypeInv
<1>2. ASSUME UNCHANGED log PROVE Grows
  BY <1>1, <1>2, PrefixSelf
<1>3. ASSUME UNCHANGED heads PROVE Kept
  BY <1>3
<1>4. ASSUME NEW w \in Writers, Commit(w) PROVE Grows /\ Kept
  <2>1. log' = log \o Records(first[w], batch[w]) /\ Records(first[w], batch[w]) \in Seq(Record)
    BY <1>4, CommitLeaves DEF IInv
  <2>2. Grows
    BY <1>1, <2>1, PrefixSelf, PrefixGrows
  <2>3. heads' = heads
    BY <1>4 DEF Commit, WriteBatch
  <2> QED BY <1>3, <2>2, <2>3
<1>5. ASSUME NEW s \in Signers, StoreHead(s) PROVE Grows /\ Kept
  <2>1. log' = log
    BY <1>5 DEF StoreHead, WriteBatch
  <2>2. heads' = PutHead(heads, Len(snap[s]), snap[s])
    BY <1>5 DEF StoreHead, WriteBatch
  <2>3. DOMAIN heads \subseteq DOMAIN heads'
    BY <2>2 DEF PutHead
  <2>4. \A n \in DOMAIN heads' : heads'[n] = Prefix(Leaves(log'), n)
    BY HeadsStep DEF HeadsArePrefixes, Commits
  <2>5. \A n \in DOMAIN heads : heads[n] = Prefix(Leaves(log), n)
    BY DEF IInv, HeadsArePrefixes, Commits
  <2> QED BY <1>2, <2>1, <2>3, <2>4, <2>5
<1>6. ASSUME UNCHANGED <<log, heads>> PROVE Grows /\ Kept
  BY <1>2, <1>3, <1>6
<1>7. ASSUME NEW w \in Writers, Write(w), ~Commit(w) PROVE UNCHANGED <<log, heads>>
  BY <1>7 DEF Write, Reserve, CommitFails, Extend, Reply
<1>8. ASSUME NEW s \in Signers, Sign(s), ~StoreHead(s) PROVE UNCHANGED <<log, heads>>
  BY <1>8 DEF Sign, Snapshot, Check, StoreHeadFails, ForceAnswer
<1>9. ASSUME NEW n \in DOMAIN heads, GetSth(n) PROVE UNCHANGED <<log, heads>>
  BY <1>9 DEF GetSth
<1>10. ASSUME Crash \/ Start \/ UNCHANGED vars PROVE UNCHANGED <<log, heads>>
  BY <1>10 DEF Crash, Start, vars
<1>11. \A k \in DOMAIN wal : ~PowerLoss(k)
  BY DEF PowerLoss, IInv, TypeInv
<1> QED
  BY <1>4, <1>5, <1>6, <1>7, <1>8, <1>9, <1>10, <1>11 DEF Next, Halt

\* Only a power loss shortens the log or withdraws or changes what a stored tree
\* head commits to.
THEOREM LogIsAppendOnly == Spec => AppendOnly
<1>1. IInv /\ [Next]_vars =>
        [ losses' = losses =>
            /\ IsPrefixOf(log, log')
            /\ \A n \in DOMAIN heads :
                 n \in DOMAIN heads' /\ heads'[n] = heads[n] ]_<<log, heads>>
  BY AppendOnlyStep
<1> QED BY <1>1, InvHolds, PTL DEF Spec, AppendOnly
=============================================================================
