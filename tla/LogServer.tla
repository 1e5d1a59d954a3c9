----------------------------- MODULE LogServer -----------------------------
(***************************************************************************)
(* The write path of the settled server: Append and BatchAppend handlers   *)
(* serialised by append_mu, the log and heads column families of RocksDB,  *)
(* the in-memory Merkle tree, the signers of tree heads (the STH task and  *)
(* the force_sth handler, both through sign_and_store), process crashes,   *)
(* power losses, failing database writes, and the rebuild at startup.      *)
(*                                                                         *)
(* Abstractions.  A leaf hash stands for the data of an entry.  The        *)
(* Merkle tree is the sequence of leaves appended to it: its size is the   *)
(* length and its root is the sequence itself (module Merkle checks that   *)
(* the frontier computes the RFC 6962 root and that roots of different     *)
(* leaf sequences differ).  Keys and signatures are in module KeyRotation, *)
(* the broadcast to Watch streams in module Watch, the proof handlers in   *)
(* module ProofService.  The log column family is the sequence of its      *)
(* records in key order, the order RocksDB iterates in.  Timestamps are    *)
(* left out: they come from SystemTime::now, which may repeat or go back,  *)
(* and two signers may store them out of order, so nothing is said of the  *)
(* order of the timestamps of two tree heads.                              *)
(***************************************************************************)
EXTENDS Integers, Sequences

CONSTANTS
  Data,         \* leaf hashes of the payloads clients append
  Writers,      \* concurrent Append / BatchAppend handlers
  Signers,      \* concurrent callers of sign_and_store
  Task,         \* the caller that is the STH task (sth_task::run)
  MaxBatch,     \* MAX_BATCH
  MaxSeq,       \* bound on next_seq
  MaxFailures,  \* bound on failing database writes
  MaxCrashes,   \* bound on process crashes
  MaxLosses     \* bound on power losses

ASSUME ConstantsAssumption ==
  /\ Task \in Signers
  /\ MaxBatch \in Nat \ {0}
  /\ MaxSeq \in Nat
  /\ MaxFailures \in Nat
  /\ MaxCrashes \in Nat
  /\ MaxLosses \in Nat

\* The value of mu when append_mu is not held.
Free == "free"

ASSUME FreeAssumption == Free \notin Writers

VARIABLES
  up,        \* the process runs
  nextSeq,   \* DbInner.next_seq
  merkle,    \* AppendState.merkle
  mu,        \* holder of append_mu
  wpc,       \* writer: "idle", "write", "merkle" (holds append_mu), "reply"
  first,     \* writer: first sequence number assigned
  batch,     \* writer: leaf hashes of the request
  spc,       \* signer: "idle", "check", "write", "answer"
  snap,      \* signer: root snapshot taken under append_mu
  log,       \* column family log: records [seq, leaf] in key order
  heads,     \* column family heads: tree size -> root
  wal,       \* contents of both before each write, oldest first
  acked,     \* records acknowledged to clients
  trusted,   \* root of the tree head a client holds (<<>>: none)
  failures, crashes, losses

writer   == <<nextSeq, merkle, mu, wpc, first, batch>>
signer   == <<spc, snap>>
database == <<log, heads, wal>>
client   == <<acked, trusted>>
faults   == <<failures, crashes, losses>>
vars     == <<up, writer, signer, database, client, faults>>

-----------------------------------------------------------------------------
(* Operators on the stored data.                                           *)

Leaves(l) == [i \in 1..Len(l) |-> l[i].leaf]

Prefix(s, n) == SubSeq(s, 1, n)

\* The records LogStore::append and append_batch put in one WriteBatch.
Records(f, b) == [i \in 1..Len(b) |-> [seq |-> f + i - 1, leaf |-> b[i]]]

\* Mutations of NextSeqOf.
NextSeqOf_Previous(l) == IF l = <<>> THEN 0 ELSE l[Len(l)].seq - 1
NextSeqOf_LastKey(l) == IF l = <<>> THEN 0 ELSE l[Len(l)].seq
NextSeqOf_Skips(l) == IF l = <<>> THEN 0 ELSE l[Len(l)].seq + 2

\* Db::open: the sequence number after the last key of the log.
NextSeqOf(l) == IF l = <<>> THEN 0 ELSE l[Len(l)].seq + 1

\* Mutations: the bound is inclusive, the last entry is missed.
seq_range_Inclusive(l, end) == SelectSeq(l, LAMBDA r : r.seq <= end)
seq_range_Short(l, end) == SelectSeq(l, LAMBDA r : r.seq + 1 < end)

\* LogStore::seq_range(0, end): the records with sequence numbers below end.
seq_range(l, end) == SelectSeq(l, LAMBDA r : r.seq < end)

\* HeadStore::latest: the tree head with the largest key.
LatestSize(h) == CHOOSE n \in DOMAIN h : \A m \in DOMAIN h : m <= n

\* HeadStore::write: put under the key tree_size, replacing what is there.
PutHead(h, n, root) ==
  [m \in DOMAIN h \cup {n} |-> IF m = n THEN root ELSE h[m]]

NoHeads == [n \in {} |-> <<>>]

\* One RocksDB WriteBatch: atomic, recorded in the WAL, not synced.  The WAL is
\* followed only while a power loss is still possible within MaxLosses.
WriteBatch(l, h) ==
  /\ log' = l
  /\ heads' = h
  /\ wal' = IF losses < MaxLosses
            THEN Append(wal, [log |-> log, heads |-> heads])
            ELSE wal

-----------------------------------------------------------------------------
Init ==
  /\ up = TRUE
  /\ nextSeq = 0
  /\ merkle = <<>>
  /\ mu = Free
  /\ wpc = [w \in Writers |-> "idle"]
  /\ first = [w \in Writers |-> 0]
  /\ batch = [w \in Writers |-> <<>>]
  /\ spc = [s \in Signers |-> "idle"]
  /\ snap = [s \in Signers |-> <<>>]
  /\ log = <<>>
  /\ heads = NoHeads
  /\ wal = <<>>
  /\ acked = {}
  /\ trusted = <<>>
  /\ failures = 0
  /\ crashes = 0
  /\ losses = 0

-----------------------------------------------------------------------------
(* Append and BatchAppend.                                                 *)

\* The handler returns, its locals are gone.
WriterDone(w) ==
  /\ wpc' = [wpc EXCEPT ![w] = "idle"]
  /\ first' = [first EXCEPT ![w] = 0]
  /\ batch' = [batch EXCEPT ![w] = <<>>]

Batches == UNION {[1..n -> Data] : n \in 1..MaxBatch}

\* The handler takes append_mu and LogStore reserves the sequence numbers.
Reserve(w, b) ==
  /\ up
  /\ wpc[w] = "idle"
  /\ mu = Free
  /\ nextSeq + Len(b) <= MaxSeq
  /\ mu' = w
  /\ first' = [first EXCEPT ![w] = nextSeq]
  /\ batch' = [batch EXCEPT ![w] = b]
  /\ nextSeq' = nextSeq + Len(b)
  /\ wpc' = [wpc EXCEPT ![w] = "write"]
  /\ UNCHANGED <<up, merkle, signer, database, client, faults>>

\* The WriteBatch with the records of the request is written.
Commit(w) ==
  /\ up
  /\ wpc[w] = "write"
  /\ WriteBatch(log \o Records(first[w], batch[w]), heads)
  /\ wpc' = [wpc EXCEPT ![w] = "merkle"]
  /\ UNCHANGED <<up, nextSeq, merkle, mu, first, batch, signer, client, faults>>

\* Mutation: the error of db.write is ignored.
CommitFails_Acknowledges(w) ==
  /\ up
  /\ wpc[w] = "write"
  /\ failures < MaxFailures
  /\ failures' = failures + 1
  /\ mu' = Free
  /\ wpc' = [wpc EXCEPT ![w] = "reply"]
  /\ UNCHANGED <<up, nextSeq, merkle, first, batch, signer, database, client, crashes, losses>>

\* db.write returns an error: the handler returns it and drops append_mu.
CommitFails(w) ==
  /\ up
  /\ wpc[w] = "write"
  /\ failures < MaxFailures
  /\ failures' = failures + 1
  /\ mu' = Free
  /\ WriterDone(w)
  /\ UNCHANGED <<up, nextSeq, merkle, signer, database, client, crashes, losses>>

\* The leaves are appended to the tree and append_mu is released.
Extend(w) ==
  /\ up
  /\ wpc[w] = "merkle"
  /\ merkle' = merkle \o batch[w]
  /\ mu' = Free
  /\ wpc' = [wpc EXCEPT ![w] = "reply"]
  /\ UNCHANGED <<up, nextSeq, first, batch, signer, database, client, faults>>

\* The response reaches the client.
Reply(w) ==
  /\ up
  /\ wpc[w] = "reply"
  /\ acked' = acked \cup {Records(first[w], batch[w])[i] : i \in 1..Len(batch[w])}
  /\ WriterDone(w)
  /\ UNCHANGED <<up, nextSeq, merkle, mu, signer, database, trusted, faults>>

-----------------------------------------------------------------------------
(* sign_and_store, called by the STH task and by the force_sth handler.    *)

SignerDone(s) ==
  /\ spc' = [spc EXCEPT ![s] = "idle"]
  /\ snap' = [snap EXCEPT ![s] = <<>>]

\* sign_and_store returns Ok: the task sleeps again, force_sth goes on to answer.
Signed(s) ==
  IF s = Task
  THEN SignerDone(s)
  ELSE spc' = [spc EXCEPT ![s] = "answer"] /\ UNCHANGED snap

\* Size and root are read under append_mu; an empty tree is not signed.
Snapshot(s) ==
  /\ up
  /\ spc[s] = "idle"
  /\ mu = Free
  /\ \/ /\ merkle # <<>>
        /\ snap' = [snap EXCEPT ![s] = merkle]
        /\ spc' = [spc EXCEPT ![s] = "check"]
     \/ /\ merkle = <<>>
        /\ Signed(s)
  /\ UNCHANGED <<up, writer, database, client, faults>>

\* Mutation: any tree head counts.
AlreadySigned_Any(n) == DOMAIN heads # {}

\* A tree size that is already the latest signed one is skipped.
AlreadySigned(n) == DOMAIN heads # {} /\ LatestSize(heads) = n

Check(s) ==
  /\ up
  /\ spc[s] = "check"
  /\ \/ /\ AlreadySigned(Len(snap[s]))
        /\ Signed(s)
     \/ /\ ~AlreadySigned(Len(snap[s]))
        /\ spc' = [spc EXCEPT ![s] = "write"]
        /\ UNCHANGED snap
  /\ UNCHANGED <<up, writer, database, client, faults>>

\* Mutation: the size is read again after the root was.
StoreHead_RereadsSize(s) ==
  /\ up
  /\ spc[s] = "write"
  /\ WriteBatch(log, PutHead(heads, Len(merkle), snap[s]))
  /\ Signed(s)
  /\ UNCHANGED <<up, writer, client, faults>>

\* The tree head is signed and written under its tree size.
StoreHead(s) ==
  /\ up
  /\ spc[s] = "write"
  /\ WriteBatch(log, PutHead(heads, Len(snap[s]), snap[s]))
  /\ Signed(s)
  /\ UNCHANGED <<up, writer, client, faults>>

\* Mutation: force_sth ignores the error.
StoreHeadFails_Ignored(s) ==
  /\ up
  /\ spc[s] = "write"
  /\ failures < MaxFailures
  /\ failures' = failures + 1
  /\ Signed(s)
  /\ UNCHANGED <<up, writer, database, client, crashes, losses>>

\* heads.write fails: the error is logged or returned, nothing is stored.
StoreHeadFails(s) ==
  /\ up
  /\ spc[s] = "write"
  /\ failures < MaxFailures
  /\ failures' = failures + 1
  /\ SignerDone(s)
  /\ UNCHANGED <<up, writer, database, client, crashes, losses>>

\* force_sth answers with the latest tree head, whoever stored it; there is none
\* (NO_CONTENT) when the tree was empty and no one has signed since.
ForceAnswer(s) ==
  /\ up
  /\ spc[s] = "answer"
  /\ trusted' = IF DOMAIN heads = {} THEN trusted ELSE heads[LatestSize(heads)]
  /\ SignerDone(s)
  /\ UNCHANGED <<up, writer, database, acked, faults>>

-----------------------------------------------------------------------------
(* GetSth: a client reads the latest tree head or the one at a size.       *)

GetSth(n) ==
  /\ up
  /\ n \in DOMAIN heads
  /\ trusted' = heads[n]
  /\ UNCHANGED <<up, writer, signer, database, acked, faults>>

-----------------------------------------------------------------------------
(* Crashes and startup.                                                    *)

\* Everything in memory is gone.
Stop ==
  /\ up' = FALSE
  /\ nextSeq' = 0
  /\ merkle' = <<>>
  /\ mu' = Free
  /\ wpc' = [w \in Writers |-> "idle"]
  /\ first' = [w \in Writers |-> 0]
  /\ batch' = [w \in Writers |-> <<>>]
  /\ spc' = [s \in Signers |-> "idle"]
  /\ snap' = [s \in Signers |-> <<>>]
  /\ UNCHANGED client

\* The process dies; what was written to the WAL is in the kernel.
Crash ==
  /\ up
  /\ crashes < MaxCrashes
  /\ crashes' = crashes + 1
  /\ Stop
  /\ UNCHANGED <<database, failures, losses>>

\* Mutation: a tree head survives the loss of the entries it covers.
PowerLoss_KeepsHeads(k) ==
  /\ up
  /\ losses < MaxLosses
  /\ k \in 1..Len(wal)
  /\ losses' = losses + 1
  /\ Stop
  /\ log' = wal[k].log
  /\ wal' = Prefix(wal, k - 1)
  /\ UNCHANGED <<heads, failures, crashes>>

\* The machine dies: WriteOptions are the default ones (no sync), so any
\* number of the last writes to the one WAL of all column families is lost.
PowerLoss(k) ==
  /\ up
  /\ losses < MaxLosses
  /\ k \in 1..Len(wal)
  /\ losses' = losses + 1
  /\ Stop
  /\ log' = wal[k].log
  /\ heads' = wal[k].heads
  /\ wal' = Prefix(wal, k - 1)
  /\ UNCHANGED <<failures, crashes>>

\* Mutation: the tree is not rebuilt.
Start_EmptyTree ==
  /\ ~up
  /\ up' = TRUE
  /\ nextSeq' = NextSeqOf(log)
  /\ UNCHANGED <<merkle, mu, wpc, first, batch, signer, database, client, faults>>

\* Db::open and AppState::build.
Start ==
  /\ ~up
  /\ up' = TRUE
  /\ nextSeq' = NextSeqOf(log)
  /\ merkle' = Leaves(log)
  /\ UNCHANGED <<mu, wpc, first, batch, signer, database, client, faults>>

-----------------------------------------------------------------------------
Write(w) ==
  \/ \E b \in Batches : Reserve(w, b)
  \/ Commit(w)
  \/ CommitFails(w)
  \/ Extend(w)
  \/ Reply(w)

Sign(s) ==
  \/ Snapshot(s)
  \/ Check(s)
  \/ StoreHead(s)
  \/ StoreHeadFails(s)
  \/ ForceAnswer(s)

Halt ==
  \/ Crash
  \/ \E k \in DOMAIN wal : PowerLoss(k)

Next ==
  \/ \E w \in Writers : Write(w)
  \/ \E s \in Signers : Sign(s)
  \/ \E n \in DOMAIN heads : GetSth(n)
  \/ Halt
  \/ Start

Spec == Init /\ [][Next]_vars

\* A handler that entered its critical section leaves it, the STH task wakes
\* every sth_interval_secs, the supervisor restarts a dead process.
Fairness ==
  /\ \A w \in Writers : WF_vars(Commit(w)) /\ WF_vars(Extend(w))
  /\ WF_vars(Snapshot(Task)) /\ WF_vars(Check(Task)) /\ WF_vars(StoreHead(Task))
  /\ WF_vars(Start)

FairSpec == Spec /\ Fairness

-----------------------------------------------------------------------------
(* Properties.                                                             *)

IsPrefixOf(s, t) == Len(s) <= Len(t) /\ s = Prefix(t, Len(s))

Record == [seq : Nat, leaf : Data]

\* Tree heads of a database: signed sizes with the root.
IsHeads(h) ==
  /\ DOMAIN h \subseteq Nat
  /\ \A n \in DOMAIN h : h[n] \in Seq(Data)

\* Every variable of the server, the database and the clients has its type.
TypeOK ==
  /\ up \in BOOLEAN
  /\ nextSeq \in Nat
  /\ merkle \in Seq(Data)
  /\ mu \in Writers \cup {Free}
  /\ wpc \in [Writers -> {"idle", "write", "merkle", "reply"}]
  /\ first \in [Writers -> Nat]
  /\ batch \in [Writers -> Seq(Data)]
  /\ spc \in [Signers -> {"idle", "check", "write", "answer"}]
  /\ snap \in [Signers -> Seq(Data)]
  /\ log \in Seq(Record)
  /\ IsHeads(heads)
  /\ DOMAIN wal = 1..Len(wal) /\ Len(wal) \in Nat
  /\ \A k \in 1..Len(wal) : wal[k].log \in Seq(Record) /\ IsHeads(wal[k].heads)
  /\ acked \subseteq Record
  /\ trusted \in Seq(Data)
  /\ failures \in Nat /\ crashes \in Nat /\ losses \in Nat

\* The tree heads h commit to nothing but prefixes of the log l.
Commits(l, h) ==
  \A n \in DOMAIN h : n \in 1..Len(l) /\ h[n] = Prefix(Leaves(l), n)

\* Every stored tree head is the root of the first tree_size entries of the
\* stored log, whatever was interleaved, crashed, failed or lost: a signed
\* snapshot never runs ahead of the log column family, because the head is
\* written to the same WAL after the entries it covers.
HeadsArePrefixes == Commits(log, heads)

\* append_mu "keeps the in-memory MerkleTree consistent with the log": whenever
\* the lock is free, the tree has exactly the leaves of the stored log, also
\* after failed writes and after a rebuild at startup.
TreeMatchesLog == (up /\ mu = Free) => merkle = Leaves(log)

\* The keys of the log are in the order of insertion and next_seq is beyond the
\* last one, so no sequence number is ever assigned to two stored entries.
SeqsIncrease ==
  /\ \A i, j \in 1..Len(log) : i < j => log[i].seq < log[j].seq
  /\ up => \A i \in 1..Len(log) : log[i].seq < nextSeq

\* While no database write has failed, the sequence number of an entry is its
\* leaf index: what InclusionProof assumes when it takes seq for the index.
SeqIsLeafIndex ==
  failures = 0 => \A i \in 1..Len(log) : log[i].seq = i - 1

\* No failed write has left a gap below an entry of the log.
Gapless == \A i \in 1..Len(log) : log[i].seq = i - 1

\* An acknowledged entry is in the log under the sequence number the client was
\* given, through any process crash and failed write (power loss excepted).
AckedIsStored ==
  losses = 0 => \A a \in acked : \E i \in 1..Len(log) : log[i] = a

\* Except by a power loss the log only grows at its end, and no step withdraws a
\* stored tree head or changes the root it commits to.
AppendOnly ==
  [][ losses' = losses =>
        /\ IsPrefixOf(log, log')
        /\ \A n \in DOMAIN heads : n \in DOMAIN heads' /\ heads'[n] = heads[n] ]_<<log, heads>>

\* The tree head force_sth returns covers the log the call found: its root extends
\* the snapshot taken at the start of the call, also when the STH task or another
\* call signed meanwhile, stored a smaller tree head late, or the size was skipped
\* as already signed.
ForcedHeadCovers ==
  [][ \A s \in Signers :
        (spc[s] = "answer" /\ spc'[s] = "idle" /\ up') => IsPrefixOf(snap[s], trusted')
    ]_vars

\* Every stored entry is eventually covered by a signed tree head (the maximum
\* merge delay is finite), also when the server crashes before signing.
EventuallySigned ==
  \A i \in 1..MaxSeq : Len(log) >= i ~> \E n \in DOMAIN heads : n >= i

\* The server, its locks, crashes, restarts and failing writes included,
\* implements an append-only log whose receipts and published tree heads never
\* outrun it (no power loss: MaxLosses = 0).
Abstract == INSTANCE TransparencyLog WITH
  Seqs <- Nat,
  Payloads <- Data,
  entries <- log,
  receipts <- acked,
  published <- {heads[n] : n \in DOMAIN heads},
  held <- trusted

IsTransparencyLog == Abstract!TSpec
=============================================================================
