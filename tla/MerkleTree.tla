----------------------------- MODULE MerkleTree -----------------------------
(***************************************************************************)
(* The Merkle tree of a growing log: the frontier that the server keeps in *)
(* memory (merkle.rs), its rebuild at startup (AppState::build), and the   *)
(* column family of tree nodes (tree_store.rs), with its rebuild from the  *)
(* log.  The frontier counts the leaves, the nodes are stored under the    *)
(* sequence numbers of the entries: an append that fails sets the two      *)
(* apart.  The server writes no nodes; write_batch and rebuild_from_log    *)
(* are for the callers of the storage library.                             *)
(***************************************************************************)
EXTENDS Merkle, FiniteSets, TLC

CONSTANTS
  Data,         \* payloads
  MaxLeaves,    \* bound on the number of entries
  TreeLeaves,   \* the same once an append failed or the tree store was used
  MaxRebuilds,  \* bound on calls of rebuild_from_log
  MaxWrites,    \* bound on other calls of write_batch
  MaxFailures,  \* bound on failing database writes
  MaxCrashes,   \* bound on process crashes
  MaxProof,     \* length of the longest candidate proof
  SoundLeaves   \* bound on the logs whose candidate proofs are all tried

ASSUME MerkleTreeAssumption ==
  /\ MaxLeaves \in Nat /\ TreeLeaves \in 0..MaxLeaves
  /\ MaxRebuilds \in Nat /\ MaxWrites \in Nat
  /\ MaxFailures \in Nat /\ MaxCrashes \in Nat
  /\ MaxProof \in Nat /\ SoundLeaves \in Nat
  /\ 0 \notin Data

VARIABLES
  log,         \* log column family: its entries [seq, leaf] in order
  nextSeq,     \* DbInner.next_seq
  frontier,    \* MerkleTree.frontier, slot i at position i + 1
  size,        \* MerkleTree.size
  nodes,       \* tree column family: <<level, index>> -> hash
  stray,       \* nodes written by other callers than rebuild_from_log
  rebuilding,  \* rebuild_from_log: "idle", "delete", "read", "write"
  doomed,      \* the keys it is about to delete
  computed,    \* the nodes it is about to write
  since,       \* number of entries when it began
  rebuilds, writes, failures, crashes

tree   == <<nodes, stray>>
locals == <<doomed, computed, since>>
bounds == <<rebuilds, writes, failures, crashes>>
vars   == <<log, nextSeq, frontier, size, tree, rebuilding, locals, bounds>>

NoNodes == [n \in {} |-> Zero]

\* The leaf hashes of the log, in order.
leaves == [i \in 1..Len(log) |-> log[i].leaf]

-----------------------------------------------------------------------------
(* The frontier.                                                           *)

\* The level reached while the bits of the size are set, and the hash there.
RECURSIVE Carry(_, _, _, _)
Carry(f, n, hash, level) ==
  IF Bit(n, level) # 0
  THEN Carry(f, n, node_hash(f[level + 1], hash), level + 1)
  ELSE [hash |-> hash, level |-> level]

AppendLeaf(f, n, lh) ==
  LET c == Carry(f, n, lh, 0)
      placed == IF c.level < Len(f)
                THEN [f EXCEPT ![c.level + 1] = c.hash]
                ELSE Append(f, c.hash)
  IN [i \in 1..Len(placed) |-> IF i <= c.level THEN Zero ELSE placed[i]]

\* MerkleTree::root: from the lowest occupied level up.
RECURSIVE RootFrom(_, _, _, _)
RootFrom(f, n, level, hash) ==
  CASE level >= Len(f) -> hash
    [] level < Len(f) /\ Bit(n, level) = 0 -> RootFrom(f, n, level + 1, hash)
    [] OTHER -> RootFrom(f, n, level + 1,
                  IF hash = None THEN Some(f[level + 1])
                  ELSE Some(node_hash(f[level + 1], hash[1])))

\* Mutation: the occupied levels are taken for all levels.
root_TopLevel(f, n) == IF n = 0 THEN None ELSE Some(f[Len(f)])

root(f, n) == IF n = 0 THEN None ELSE RootFrom(f, n, 0, None)

\* AppendState at startup: a new tree, every stored leaf appended in order.
RECURSIVE Rebuilt(_)
Rebuilt(hashes) ==
  IF hashes = <<>>
  THEN <<>>
  ELSE AppendLeaf(Rebuilt(Front(hashes)), Len(hashes) - 1, Last(hashes))

-----------------------------------------------------------------------------
(* The tree column family.                                                 *)

\* Mutation: the children of a parent are swapped.
RECURSIVE Parents_Swapped(_, _, _)
Parents_Swapped(cache, j, h) ==
  LET idx == j \div 2^h
      left == <<h - 1, 2 * idx>>
      right == <<h - 1, 2 * idx + 1>>
  IN CASE ~(h < 63 /\ (j + 1) % 2^h = 0) -> Some(cache)
       [] h < 63 /\ (j + 1) % 2^h = 0 /\ ~({left, right} \subseteq DOMAIN cache) -> None
       [] OTHER -> Parents_Swapped(
                     (<<h, idx>> :> node_hash(cache[right], cache[left])) @@ cache, j, h + 1)

\* Parents completed by leaf j, level by level.  A child that is not in the cache
\* is a panic (HashMap index): None.
RECURSIVE Parents(_, _, _)
Parents(cache, j, h) ==
  LET idx == j \div 2^h
      left == <<h - 1, 2 * idx>>
      right == <<h - 1, 2 * idx + 1>>
  IN CASE ~(h < 63 /\ (j + 1) % 2^h = 0) -> Some(cache)
       [] h < 63 /\ (j + 1) % 2^h = 0 /\ ~({left, right} \subseteq DOMAIN cache) -> None
       [] OTHER -> Parents((<<h, idx>> :> node_hash(cache[left], cache[right])) @@ cache, j, h + 1)

\* The nodes for (seq, leaf_hash) pairs in ascending order, or None.
RECURSIVE compute_nodes_from_leaves(_)
compute_nodes_from_leaves(entries) ==
  IF entries = <<>>
  THEN Some(NoNodes)
  ELSE LET j == Last(entries).seq
           before == compute_nodes_from_leaves(Front(entries))
       IN IF before = None
          THEN None
          ELSE Parents((<<0, j>> :> Last(entries).leaf) @@ before[1], j, 1)

-----------------------------------------------------------------------------
Init ==
  /\ log = <<>>
  /\ nextSeq = 0
  /\ frontier = <<>>
  /\ size = 0
  /\ nodes = NoNodes
  /\ stray = {}
  /\ rebuilding = "idle"
  /\ doomed = {}
  /\ computed = NoNodes
  /\ since = 0
  /\ rebuilds = 0 /\ writes = 0 /\ failures = 0 /\ crashes = 0

Plain == rebuilds + writes + failures = 0
Room == Len(log) < IF Plain THEN MaxLeaves ELSE TreeLeaves

\* The entry is stored under the next sequence number and MerkleTree::append
\* called, under append_mu.
AppendEntry(d) ==
  /\ Room
  /\ log' = Append(log, [seq |-> nextSeq, leaf |-> leaf_hash(d)])
  /\ nextSeq' = nextSeq + 1
  /\ frontier' = AppendLeaf(frontier, size, leaf_hash(d))
  /\ size' = size + 1
  /\ UNCHANGED <<tree, rebuilding, locals, bounds>>

\* The database write fails; the number that was reserved is not used again.
AppendFails ==
  /\ Len(log) < TreeLeaves
  /\ failures < MaxFailures
  /\ failures' = failures + 1
  /\ nextSeq' = nextSeq + 1
  /\ UNCHANGED <<log, frontier, size, tree, rebuilding, locals, rebuilds, writes, crashes>>

\* write_batch by another caller: the nodes of the log as it is, numbered by
\* position, or a node that has nothing to do with it.
WriteBatch ==
  /\ Len(log) <= TreeLeaves
  /\ writes < MaxWrites
  /\ writes' = writes + 1
  /\ \E batch \in
          ToSet(compute_nodes_from_leaves([i \in 1..Len(log) |-> [log[i] EXCEPT !.seq = i - 1]]))
            \cup {<<1, 0>> :> leaf_hash(0)} :
       nodes' = batch @@ nodes /\ stray' = stray \cup DOMAIN batch
  /\ UNCHANGED <<log, nextSeq, frontier, size, rebuilding, locals, rebuilds, failures, crashes>>

\* rebuild_from_log collects the keys of all nodes ...
RebuildScan ==
  /\ rebuilding = "idle"
  /\ Len(log) <= TreeLeaves
  /\ rebuilds < MaxRebuilds
  /\ rebuilds' = rebuilds + 1
  /\ rebuilding' = "delete"
  /\ doomed' = DOMAIN nodes
  /\ since' = Len(log)
  /\ UNCHANGED <<log, nextSeq, frontier, size, tree, computed, writes, failures, crashes>>

\* Mutation: the nodes found are left to be overwritten.
RebuildDelete_Keeps ==
  /\ rebuilding = "delete"
  /\ stray' = stray \ doomed
  /\ doomed' = {}
  /\ rebuilding' = "read"
  /\ UNCHANGED <<log, nextSeq, frontier, size, nodes, computed, since, bounds>>

\* ... deletes them in one batch ...
RebuildDelete ==
  /\ rebuilding = "delete"
  /\ nodes' = [p \in DOMAIN nodes \ doomed |-> nodes[p]]
  /\ stray' = stray \ doomed
  /\ doomed' = {}
  /\ rebuilding' = "read"
  /\ UNCHANGED <<log, nextSeq, frontier, size, computed, since, bounds>>

\* ... reads the whole log and computes its nodes, or panics ...
RebuildRead ==
  /\ rebuilding = "read"
  /\ LET found == compute_nodes_from_leaves(log)
     IN \/ /\ found # None
           /\ computed' = found[1]
           /\ rebuilding' = "write"
           /\ UNCHANGED since
        \/ /\ found = None
           /\ computed' = NoNodes
           /\ rebuilding' = "idle"
           /\ since' = 0
  /\ UNCHANGED <<log, nextSeq, frontier, size, tree, doomed, bounds>>

\* ... and puts the nodes in one batch.
RebuildWrite ==
  /\ rebuilding = "write"
  /\ nodes' = computed @@ nodes
  /\ stray' = stray \ DOMAIN computed
  /\ computed' = NoNodes
  /\ since' = 0
  /\ rebuilding' = "idle"
  /\ UNCHANGED <<log, nextSeq, frontier, size, doomed, bounds>>

\* One of its database calls fails and the error is returned.
RebuildFails ==
  /\ rebuilding # "idle"
  /\ failures < MaxFailures
  /\ failures' = failures + 1
  /\ rebuilding' = "idle"
  /\ doomed' = {} /\ computed' = NoNodes /\ since' = 0
  /\ UNCHANGED <<log, nextSeq, frontier, size, tree, rebuilds, writes, crashes>>

\* The process dies and starts again: the next sequence number follows the last
\* stored one, and the frontier is rebuilt from the log.
CrashRestart ==
  /\ crashes < MaxCrashes
  /\ crashes' = crashes + 1
  /\ nextSeq' = IF log = <<>> THEN 0 ELSE Last(log).seq + 1
  /\ frontier' = Rebuilt(leaves)
  /\ size' = Len(log)
  /\ rebuilding' = "idle"
  /\ doomed' = {} /\ computed' = NoNodes /\ since' = 0
  /\ UNCHANGED <<log, tree, rebuilds, writes, failures>>

Next ==
  \/ \E d \in Data : AppendEntry(d)
  \/ AppendFails
  \/ WriteBatch
  \/ RebuildScan
  \/ RebuildDelete
  \/ RebuildRead
  \/ RebuildWrite
  \/ RebuildFails
  \/ CrashRestart

Spec == Init /\ [][Next]_vars

-----------------------------------------------------------------------------
(* Reference definitions.                                                  *)

\* The sequence numbers below node p, and those stored in the first n entries.
Below(p) == (p[2] * 2^p[1])..((p[2] + 1) * 2^p[1] - 1)
Stored(n) == {log[i].seq : i \in 1..n}

\* The nodes whose subtree is complete in the first n entries, and those whose last
\* entry is there and another is missing.
Positions == (0..TreeLeaves) \X (0..(TreeLeaves + MaxFailures))
CompleteNodes(n) == {p \in Positions : Below(p) \subseteq Stored(n)}
BrokenNodes(n) == {p \in Positions : Max(Below(p)) \in Stored(n)} \ CompleteNodes(n)

\* The hash of a complete subtree.
SubtreeHash(p) == mth([i \in 1..2^p[1] |->
                         (CHOOSE e \in ToSet(log) : e.seq = p[2] * 2^p[1] + i - 1).leaf])

\* RFC 6962 roots of the log at its past sizes.
RootAt(n) == mth(Left(leaves, n))

\* The hashes an observer of the log may hold: those of all its stretches, and
\* a leaf that is not in it.
Foreign == leaf_hash(0)
Known == {Foreign} \cup {mth(SubSeq(leaves, i, j)) : <<i, j>> \in
                           {p \in (1..size) \X (1..size) : p[1] <= p[2]}}

\* Candidate proofs: up to MaxProof known hashes, in any order.  Of the proofs the
\* server builds up to SoundLeaves, the consistency proof from 3 to 5 is longer.
Candidates == UNION {[1..n -> Known] : n \in 0..MaxProof}

\* The server's longer proofs from size m on, with up to two hashes replaced.
Altered(m) ==
  UNION {{[proof EXCEPT ![i] = x, ![j] = y] : i, j \in DOMAIN proof, x, y \in Known} :
         proof \in {p \in ToSet(consistency_proof(leaves, m)) : Len(p) > MaxProof}}

\* What a verifier accepts depends on the leaves alone: every log up to the bound
\* is examined once.
Examined == size \in 1..SoundLeaves /\ Plain /\ crashes = 0

-----------------------------------------------------------------------------
(* Properties.                                                             *)

\* The root computed from the frontier is the RFC 6962 tree hash of the log, at
\* every size and across restarts.
RootIsTreeHash ==
  /\ size = Len(leaves)
  /\ root(frontier, size) = IF size = 0 THEN None ELSE Some(RootAt(size))

\* Every inclusion proof the server builds, for every leaf and every signed
\* size, is accepted by the verifiers of the libraries and of the console.
InclusionComplete ==
  \A n \in 1..size : \A m \in 0..(n - 1) :
    \A proof \in ToSet(inclusion_proof(Left(leaves, n), m)) :
      /\ verify_inclusion(leaves[m + 1], m, n, proof, RootAt(n))
      /\ UiVerifyInclusion(leaves[m + 1], m, n, proof, RootAt(n))

\* Every consistency proof between two signed sizes is accepted by the core and
\* by the client libraries, which split and consume the proof differently.
ConsistencyComplete ==
  \A n \in 1..size : \A m \in 1..n :
    \A proof \in ToSet(consistency_proof(Left(leaves, n), m)) :
      /\ verify_consistency(m, n, proof, RootAt(m), RootAt(n))
      /\ sdk_verify_consistency(m, n, proof, RootAt(m), RootAt(n))

\* An accepted inclusion proof against the true root shows the leaf at that
\* position, and no second proof of it exists.
InclusionSound ==
  Examined => \A proof \in Candidates, lh \in {leaf_hash(d) : d \in Data \cup {0}} :
    \A m \in 0..size :
      verify_inclusion(lh, m, size, proof, RootAt(size)) =>
        /\ m < size
        /\ lh = leaves[m + 1]
        /\ proof = path(leaves, m)

\* A consistency proof that the core or the client libraries accept shows that the
\* old root is the root of the log's own prefix of the old size: no other history
\* of that size passes.
ConsistencySound ==
  Examined => \A m \in 1..size :
    \A old \in {mth([i \in 1..m |-> leaf_hash(s[i])]) : s \in [1..m -> Data]} :
      \A proof \in Candidates \cup Altered(m) :
        (\/ verify_consistency(m, size, proof, old, RootAt(size))
         \/ sdk_verify_consistency(m, size, proof, old, RootAt(size))) => old = RootAt(m)

\* Whatever rebuild_from_log has put into the tree column family, seen in the middle
\* of another rebuild, after an interrupted or failed one, or with appends and other
\* writers interleaved, is the hash of the complete subtree of these sequence numbers.
NodesAreSubtrees ==
  \A p \in DOMAIN nodes \ stray : p \in CompleteNodes(Len(log)) /\ nodes[p] = SubtreeHash(p)

\* A rebuild that was neither interrupted nor failed has seen all the entries there
\* were when it began.  Then, apart from what others wrote meanwhile, nothing is left
\* of what was there before, and exactly the complete subtrees of the entries it read
\* are there; or a gap in the sequence numbers lies below a subtree whose last entry
\* is stored, and it has panicked and left nothing.
RebuildRestores ==
  [][ (rebuilding # "idle" /\ rebuilding' = "idle" /\ crashes' = crashes /\ failures' = failures)
      => \E n \in since..Len(log) :
           DOMAIN nodes' \ stray' = IF BrokenNodes(n) = {} THEN CompleteNodes(n) ELSE {}
    ]_vars
=============================================================================
