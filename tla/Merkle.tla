------------------------------- MODULE Merkle -------------------------------
(***************************************************************************)
(* The RFC 6962 algorithms of settled-core (merkle.rs, proof.rs), of the   *)
(* client libraries (one verifier, written in six languages; modelled from *)
(* the Rust library) and of the web console (verify.ts).                   *)
(*                                                                         *)
(* A hash is a term.  The hash of the data d is the 1-tuple <<d>>, the     *)
(* hash of an interior node the pair of its children: SHA-256 with the     *)
(* 0x00 / 0x01 prefixes, taken to be free of collisions.                   *)
(***************************************************************************)
EXTENDS Integers, Sequences, SequencesExt

leaf_hash(d) == <<d>>
node_hash(left, right) == <<left, right>>

\* The value of a frontier slot that holds no subtree: [0u8; 32].
Zero == <<>>

\* Option and Result: nothing, or one value.
None == <<>>
Some(x) == <<x>>

\* (x >> n) & 1
Bit(x, n) == (x \div 2^n) % 2

\* Position of the highest set bit of x > 0: BITS - 1 - x.leading_zeros().
HighestBit(x) == CHOOSE i \in 0..x : 2^i <= x /\ x < 2^(i + 1)

\* k(n) of settled-core: the largest power of 2 strictly less than n > 1.
k(n) == 2^HighestBit(n - 1)

Left(s, n)  == SubSeq(s, 1, n)
Right(s, n) == SubSeq(s, n + 1, Len(s))

-----------------------------------------------------------------------------
(* Roots and proofs, computed by the server from a sequence of leaf hashes. *)

\* mth(&[]) is None; every caller below has at least one leaf.
RECURSIVE mth(_)
mth(hashes) ==
  IF Len(hashes) = 1
  THEN hashes[1]
  ELSE LET n == k(Len(hashes))
       IN node_hash(mth(Left(hashes, n)), mth(Right(hashes, n)))

RECURSIVE path(_, _)
path(hashes, m) ==
  IF Len(hashes) = 1
  THEN <<>>
  ELSE LET n == k(Len(hashes))
       IN IF m < n
          THEN Append(path(Left(hashes, n), m), mth(Right(hashes, n)))
          ELSE Append(path(Right(hashes, n), m - n), mth(Left(hashes, n)))

inclusion_proof(hashes, leaf_index) ==
  IF leaf_index >= Len(hashes) THEN None ELSE Some(path(hashes, leaf_index))

RECURSIVE subproof(_, _, _)
subproof(hashes, m, b) ==
  IF m = Len(hashes)
  THEN IF b THEN <<>> ELSE <<mth(hashes)>>
  ELSE LET n == k(Len(hashes))
       IN IF m <= n
          THEN Append(subproof(Left(hashes, n), m, b), mth(Right(hashes, n)))
          ELSE Append(subproof(Right(hashes, n), m - n, FALSE), mth(Left(hashes, n)))

consistency_proof(hashes, old_size) ==
  CASE old_size = 0 \/ old_size > Len(hashes) -> None
    [] old_size = Len(hashes) -> Some(<<>>)
    [] OTHER -> Some(subproof(hashes, old_size, TRUE))

-----------------------------------------------------------------------------
(* The verifiers, run by clients.                                          *)

\* while fn != 0 && fn & 1 == 0 { fn >>= 1; sn >>= 1 }
RECURSIVE SkipEven(_)
SkipEven(st) ==
  IF st.fn # 0 /\ st.fn % 2 = 0
  THEN SkipEven([st EXCEPT !.fn = @ \div 2, !.sn = @ \div 2])
  ELSE st

\* Mutation: levels without a sibling are not skipped.
Combine_NoSkip(st, step) ==
  IF st.fn % 2 = 1 \/ st.fn = st.sn
  THEN [st EXCEPT !.r = node_hash(step, @)]
  ELSE [st EXCEPT !.r = node_hash(@, step)]

\* One round of the loop over the proof, up to the final shifts.
Combine(st, step) ==
  IF st.fn % 2 = 1 \/ st.fn = st.sn
  THEN SkipEven([st EXCEPT !.r = node_hash(step, @)])
  ELSE [st EXCEPT !.r = node_hash(@, step)]

RECURSIVE Climb(_, _)
Climb(st, proof) ==
  CASE proof = <<>> -> Some(st)
    [] proof # <<>> /\ st.sn = 0 -> None
    [] OTHER ->
         LET c == Combine(st, Head(proof))
         IN Climb([c EXCEPT !.fn = @ \div 2, !.sn = @ \div 2], Tail(proof))

\* Mutation: the range check on the index is missing.
verify_inclusion_AnyIndex(leaf, leaf_index, tree_size, proof, root) ==
  /\ tree_size # 0
  /\ \E st \in ToSet(Climb([fn |-> leaf_index, sn |-> tree_size - 1, r |-> leaf], proof)) :
       st.sn = 0 /\ st.r = root

verify_inclusion(leaf, leaf_index, tree_size, proof, root) ==
  /\ tree_size # 0
  /\ leaf_index < tree_size
  /\ \E st \in ToSet(Climb([fn |-> leaf_index, sn |-> tree_size - 1, r |-> leaf], proof)) :
       st.sn = 0 /\ st.r = root

\* Takes the next hash of the proof (iter.next()?) and hands it to the caller.
Taken(sub, Build(_, _)) ==
  IF sub = None \/ (sub # None /\ sub[1].rest = <<>>)
  THEN None
  ELSE Some(Build(sub[1], Head(sub[1].rest)))

\* The two reconstructed roots and what is left of the proof.
RECURSIVE verify_subproof(_, _, _, _, _)
verify_subproof(m, n, old_root, proof, b) ==
  LET split == k(n)
      Shared(sub, h) ==
        [old |-> sub.old, new |-> node_hash(sub.new, h), rest |-> Tail(sub.rest)]
      Both(sub, h) ==
        [old |-> node_hash(h, sub.old), new |-> node_hash(h, sub.new), rest |-> Tail(sub.rest)]
  IN CASE m = n /\ b ->
            Some([old |-> old_root, new |-> old_root, rest |-> proof])
       [] m = n /\ ~b ->
            IF proof = <<>>
            THEN None
            ELSE Some([old |-> Head(proof), new |-> Head(proof), rest |-> Tail(proof)])
       [] m # n /\ m <= split ->
            Taken(verify_subproof(m, split, old_root, proof, b), Shared)
       [] m # n /\ m > split ->
            Taken(verify_subproof(m - split, n - split, old_root, proof, FALSE), Both)

\* Mutation: the reconstructed old root is not compared.
verify_consistency_NewOnly(old_size, new_size, proof, old_root, new_root) ==
  IF old_size = new_size
  THEN proof = <<>> /\ old_root = new_root
  ELSE /\ old_size # 0
       /\ old_size <= new_size
       /\ \E res \in ToSet(verify_subproof(old_size, new_size, old_root, proof, TRUE)) :
            res.rest = <<>> /\ res.new = new_root

verify_consistency(old_size, new_size, proof, old_root, new_root) ==
  IF old_size = new_size
  THEN proof = <<>> /\ old_root = new_root
  ELSE /\ old_size # 0
       /\ old_size <= new_size
       /\ \E res \in ToSet(verify_subproof(old_size, new_size, old_root, proof, TRUE)) :
            res.rest = <<>> /\ res.old = old_root /\ res.new = new_root

-----------------------------------------------------------------------------
(* The consistency verifier of the client libraries: another split, and a   *)
(* cursor into the proof instead of an iterator.                            *)

\* for p*2 < n { p <<= 1 }
RECURSIVE Doubled(_, _)
Doubled(p, n) == IF p * 2 < n THEN Doubled(p * 2, n) ELSE p

sdk_split(n) == Doubled(1, n)

\* next(): the element under the cursor, if there is one.
HasNext(res, proof) == res # None /\ res[1].idx < Len(proof)

RECURSIVE sdk_verify_subproof(_, _, _, _, _, _)
sdk_verify_subproof(m, n, old_root, proof, idx, b) ==
  IF m = n
  THEN IF b
       THEN Some([old |-> old_root, new |-> old_root, idx |-> idx])
       ELSE IF idx < Len(proof)
            THEN Some([old |-> proof[idx + 1], new |-> proof[idx + 1], idx |-> idx + 1])
            ELSE None
  ELSE LET half == sdk_split(n)
           res == IF m <= half
                  THEN sdk_verify_subproof(m, half, old_root, proof, idx, b)
                  ELSE sdk_verify_subproof(m - half, n - half, old_root, proof, idx, FALSE)
       IN IF ~HasNext(res, proof)
          THEN None
          ELSE LET h == proof[res[1].idx + 1]
               IN Some([old |-> IF m <= half THEN res[1].old ELSE node_hash(h, res[1].old),
                        new |-> IF m <= half THEN node_hash(res[1].new, h)
                                             ELSE node_hash(h, res[1].new),
                        idx |-> res[1].idx + 1])

\* Mutations: the recursion starts as below a split; the new root is not compared.
sdk_verify_consistency_NotShared(old_size, new_size, proof, old_root, new_root) ==
  IF old_size = new_size
  THEN Len(proof) = 0 /\ old_root = new_root
  ELSE /\ ~(old_size = 0 \/ old_size > new_size)
       /\ \E res \in ToSet(sdk_verify_subproof(old_size, new_size, old_root, proof, 0, FALSE)) :
            res.idx = Len(proof) /\ res.old = old_root /\ res.new = new_root

sdk_verify_consistency_OldOnly(old_size, new_size, proof, old_root, new_root) ==
  IF old_size = new_size
  THEN Len(proof) = 0 /\ old_root = new_root
  ELSE /\ ~(old_size = 0 \/ old_size > new_size)
       /\ \E res \in ToSet(sdk_verify_subproof(old_size, new_size, old_root, proof, 0, TRUE)) :
            res.idx = Len(proof) /\ res.old = old_root

sdk_verify_consistency(old_size, new_size, proof, old_root, new_root) ==
  IF old_size = new_size
  THEN Len(proof) = 0 /\ old_root = new_root
  ELSE /\ ~(old_size = 0 \/ old_size > new_size)
       /\ \E res \in ToSet(sdk_verify_subproof(old_size, new_size, old_root, proof, 0, TRUE)) :
            res.idx = Len(proof) /\ res.old = old_root /\ res.new = new_root

-----------------------------------------------------------------------------
\* verifyInclusion of the web console: no skipping of levels, no length check.
RECURSIVE UiClimb(_, _)
UiClimb(st, proof) ==
  IF proof = <<>>
  THEN st.current
  ELSE UiClimb(
         [current |-> IF st.idx % 2 = 1 \/ st.idx = st.size - 1
                      THEN node_hash(Head(proof), st.current)
                      ELSE node_hash(st.current, Head(proof)),
          idx     |-> st.idx \div 2,
          size    |-> (st.size + 1) \div 2],
         Tail(proof))

UiVerifyInclusion(leaf, leaf_index, tree_size, proof, root) ==
  UiClimb([current |-> leaf, idx |-> leaf_index, size |-> tree_size], proof) = root
=============================================================================
