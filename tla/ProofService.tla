---------------------------- MODULE ProofService ----------------------------
(***************************************************************************)
(* The InclusionProof and ConsistencyProof handlers, running concurrently  *)
(* with the write path of LogServer, and the client that checks what they  *)
(* return.  A handler reads the tree size, the leaves and the tree heads   *)
(* in separate database reads, without append_mu.                          *)
(***************************************************************************)
EXTENDS LogServer, SequencesExt

M == INSTANCE Merkle

VARIABLES
  rpc,     \* "idle", "range", "oldHead", "head", "answered", "refused"
  ask,     \* the request, with the tree size resolved
  path,    \* the proof computed
  oldRoot, \* root of the old tree head of a consistency answer
  root     \* root of the tree head of the answer

reader == <<rpc, ask, path, oldRoot, root>>
pvars == <<vars, reader>>

NoAsk == [kind |-> "none", at |-> 0, size |-> 0, covered |-> FALSE]

ReaderIdle ==
  /\ rpc' = "idle"
  /\ ask' = NoAsk
  /\ path' = <<>>
  /\ oldRoot' = <<>>
  /\ root' = <<>>

PInit ==
  /\ Init
  /\ rpc = "idle"
  /\ ask = NoAsk
  /\ path = <<>>
  /\ oldRoot = <<>>
  /\ root = <<>>

Hashes(leaves) == [i \in 1..Len(leaves) |-> M!leaf_hash(leaves[i])]

\* A request names a tree size, or 0 for the one of the latest tree head.
Resolved(n) == IF n = 0 THEN LatestSize(heads) ELSE n

\* The server's state and the rest of the reader stay as they are.
Refuse ==
  /\ rpc' = "refused"
  /\ UNCHANGED <<vars, path, oldRoot, root>>

-----------------------------------------------------------------------------
\* InclusionProof, up to the read of the log.
InclusionProof(seq, n) ==
  /\ up
  /\ rpc = "idle"
  /\ IF n = 0 /\ DOMAIN heads = {}
     THEN /\ ask' = [kind |-> "inclusion", at |-> seq, size |-> 0, covered |-> FALSE]
          /\ Refuse
     ELSE /\ ask' = [kind |-> "inclusion", at |-> seq, size |-> Resolved(n),
                     covered |-> seq < Resolved(n) /\ Resolved(n) \in DOMAIN heads]
          /\ IF seq >= Resolved(n)
             THEN Refuse
             ELSE rpc' = "range" /\ UNCHANGED <<vars, path, oldRoot, root>>

\* ConsistencyProof, up to the read of the log.
ConsistencyProof(old, n) ==
  /\ up
  /\ rpc = "idle"
  /\ IF old = 0 \/ (n = 0 /\ DOMAIN heads = {})
     THEN /\ ask' = [kind |-> "consistency", at |-> old, size |-> 0, covered |-> FALSE]
          /\ Refuse
     ELSE /\ ask' = [kind |-> "consistency", at |-> old, size |-> Resolved(n),
                     covered |-> old <= Resolved(n) /\ {old, Resolved(n)} \subseteq DOMAIN heads]
          /\ IF old > Resolved(n)
             THEN Refuse
             ELSE rpc' = "range" /\ UNCHANGED <<vars, path, oldRoot, root>>

\* The leaves are read and the proof computed; an index beyond them is an error.
ReadRange ==
  /\ up
  /\ rpc = "range"
  /\ LET hashes == Hashes(Leaves(seq_range(log, ask.size)))
         proof == IF ask.kind = "inclusion"
                  THEN M!inclusion_proof(hashes, ask.at)
                  ELSE M!consistency_proof(hashes, ask.at)
     IN IF proof = M!None
        THEN Refuse
        ELSE /\ path' = proof[1]
             /\ rpc' = IF ask.kind = "inclusion" THEN "head" ELSE "oldHead"
             /\ UNCHANGED <<vars, oldRoot, root>>
  /\ UNCHANGED ask

\* heads.at_size(old_size)
ReadOldHead ==
  /\ up
  /\ rpc = "oldHead"
  /\ IF ask.at \notin DOMAIN heads
     THEN Refuse
     ELSE /\ oldRoot' = heads[ask.at]
          /\ rpc' = "head"
          /\ UNCHANGED <<vars, path, root>>
  /\ UNCHANGED ask

\* heads.at_size(tree_size), and the response.
ReadHead ==
  /\ up
  /\ rpc = "head"
  /\ IF ask.size \notin DOMAIN heads
     THEN Refuse
     ELSE /\ root' = heads[ask.size]
          /\ rpc' = "answered"
          /\ UNCHANGED <<vars, path, oldRoot>>
  /\ UNCHANGED ask

\* The client has looked at the response and may ask again.
NextRequest ==
  /\ rpc \in {"answered", "refused"}
  /\ ReaderIdle
  /\ UNCHANGED vars

-----------------------------------------------------------------------------
Ask ==
  \E n, m \in 0..MaxSeq : InclusionProof(n, m) \/ ConsistencyProof(n, m)

Serve == ReadRange \/ ReadOldHead \/ ReadHead

\* A stop of the process ends the call; an answer already sent stays.
Interrupted ==
  IF rpc \in {"answered", "refused"} THEN UNCHANGED reader ELSE ReaderIdle

PNext ==
  \/ /\ \/ \E w \in Writers : Write(w)
        \/ \E s \in Signers : Sign(s)
        \/ \E n \in DOMAIN heads : GetSth(n)
        \/ Start
     /\ UNCHANGED reader
  \/ Crash /\ Interrupted
  \/ Ask
  \/ Serve
  \/ NextRequest

PSpec == PInit /\ [][PNext]_pvars

-----------------------------------------------------------------------------
(* Properties.                                                             *)

\* The client's check of an inclusion answer, with the entry it was acknowledged.
Verifies(a) ==
  M!verify_inclusion(M!leaf_hash(a.leaf), ask.at, ask.size, path, M!mth(Hashes(root)))

AnswerVerifies ==
  (rpc = "answered" /\ ask.kind = "inclusion" /\ ask.covered) =>
    \A a \in acked : a.seq = ask.at => Verifies(a)

\* An inclusion proof for the sequence number of an acknowledged entry, asked for
\* when the tree head was already stored, verifies against the tree head in the
\* answer, whatever was appended, signed or restarted between the handler's
\* reads, as long as the sequence numbers have no gap.
InclusionAnswerVerifies == Gapless => AnswerVerifies

\* A consistency proof from the size of the tree head a client holds, asked for
\* when both tree heads were stored, verifies from the root the client holds to
\* the root in the answer (no gap in the sequence numbers).
ConsistencyAnswerVerifies ==
  (Gapless /\ rpc = "answered" /\ ask.kind = "consistency" /\ ask.covered
   /\ trusted # <<>> /\ Len(trusted) = ask.at) =>
    M!verify_consistency(ask.at, ask.size, path, M!mth(Hashes(trusted)), M!mth(Hashes(root)))

\* A proof for sizes whose tree heads were stored when the call came in, and
\* whose arguments are in range, is never refused (no gap in the sequence
\* numbers).
CoveredIsAnswered == (Gapless /\ rpc = "refused") => ~ask.covered

\* "The STH whose root_hash the proof verifies against." (proto/settled.v1.proto),
\* for proofs against a tree head stored when the call came in.
ProofVerifiesAgainstSth == AnswerVerifies
=============================================================================
