-------------------------- MODULE TransparencyLog --------------------------
(***************************************************************************)
(* What the log promises its clients: an append-only sequence of records,  *)
(* acknowledgments of records that are in it, published commitments to its *)
(* prefixes, and clients that hold one of the published commitments.       *)
(***************************************************************************)
EXTENDS Integers, Sequences

CONSTANTS Seqs, Payloads  \* sequence numbers and leaf hashes

VARIABLES
  entries,    \* the log: records [seq, leaf]
  receipts,   \* records acknowledged to clients
  published,  \* leaf sequences committed to by a tree head
  held        \* the commitment a client holds (<<>>: none)

tvars == <<entries, receipts, published, held>>

Begins(s, t) == Len(s) <= Len(t) /\ s = SubSeq(t, 1, Len(s))

LeavesOf(l) == [i \in 1..Len(l) |-> l[i].leaf]

TInit ==
  /\ entries = <<>>
  /\ receipts = {}
  /\ published = {}
  /\ held = <<>>

\* The log grows at its end by records with new, increasing sequence numbers.
Grow ==
  /\ entries' # entries
  /\ Begins(entries, entries')
  /\ \A i \in (Len(entries) + 1)..Len(entries') :
       /\ entries'[i] \in [seq : Seqs, leaf : Payloads]
       /\ i > 1 => entries'[i].seq > entries'[i - 1].seq
  /\ UNCHANGED <<receipts, published, held>>

\* Records of the log are acknowledged.
Acknowledge ==
  /\ receipts \subseteq receipts'
  /\ \A r \in receipts' : \E i \in 1..Len(entries) : entries[i] = r
  /\ UNCHANGED <<entries, published, held>>

\* A commitment to a nonempty prefix of the log is published.
Publish ==
  /\ \E n \in 1..Len(entries) :
       published' = published \cup {SubSeq(LeavesOf(entries), 1, n)}
  /\ UNCHANGED <<entries, receipts, held>>

\* A client obtains a published commitment.
Obtain ==
  /\ held' \in published
  /\ UNCHANGED <<entries, receipts, published>>

TNext == Grow \/ Acknowledge \/ Publish \/ Obtain

TSpec == TInit /\ [][TNext]_tvars
=============================================================================
