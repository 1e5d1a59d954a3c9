---------------------------- MODULE AppendStream ----------------------------
(***************************************************************************)
(* appendStream of the TypeScript client against the token bucket of the   *)
(* server.  The generator takes entries from its input, collects them in a *)
(* batch that is sent when it is full or when the flush timer fires, and   *)
(* yields the results of the batches.  JavaScript runs to the next await:  *)
(* the timer fires, and answers arrive, only while the generator waits for *)
(* its input or for a batch.  Entries are numbered in input order.         *)
(***************************************************************************)
EXTENDS RateLimiter, Sequences, SequencesExt

CONSTANTS
  MaxEntries,  \* bound on the length of the input
  BatchSize,   \* options.batchSize
  MaxLost      \* bound on answers that are lost

ASSUME AppendStreamAssumption ==
  MaxEntries \in Nat /\ BatchSize \in Nat \ {0} /\ MaxLost \in Nat

VARIABLES
  pc,       \* waits for "input" or for a "batch", or is "done" or has "failed"
  taken,    \* entries taken from the input
  ended,    \* the input has ended
  batch,    \* entries collected
  timer,    \* flushTimer is armed
  awaited,  \* the batch whose promise is awaited
  pending,  \* batches sent and not awaited yet
  call,     \* entry: "none", "sent", "ok" or "error"
  yielded,  \* entries whose result was yielded
  log,      \* entries in the order the server stored them
  lost      \* answers lost

stream == <<pc, taken, ended, batch, timer, awaited, pending, call, yielded, log, lost>>
svars == <<vars, stream>>

SInit ==
  /\ Init
  /\ pc = "input"
  /\ taken = 0
  /\ ended = FALSE
  /\ batch = <<>>
  /\ timer = FALSE
  /\ awaited = <<>>
  /\ pending = <<>>
  /\ call = [e \in 1..MaxEntries |-> "none"]
  /\ yielded = <<>>
  /\ log = <<>>
  /\ lost = 0

\* flush: one append call for each entry of the batch b.
Send(b) ==
  /\ batch' = <<>>
  /\ call' = [e \in DOMAIN call |-> IF e \in ToSet(b) THEN "sent" ELSE call[e]]

\* flush pushes a promise unless the batch is empty.
Flushed(b) == IF b = <<>> THEN pending ELSE Append(pending, b)

\* The first of the batches p is awaited, or there is nothing to wait for.
Drain(p) ==
  /\ awaited' = IF p = <<>> THEN <<>> ELSE Head(p)
  /\ pending' = IF p = <<>> THEN <<>> ELSE Tail(p)
  /\ pc' = CASE p # <<>> -> "batch"
             [] p = <<>> /\ ended' -> "done"
             [] OTHER -> "input"

\* Mutation: the batches in flight are not awaited before the next entry.
Entry_NoDrain ==
  /\ pc = "input"
  /\ taken < MaxEntries
  /\ taken' = taken + 1
  /\ LET b == Append(batch, taken + 1)
     IN \/ /\ Len(b) >= BatchSize
           /\ timer' = FALSE
           /\ Send(b)
           /\ pending' = Append(pending, b)
        \/ /\ Len(b) < BatchSize
           /\ timer' = TRUE
           /\ batch' = b
           /\ UNCHANGED <<call, pending>>
  /\ UNCHANGED <<vars, pc, awaited, ended, yielded, log, lost>>

\* An entry arrives; a full batch is sent at once, another one arms the timer.
Entry ==
  /\ pc = "input"
  /\ taken < MaxEntries
  /\ taken' = taken + 1
  /\ UNCHANGED ended
  /\ LET b == Append(batch, taken + 1)
     IN \/ /\ Len(b) >= BatchSize
           /\ timer' = FALSE
           /\ Send(b)
           /\ Drain(Flushed(b))
        \/ /\ Len(b) < BatchSize
           /\ timer' = TRUE
           /\ batch' = b
           /\ Drain(pending)
           /\ UNCHANGED call
  /\ UNCHANGED <<vars, yielded, log, lost>>

\* The timer is not cleared when the generator has failed.
TimerFires ==
  /\ timer
  /\ timer' = FALSE
  /\ pending' = Flushed(batch)
  /\ Send(batch)
  /\ UNCHANGED <<vars, pc, taken, ended, awaited, yielded, log, lost>>

\* Mutation: the last batch is left behind.
InputEnds_NoFlush ==
  /\ pc = "input"
  /\ ended' = TRUE
  /\ timer' = FALSE
  /\ Drain(pending)
  /\ UNCHANGED <<vars, taken, batch, call, yielded, log, lost>>

InputEnds ==
  /\ pc = "input"
  /\ ended' = TRUE
  /\ timer' = FALSE
  /\ Send(batch)
  /\ Drain(Flushed(batch))
  /\ UNCHANGED <<vars, taken, yielded, log, lost>>

\* Promise.all is fulfilled by the last answer; the results are yielded.
BatchFulfilled ==
  /\ pc = "batch"
  /\ \A e \in ToSet(awaited) : call[e] = "ok"
  /\ yielded' = yielded \o awaited
  /\ UNCHANGED ended
  /\ Drain(pending)
  /\ UNCHANGED <<vars, taken, batch, timer, call, log, lost>>

\* Promise.all is rejected by the first error, and the generator throws it.
BatchRejected ==
  /\ pc = "batch"
  /\ \E e \in ToSet(awaited) : call[e] = "error"
  /\ pc' = "failed"
  /\ UNCHANGED <<vars, taken, ended, batch, timer, awaited, pending, call, yielded, log, lost>>

\* The server handles a call, in any order: stored, or refused by the bucket.
\* The answer to a stored entry may be lost.
Serve(e) ==
  /\ call[e] = "sent"
  /\ try_consume_n(1)
  /\ log' = IF Grants(1) THEN Append(log, e) ELSE log
  /\ \/ call' = [call EXCEPT ![e] = IF Grants(1) THEN "ok" ELSE "error"] /\ UNCHANGED lost
     \/ /\ Grants(1) /\ lost < MaxLost
        /\ lost' = lost + 1
        /\ call' = [call EXCEPT ![e] = "error"]
  /\ UNCHANGED <<pc, taken, ended, batch, timer, awaited, pending, yielded>>

\* Time passes, and other clients append.
Others ==
  /\ Next
  /\ UNCHANGED stream

SNext ==
  \/ Entry
  \/ TimerFires
  \/ InputEnds
  \/ BatchFulfilled
  \/ BatchRejected
  \/ \E e \in 1..MaxEntries : Serve(e)
  \/ Others

SSpec == SInit /\ [][SNext]_svars

-----------------------------------------------------------------------------
(* Properties.                                                             *)

\* "Applies back-pressure": however timer, input and answers interleave, never
\* more than batchSize calls are without an answer, also when a batch sent by
\* the timer overlaps with the one being awaited.
InFlightBounded == Cardinality({e \in DOMAIN call : call[e] = "sent"}) <= BatchSize

\* "Yields an AppendResult for each entry in input order": the results are those
\* of a prefix of the input, each for an entry stored exactly once, and a stream
\* that ends without an error has yielded the whole input.
YieldsInOrder ==
  /\ \A i \in DOMAIN yielded :
       /\ yielded[i] = i
       /\ Cardinality({j \in DOMAIN log : log[j] = i}) = 1
  /\ pc = "done" => Len(yielded) = taken
=============================================================================
