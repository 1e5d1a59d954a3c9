------------------------------- MODULE Watch -------------------------------
(***************************************************************************)
(* Watch streams: the broadcast of appended entries by the Append and      *)
(* BatchAppend handlers, the stream task (subscribe, replay from the log,  *)
(* live phase), the bounded channels on the way, and a client that         *)
(* reconnects when a stream ends.                                          *)
(*                                                                         *)
(* An entry is its sequence number.  The log is 0..(nextSeq - 1): the part *)
(* of a handler under append_mu is one action here (module LogServer has   *)
(* its steps; no write fails in this module), the sends that follow it are *)
(* one action each because the lock is released before them.               *)
(***************************************************************************)
EXTENDS Integers, Sequences, SequencesExt

CONSTANTS
  Writers,      \* concurrent Append / BatchAppend handlers
  MaxBatch,     \* bound on the entries of a request
  MaxSeq,       \* bound on next_seq
  ChannelCap,   \* WATCH_CHANNEL_CAP, 1024
  PipeCap,      \* capacity of the channel to the response stream, 128
  PageSize,     \* entries per page of the replay, 200
  FromSeqs,     \* from_seq of a client's first connection
  MaxConnects   \* bound on connections

ASSUME WatchAssumption ==
  /\ MaxBatch \in Nat \ {0} /\ MaxSeq \in Nat
  /\ ChannelCap \in Nat \ {0} /\ PipeCap \in Nat \ {0} /\ PageSize \in Nat \ {0}
  /\ FromSeqs \subseteq Nat /\ MaxConnects \in Nat

VARIABLES
  nextSeq,   \* entries in the log
  pending,   \* handler: entries committed and not yet sent to watch_tx
  chan,      \* everything sent to watch_tx
  overtaken, \* history: some entry was sent before one with a smaller number
  spc,       \* stream task: "off", "replay", "page", "live", "push", "lagged", "closed"
  from,      \* from_seq of the connection
  base,      \* next_seq when the stream subscribed
  cursor,    \* next page of the replay (0: none)
  page,      \* entries read and not yet sent
  lastSent,  \* last_sent (-1: None)
  pos,       \* entries of chan the receiver has consumed
  pipe,      \* channel to the response stream
  seen,      \* entries received by the client on this connection
  seenAll,   \* entries received by the client on any connection
  connects

server == <<nextSeq, pending, chan, overtaken>>
stream == <<spc, from, base, cursor, page, lastSent, pos>>
client == <<seen, seenAll, connects>>
vars   == <<server, stream, pipe, client>>

Lagged == -1  \* the RESOURCE_EXHAUSTED status that ends a stream

Init ==
  /\ nextSeq = 0
  /\ pending = [w \in Writers |-> <<>>]
  /\ chan = <<>>
  /\ overtaken = FALSE
  /\ spc = "off"
  /\ from = 0 /\ base = 0 /\ cursor = 0
  /\ page = <<>>
  /\ lastSent = -1
  /\ pos = 0
  /\ pipe = <<>>
  /\ seen = <<>>
  /\ seenAll = {}
  /\ connects = 0

-----------------------------------------------------------------------------
(* Append and BatchAppend.                                                 *)

\* Under append_mu: n entries get the next sequence numbers and are committed.
AppendEntries(w, n) ==
  /\ pending[w] = <<>>
  /\ nextSeq + n <= MaxSeq
  /\ pending' = [pending EXCEPT ![w] = [i \in 1..n |-> nextSeq + i - 1]]
  /\ nextSeq' = nextSeq + n
  /\ UNCHANGED <<chan, overtaken, stream, pipe, client>>

\* watch_tx.send, after append_mu is released.
Broadcast(w) ==
  /\ pending[w] # <<>>
  /\ chan' = Append(chan, Head(pending[w]))
  /\ pending' = [pending EXCEPT ![w] = Tail(@)]
  /\ overtaken' = (overtaken \/ \E v \in Writers :
                     pending[v] # <<>> /\ Head(pending[v]) < Head(pending[w]))
  /\ UNCHANGED <<nextSeq, stream, pipe, client>>

-----------------------------------------------------------------------------
(* The stream task.                                                        *)

\* The handler subscribes and spawns the task; from_seq 0 has no replay.
Subscribe(f) ==
  /\ spc' = IF f > 0 THEN "replay" ELSE "live"
  /\ from' = f
  /\ base' = nextSeq
  /\ cursor' = f
  /\ page' = <<>>
  /\ lastSent' = -1
  /\ pos' = Len(chan)

\* seq_range_paged(cursor, 0, PageSize): the entries and the next cursor.
PageAt(c) ==
  [i \in 1..(IF c >= nextSeq THEN 0
             ELSE IF nextSeq - c < PageSize THEN nextSeq - c ELSE PageSize) |-> c + i - 1]

\* Mutation: the cursor skips an entry between pages.
NextCursor_Skips(c) == IF Len(PageAt(c)) = PageSize THEN c + PageSize + 1 ELSE 0

NextCursor(c) == IF Len(PageAt(c)) = PageSize THEN c + PageSize ELSE 0

ReadPage ==
  /\ spc = "replay"
  /\ page' = PageAt(cursor)
  /\ cursor' = NextCursor(cursor)
  /\ spc' = IF PageAt(cursor) = <<>> THEN "live" ELSE "page"
  /\ UNCHANGED <<server, from, base, lastSent, pos, pipe, client>>

\* tx.send waits for room; after the last entry of the last page it goes live.
SendPage ==
  /\ spc = "page"
  /\ Len(pipe) < PipeCap
  /\ pipe' = Append(pipe, Head(page))
  /\ lastSent' = Head(page)
  /\ page' = Tail(page)
  /\ spc' = CASE Len(page) > 1 -> "page"
              [] Len(page) = 1 /\ cursor = 0 -> "live"
              [] OTHER -> "replay"
  /\ UNCHANGED <<server, from, base, cursor, pos, client>>

\* watch_rx.recv, while the channel still has the receiver's next entry.
Recv ==
  /\ spc = "live"
  /\ pos < Len(chan)
  /\ Len(chan) - pos <= ChannelCap
  /\ pos' = pos + 1
  /\ IF lastSent # -1 /\ chan[pos + 1] <= lastSent
     THEN UNCHANGED <<spc, page, lastSent>>
     ELSE /\ lastSent' = chan[pos + 1]
          /\ page' = <<chan[pos + 1]>>
          /\ spc' = "push"
  /\ UNCHANGED <<server, from, base, cursor, pipe, client>>

Push ==
  /\ spc = "push"
  /\ Len(pipe) < PipeCap
  /\ pipe' = pipe \o page
  /\ page' = <<>>
  /\ spc' = "live"
  /\ UNCHANGED <<server, from, base, cursor, lastSent, pos, client>>

\* Mutation: a lagging stream goes on with the oldest entry still there.
Lag_Resumes ==
  /\ spc = "live"
  /\ Len(chan) - pos > ChannelCap
  /\ pos' = Len(chan) - ChannelCap
  /\ UNCHANGED <<server, spc, from, base, cursor, page, lastSent, pipe, client>>

\* recv returns Lagged: the entry was overwritten in the ring.
Lag ==
  /\ spc = "live"
  /\ Len(chan) - pos > ChannelCap
  /\ spc' = "lagged"
  /\ UNCHANGED <<server, from, base, cursor, page, lastSent, pos, pipe, client>>

\* Mutation: the stream is abandoned without a status.
PushLagged_Silent ==
  /\ spc = "lagged"
  /\ Len(pipe) < PipeCap
  /\ spc' = "closed"
  /\ UNCHANGED <<server, from, base, cursor, page, lastSent, pos, pipe, client>>

PushLagged ==
  /\ spc = "lagged"
  /\ Len(pipe) < PipeCap
  /\ pipe' = Append(pipe, Lagged)
  /\ spc' = "closed"
  /\ UNCHANGED <<server, from, base, cursor, page, lastSent, pos, client>>

-----------------------------------------------------------------------------
(* The client.                                                             *)

Connect(f) ==
  /\ spc = "off"
  /\ connects < MaxConnects
  /\ connects' = connects + 1
  /\ Subscribe(f)
  /\ pipe' = <<>>
  /\ seen' = <<>>
  /\ UNCHANGED <<server, seenAll>>

\* "the client should reconnect with the last received seq"
LastSeen == IF seen = <<>> THEN from ELSE Last(seen)

Receive ==
  /\ pipe # <<>>
  /\ Head(pipe) # Lagged
  /\ seen' = Append(seen, Head(pipe))
  /\ seenAll' = seenAll \cup {Head(pipe)}
  /\ pipe' = Tail(pipe)
  /\ UNCHANGED <<server, stream, connects>>

StreamEnds ==
  /\ spc' = "off"
  /\ pipe' = <<>>
  /\ page' = <<>>
  /\ UNCHANGED <<server, from, base, cursor, lastSent, pos, client>>

\* The status that ends the stream arrives.
ReceiveLagged == pipe # <<>> /\ Head(pipe) = Lagged /\ StreamEnds

\* The connection breaks and takes along what was in the channels.
ConnectionBreaks == spc # "off" /\ connects < MaxConnects /\ StreamEnds

-----------------------------------------------------------------------------
Next ==
  \/ \E w \in Writers : (\E n \in 1..MaxBatch : AppendEntries(w, n)) \/ Broadcast(w)
  \/ ReadPage
  \/ SendPage
  \/ Recv
  \/ Push
  \/ Lag
  \/ PushLagged
  \/ connects = 0 /\ \E f \in FromSeqs : Connect(f)
  \/ connects > 0 /\ Connect(LastSeen)
  \/ Receive
  \/ ReceiveLagged
  \/ ConnectionBreaks

Spec == Init /\ [][Next]_vars

\* Handlers and the stream task run to completion, the client keeps reading.
Fairness ==
  /\ \A w \in Writers : WF_vars(Broadcast(w))
  /\ WF_vars(ReadPage) /\ WF_vars(SendPage) /\ WF_vars(Recv) /\ WF_vars(Push)
  /\ WF_vars(Lag) /\ WF_vars(PushLagged)
  /\ WF_vars(Receive) /\ WF_vars(ReceiveLagged)

FairSpec == Spec /\ Fairness

-----------------------------------------------------------------------------
(* Properties.                                                             *)

\* Of the entries in the log when the stream subscribed, none from from_seq on is
\* skipped, however the handlers' broadcasts interleave with the replay's pages.
ReplayIsComplete ==
  from > 0 => \A e \in ToSet(seen) : \A d \in from..e : d < base => d \in ToSet(seen)

Contiguous ==
  from > 0 => /\ seen # <<>> => seen[1] <= from
              /\ \A i \in 2..Len(seen) : seen[i] = seen[i - 1] + 1

\* The stream starts at from_seq, or below it when the log had not reached
\* from_seq yet, and every entry follows its predecessor, across the pages of the
\* replay and the change to the live phase, as long as the handlers broadcast in
\* the order of their sequence numbers.
NoGap == ~overtaken => Contiguous

\* A client that reconnects with the last sequence number it received misses no
\* entry between two that it has, whenever its stream lagged or broke, as long as
\* that number is not 0 and broadcasts are in order.
ReconnectMissesNothing ==
  (~overtaken /\ 0 \notin seenAll) =>
    \A d, e \in seenAll : \A m \in d..e : m \in seenAll

\* An entry the client asked for reaches it, or the stream ends, unless the
\* entry was overtaken.
EventuallyDelivered ==
  \A e \in 1..(MaxSeq - 1) :
    (spc # "off" /\ from \in 1..e /\ e < nextSeq)
      ~> (spc = "off" \/ overtaken \/ e \in ToSet(seen))
=============================================================================
