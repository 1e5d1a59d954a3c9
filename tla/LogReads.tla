------------------------------ MODULE LogReads ------------------------------
(***************************************************************************)
(* The read handlers GetLatest, ListEntries and GetByKey beside a writer   *)
(* that reserves sequence numbers, commits or fails, and a server that     *)
(* crashes between the pages of a listing.  One writer is enough: appends  *)
(* are serialised by append_mu (module LogServer).                         *)
(*                                                                         *)
(* A record is its sequence number and its key.  The page sizes, 50 by     *)
(* default and at most 1000, are the constants DefaultLimit and MaxLimit;  *)
(* ListEntries and GetByKey have the same ones.                            *)
(***************************************************************************)
EXTENDS Integers, Sequences, SequencesExt

CONSTANTS
  Keys,          \* keys of entries
  EmptyKey,      \* the key of length 0, which Append accepts
  DefaultLimit,  \* DEFAULT_LIST, DEFAULT_BY_KEY
  MaxLimit,      \* MAX_LIST, MAX_BY_KEY
  MaxGetLatest,  \* config.max_get_latest
  MaxBatch,      \* bound on the entries of a request
  MaxSeq,        \* bound on next_seq
  MaxFailures,   \* bound on failing database writes
  MaxCrashes     \* bound on process crashes

ASSUME LogReadsAssumption ==
  /\ EmptyKey \in Keys
  /\ MaxLimit \in Nat /\ DefaultLimit \in 1..MaxLimit
  /\ MaxGetLatest \in Nat \ {0}
  /\ MaxBatch \in Nat \ {0} /\ MaxSeq \in Nat
  /\ MaxFailures \in Nat /\ MaxCrashes \in Nat

VARIABLES
  nextSeq,   \* DbInner.next_seq
  pending,   \* keys of the request whose sequence numbers are reserved
  log,       \* column family log: records [seq, key] in key order
  index,     \* column family index: key -> sequence number
  call,      \* the client's call, over all its pages
  failures, crashes

store == <<nextSeq, pending, log, index>>
vars  == <<store, call, failures, crashes>>

\* kind: the operation; at: "idle", "request", "read", "done", "refused";
\* from, to, key: the range or key asked for; limit: n or limit of the request;
\* cursor: next_cursor of the last page; got: records received;
\* total: total_available; base: length of the log when the call began.
NoCall ==
  [kind |-> "none", at |-> "idle", from |-> 0, to |-> 0, key |-> EmptyKey,
   limit |-> 0, cursor |-> 0, got |-> <<>>, total |-> 0, base |-> 0]

Init ==
  /\ nextSeq = 0
  /\ pending = <<>>
  /\ log = <<>>
  /\ index = [k \in {} |-> 0]
  /\ call = NoCall
  /\ failures = 0
  /\ crashes = 0

First(s, n) == SubSeq(s, 1, IF n < Len(s) THEN n ELSE Len(s))

\* An iterator over the records s that collects those of the set S.  A recursive
\* function and not SelectSeq, so that its result can be reasoned about.
Matching(s, S) ==
  LET found[i \in 0..Len(s)] ==
        IF i = 0 THEN <<>>
        ELSE IF s[i] \in S THEN Append(found[i - 1], s[i]) ELSE found[i - 1]
  IN found[Len(s)]

-----------------------------------------------------------------------------
(* LogStore::append and append_batch.                                      *)

Reserve(b) ==
  /\ pending = <<>>
  /\ nextSeq + Len(b) <= MaxSeq
  /\ pending' = b
  /\ nextSeq' = nextSeq + Len(b)
  /\ UNCHANGED <<log, index, call, failures, crashes>>

\* The records of the request: its sequence numbers end at next_seq.
Reserved == [i \in 1..Len(pending) |->
               [seq |-> nextSeq - Len(pending) + i - 1, key |-> pending[i]]]

\* Mutation: the first record of a batch with a given key wins.
Indexed_FirstWins(ix, rs) ==
  LET Of(k) == Matching(rs, {r \in ToSet(rs) : r.key = k})
      batch == {r.key : r \in ToSet(rs)}
  IN [k \in DOMAIN ix \cup batch |-> IF k \in batch THEN Of(k)[1].seq ELSE ix[k]]

\* "Last write with a given key wins."
Indexed(ix, rs) ==
  LET Of(k) == Matching(rs, {r \in ToSet(rs) : r.key = k})
      batch == {r.key : r \in ToSet(rs)}
  IN [k \in DOMAIN ix \cup batch |-> IF k \in batch THEN Last(Of(k)).seq ELSE ix[k]]

Commit ==
  /\ pending # <<>>
  /\ log' = log \o Reserved
  /\ index' = Indexed(index, Reserved)
  /\ pending' = <<>>
  /\ UNCHANGED <<nextSeq, call, failures, crashes>>

CommitFails ==
  /\ pending # <<>>
  /\ failures < MaxFailures
  /\ failures' = failures + 1
  /\ pending' = <<>>
  /\ UNCHANGED <<nextSeq, log, index, call, crashes>>

\* The process dies and starts again: next_seq follows the last stored key.  A
\* listing goes on with its cursor, a call in the middle of a handler is lost.
Restart ==
  /\ crashes < MaxCrashes
  /\ crashes' = crashes + 1
  /\ pending' = <<>>
  /\ nextSeq' = IF log = <<>> THEN 0 ELSE Last(log).seq + 1
  /\ call' = IF call.at = "read" THEN NoCall ELSE call
  /\ UNCHANGED <<log, index, failures>>

-----------------------------------------------------------------------------
(* The handlers.                                                           *)

\* A limit of 0 is the default, a limit above the maximum is the maximum.
Clamped(n, default, max) ==
  IF n = 0 THEN default ELSE IF n < max THEN n ELSE max

\* Mutation: the cursor is one past the next record.
Page_SkipsOne(records, to, limit) ==
  LET page == First(records, limit)
      next == Last(page).seq + 2
  IN [entries |-> page,
      next |-> IF Len(page) >= limit /\ (to = 0 \/ next < to) THEN next ELSE 0]

\* Mutation: the page ends the listing when it is the last of the range so far.
Page_EndsEarly(records, to, limit) ==
  LET page == First(records, limit)
      next == Last(page).seq + 1
  IN [entries |-> page,
      next |-> IF Len(page) > limit /\ (to = 0 \/ next < to) THEN next ELSE 0]

\* A page of the matching records, and the cursor after a full page.
Page(records, to, limit) ==
  LET page == First(records, limit)
      next == Last(page).seq + 1
  IN [entries |-> page,
      next |-> IF Len(page) >= limit /\ (to = 0 \/ next < to) THEN next ELSE 0]

\* LogStore::seq_range_paged
seq_range_paged(start, to, limit) ==
  Page(Matching(log, {r \in ToSet(log) : r.seq >= start /\ (to = 0 \/ r.seq < to)}), to, limit)

\* LogStore::entries_by_key
entries_by_key(key, from, limit) ==
  Page(Matching(log, {r \in ToSet(log) : r.seq >= from /\ r.key = key}), 0, limit)

\* LogStore::latest, by reverse iteration.
latest(n) == First(Reverse(log), n)

\* What the client does with a page: asks for the next one until the cursor is 0.
Received(p) ==
  call' = [call EXCEPT !.got = @ \o p.entries, !.cursor = p.next,
                       !.at = IF p.next = 0 THEN "done" ELSE "request"]

ListEntries ==
  /\ call.kind = "list" /\ call.at = "request"
  /\ Received(seq_range_paged(IF call.cursor > 0 THEN call.cursor ELSE call.from,
                              call.to, Clamped(call.limit, DefaultLimit, MaxLimit)))
  /\ UNCHANGED <<store, failures, crashes>>

GetByKey ==
  /\ call.kind = "key" /\ call.at = "request"
  /\ \/ /\ call.key = EmptyKey
        /\ call' = [call EXCEPT !.at = "refused"]
     \/ /\ call.key # EmptyKey
        /\ Received(entries_by_key(call.key, call.cursor,
                                   Clamped(call.limit, DefaultLimit, MaxLimit)))
  /\ UNCHANGED <<store, failures, crashes>>

\* GetLatest loads next_seq ...
GetLatestCount ==
  /\ call.kind = "latest" /\ call.at = "request"
  /\ call' = [call EXCEPT !.at = "read", !.total = nextSeq]
  /\ UNCHANGED <<store, failures, crashes>>

\* Mutation: the entries are read in the order of the log.
GetLatestRead_Oldest ==
  /\ call.kind = "latest" /\ call.at = "read"
  /\ call' = [call EXCEPT !.at = "done", !.got = First(log, Clamped(call.limit, 1, MaxGetLatest))]
  /\ UNCHANGED <<store, failures, crashes>>

\* ... and reads the entries later, on a blocking thread.
GetLatestRead ==
  /\ call.kind = "latest" /\ call.at = "read"
  /\ call' = [call EXCEPT !.at = "done", !.got = latest(Clamped(call.limit, 1, MaxGetLatest))]
  /\ UNCHANGED <<store, failures, crashes>>

-----------------------------------------------------------------------------
(* The client.                                                             *)

Begin(c) ==
  /\ call.at = "idle"
  /\ call' = [c EXCEPT !.at = "request", !.base = Len(log)]
  /\ UNCHANGED <<store, failures, crashes>>

Finish ==
  /\ call.at \in {"done", "refused"}
  /\ call' = NoCall
  /\ UNCHANGED <<store, failures, crashes>>

Next ==
  \/ \E n \in 1..MaxBatch : \E b \in [1..n -> Keys] : Reserve(b)
  \/ Commit
  \/ CommitFails
  \/ Restart
  \/ \E n \in 0..(MaxLimit + 1) :
       \/ \E f, t \in 0..MaxSeq :
            Begin([NoCall EXCEPT !.kind = "list", !.from = f, !.to = t, !.limit = n])
       \/ \E k \in Keys : Begin([NoCall EXCEPT !.kind = "key", !.key = k, !.limit = n])
       \/ Begin([NoCall EXCEPT !.kind = "latest", !.limit = n])
  \/ ListEntries
  \/ GetByKey
  \/ GetLatestCount
  \/ GetLatestRead
  \/ Finish

Spec == Init /\ [][Next]_vars

-----------------------------------------------------------------------------
(* Properties.                                                             *)

Stored == ToSet(log)

\* The records a listing asks for.
Wanted(r) ==
  \/ call.kind = "list" /\ r.seq >= call.from /\ (call.to = 0 \/ r.seq < call.to)
  \/ call.kind = "key" /\ r.key = call.key

\* The pages of a listing, put together, have the wanted records oldest first with
\* none left out between two of them, whatever is committed, fails or restarts
\* between the pages.  For GetByKey too: entries_by_key iterates forward and
\* docs/settled.md:283 says "oldest first", while proto/settled.v1.proto:206 says
\* "newest-to-oldest".
PagesHaveNoHoles ==
  call.kind \in {"list", "key"} =>
    /\ \A i, j \in 1..Len(call.got) : i < j => call.got[i].seq < call.got[j].seq
    /\ \A i \in 1..Len(call.got) : call.got[i] \in Stored /\ Wanted(call.got[i])
    /\ call.got # <<>> =>
         \A r \in Stored : (Wanted(r) /\ r.seq <= Last(call.got).seq) => r \in ToSet(call.got)

\* "next_cursor = 0 is unambiguous": a listing that ended has every wanted record
\* that was stored when it began.
EndedListingIsComplete ==
  (call.kind \in {"list", "key"} /\ call.at = "done") =>
    \A i \in 1..call.base : Wanted(log[i]) => log[i] \in ToSet(call.got)

\* GetLatest returns a newest-first stretch of the log that begins at an entry no
\* older than the newest one stored when the call came in, and "total_available
\* tells callers whether the result was truncated": when entries stored at the
\* time of the call are missing, the total is above the number returned.
LatestIsNewest ==
  (call.kind = "latest" /\ call.at = "done") =>
    /\ call.base > 0 => call.got # <<>> /\ call.got[1].seq >= log[call.base].seq
    /\ \E i \in 0..Len(log) : call.got = First(Reverse(SubSeq(log, 1, i)), Len(call.got))
    /\ Len(call.got) < call.base => call.total > Len(call.got)

\* The index has, for every key, the newest entry stored with it, and no key
\* without an entry; after failed writes and restarts too.
IndexIsNewest ==
  /\ DOMAIN index = {r.key : r \in Stored}
  /\ \A k \in DOMAIN index :
       /\ [seq |-> index[k], key |-> k] \in Stored
       /\ \A r \in Stored : r.key = k => r.seq <= index[k]
=============================================================================
