------------------------------ MODULE Shutdown ------------------------------
(***************************************************************************)
(* The end of the server process: the shutdown signal, the drain of the    *)
(* gRPC server, the notification of the STH task over the watch channel,   *)
(* its final signing cycle, and the bounded wait of main for it.           *)
(*                                                                         *)
(* The log is its length and the heads column family the largest signed    *)
(* size.  The gRPC server is tonic's: after the signal it takes no new     *)
(* call and serve_with_shutdown returns when the last one has ended.       *)
(***************************************************************************)
EXTENDS Integers

CONSTANTS
  Appenders,   \* clients of Append and BatchAppend
  Watchers,    \* clients of Watch
  MaxSize,     \* bound on the length of the log
  MaxFailures  \* bound on failing writes of a tree head

ASSUME ShutdownAssumption == MaxSize \in Nat /\ MaxFailures \in Nat

VARIABLES
  main,      \* "serve", "drain", "wait", "exited"
  appends,   \* clients with an Append in flight
  streams,   \* clients with an open Watch stream
  size,      \* merkle.size()
  head,      \* latest signed tree size
  notified,  \* shutdown_tx has sent true
  task,      \* STH task: "sleep", "sign", "final", "returned"
  snap,      \* its snapshot of the size (0: not taken)
  force,     \* force_sth handler: its snapshot of the size (0: none running)
  timedOut,  \* the wait of 10 s ran out
  failures

vars == <<main, appends, streams, size, head, notified, task, snap, force, timedOut, failures>>

Init ==
  /\ main = "serve"
  /\ appends = {}
  /\ streams = {}
  /\ size = 0
  /\ head = 0
  /\ notified = FALSE
  /\ task = "sleep"
  /\ snap = 0
  /\ force = 0
  /\ timedOut = FALSE
  /\ failures = 0

Running == main # "exited"

-----------------------------------------------------------------------------
(* gRPC calls.                                                             *)

AppendBegins(c) ==
  /\ main = "serve"
  /\ c \notin appends
  /\ appends' = appends \cup {c}
  /\ UNCHANGED <<main, streams, size, head, notified, task, snap, force, timedOut, failures>>

\* The entry is stored and the call answered; at the bound, the call is refused.
AppendEnds(c) ==
  /\ Running
  /\ c \in appends
  /\ appends' = appends \ {c}
  /\ size' \in {size} \cup IF size < MaxSize THEN {size + 1} ELSE {}
  /\ UNCHANGED <<main, streams, head, notified, task, snap, force, timedOut, failures>>

WatchBegins(c) ==
  /\ main = "serve"
  /\ c \notin streams
  /\ streams' = streams \cup {c}
  /\ UNCHANGED <<main, appends, size, head, notified, task, snap, force, timedOut, failures>>

\* Only the client ends a stream: the stream task holds a receiver of watch_tx,
\* whose sender lives as long as the process.
WatchEnds(c) ==
  /\ Running
  /\ c \in streams
  /\ streams' = streams \ {c}
  /\ UNCHANGED <<main, appends, size, head, notified, task, snap, force, timedOut, failures>>

-----------------------------------------------------------------------------
(* main.                                                                   *)

Signal ==
  /\ main = "serve"
  /\ main' = "drain"
  /\ UNCHANGED <<appends, streams, size, head, notified, task, snap, force, timedOut, failures>>

\* Mutation: the STH task is told before the calls are drained.
Drained_TooEarly ==
  /\ main = "drain"
  /\ main' = "wait"
  /\ notified' = TRUE
  /\ UNCHANGED <<appends, streams, size, head, task, snap, force, timedOut, failures>>

\* Mutation: the drain waits for the task, which waits for the notification.
Drained_WaitsForTask ==
  /\ main = "drain"
  /\ appends = {} /\ streams = {}
  /\ task = "returned"
  /\ main' = "wait"
  /\ notified' = TRUE
  /\ UNCHANGED <<appends, streams, size, head, task, snap, force, timedOut, failures>>

\* serve_with_shutdown returns and the STH task and the admin server are told.
Drained ==
  /\ main = "drain"
  /\ appends = {} /\ streams = {}
  /\ main' = "wait"
  /\ notified' = TRUE
  /\ UNCHANGED <<appends, streams, size, head, task, snap, force, timedOut, failures>>

\* The wait for the task ends with the task, and main returns.
Exit ==
  /\ main = "wait"
  /\ task = "returned"
  /\ main' = "exited"
  /\ UNCHANGED <<appends, streams, size, head, notified, task, snap, force, timedOut, failures>>

\* The wait runs out after 10 s; main returns and drops what still runs.
GiveUp ==
  /\ main = "wait"
  /\ task # "returned"
  /\ main' = "exited"
  /\ timedOut' = TRUE
  /\ UNCHANGED <<appends, streams, size, head, notified, task, snap, force, failures>>

-----------------------------------------------------------------------------
(* sth_task::run and sign_and_store.                                       *)

\* select! takes either branch that is ready: the interval or the notification.
Wake(next) ==
  /\ Running
  /\ task = "sleep"
  /\ next = "final" => notified
  /\ task' = next
  /\ snap' = size
  /\ UNCHANGED <<main, appends, streams, size, head, notified, force, timedOut, failures>>

\* A signing cycle that does nothing: the tree is empty or already signed.
AlreadySigned(n) == n = 0 \/ n = head

Raised(n) == IF n > head THEN n ELSE head

\* The cycle ends; the final one ends the task.
Sign ==
  /\ Running
  /\ task \in {"sign", "final"}
  /\ head' = IF AlreadySigned(snap) THEN head ELSE Raised(snap)
  /\ task' = IF task = "final" THEN "returned" ELSE "sleep"
  /\ snap' = 0
  /\ UNCHANGED <<main, appends, streams, size, notified, force, timedOut, failures>>

\* heads.write fails: the error is logged, the final cycle returns all the same.
SignFails ==
  /\ Running
  /\ task \in {"sign", "final"}
  /\ ~AlreadySigned(snap)
  /\ failures < MaxFailures
  /\ failures' = failures + 1
  /\ task' = IF task = "final" THEN "returned" ELSE "sleep"
  /\ snap' = 0
  /\ UNCHANGED <<main, appends, streams, size, head, notified, force, timedOut>>

\* force_sth, on the admin server; main does not wait for it.
ForceBegins ==
  /\ Running
  /\ ~notified
  /\ force = 0 /\ size > 0
  /\ force' = size
  /\ UNCHANGED <<main, appends, streams, size, head, notified, task, snap, timedOut, failures>>

ForceEnds ==
  /\ Running
  /\ force > 0
  /\ head' = Raised(force)
  /\ force' = 0
  /\ UNCHANGED <<main, appends, streams, size, notified, task, snap, timedOut, failures>>

Next ==
  \/ \E c \in Appenders : AppendBegins(c) \/ AppendEnds(c)
  \/ \E c \in Watchers : WatchBegins(c) \/ WatchEnds(c)
  \/ Signal
  \/ Drained
  \/ Exit
  \/ GiveUp
  \/ \E next \in {"sign", "final"} : Wake(next)
  \/ Sign
  \/ SignFails
  \/ ForceBegins
  \/ ForceEnds

Spec == Init /\ [][Next]_vars

\* Calls in flight are answered; main and the STH task run, and select! does not
\* pass over a notification that stays ready for ever.  Nothing makes a client
\* close its Watch stream, and the wait of main is not needed to run out.
Fairness ==
  /\ \A c \in Appenders : WF_vars(AppendEnds(c))
  /\ WF_vars(Drained) /\ WF_vars(Exit)
  /\ WF_vars(Sign) /\ SF_vars(Wake("final"))

FairSpec == Spec /\ Fairness

-----------------------------------------------------------------------------
(* Properties.                                                             *)

\* "one final signing cycle - capturing any entries appended since the last
\* interval": when the process ends without the wait running out and without a
\* failed write, the whole log is signed, whatever calls were in flight at the
\* signal and whatever the interval and force_sth were signing meanwhile.
FinalHeadCoversLog ==
  (main = "exited" /\ ~timedOut /\ failures = 0) => head = size

\* When the Watch clients have gone, a signalled process ends.
ShutdownCompletes == <>[](streams = {}) => (main = "drain" ~> main = "exited")
=============================================================================
