-------------------------- MODULE Shutdown_proofs --------------------------
(***************************************************************************)
(* The final tree head covers the log, for any number of clients, entries  *)
(* and failing writes.                                                     *)
(***************************************************************************)
EXTENDS Shutdown, TLAPS

-----------------------------------------------------------------------------
(* The inductive invariant.                                                *)

TypeInv ==
  /\ main \in {"serve", "drain", "wait", "exited"}
  /\ size \in Nat /\ head \in Nat /\ snap \in Nat /\ force \in Nat
  /\ notified \in BOOLEAN
  /\ task \in {"sleep", "sign", "final", "returned"}
  /\ timedOut \in BOOLEAN
  /\ failures \in Nat

\* The notification follows the drain: no Append runs after it.
DrainInv ==
  /\ notified <=> main \in {"wait", "exited"}
  /\ notified => appends = {}

\* Nothing is signed, or about to be, beyond the log.
SizeInv == head <= size /\ snap <= size /\ force <= size

\* The final cycle saw the drained log; what it left behind is not outdated.
FinalInv ==
  /\ task = "final" => notified /\ snap = size
  /\ task = "returned" => notified /\ (failures = 0 => head = size)
  /\ main = "exited" /\ ~timedOut => task = "returned"

SInv == TypeInv /\ DrainInv /\ SizeInv /\ FinalInv

-----------------------------------------------------------------------------
\* The server starts with an empty log and nothing signed.
LEMMA ShutdownInit == Init => SInv
<1> SUFFICES ASSUME Init PROVE SInv
  OBVIOUS
<1>1. TypeInv /\ SizeInv
  <2>1. notified \in BOOLEAN /\ timedOut \in BOOLEAN
    BY Zenon DEF Init
  <2> QED BY <2>1 DEF Init, TypeInv, SizeInv
<1>2. DrainInv
  BY Zenon DEF Init, DrainInv
<1>3. FinalInv
  BY DEF Init, FinalInv
<1> QED BY <1>1, <1>2, <1>3 DEF SInv

\* Every step of the calls, main, the STH task and force_sth keeps the invariant.
LEMMA ShutdownStep == SInv /\ [Next]_vars => SInv'
<1> SUFFICES ASSUME SInv, [Next]_vars PROVE SInv'
  OBVIOUS
<1> USE DEF SInv, TypeInv, DrainInv, SizeInv, FinalInv
<1>1. ASSUME NEW c \in Appenders, AppendBegins(c) PROVE SInv'
  BY <1>1 DEF AppendBegins
<1>2. ASSUME NEW c \in Appenders, AppendEnds(c) PROVE SInv'
  <2>1. ~notified /\ size' \in {size, size + 1}
    BY <1>2 DEF AppendEnds
  <2> QED BY <1>2, <2>1 DEF AppendEnds
<1>3. ASSUME NEW c \in Watchers, WatchBegins(c) \/ WatchEnds(c) PROVE SInv'
  BY <1>3 DEF WatchBegins, WatchEnds
<1>4. CASE Signal
  BY <1>4 DEF Signal
<1>5. CASE Drained
  BY <1>5 DEF Drained
<1>6. CASE Exit
  BY <1>6 DEF Exit
<1>7. CASE GiveUp
  BY <1>7 DEF GiveUp
<1>8. ASSUME NEW next \in {"sign", "final"}, Wake(next) PROVE SInv'
  BY <1>8 DEF Wake
<1>9. CASE Sign
  BY <1>9 DEF Sign, AlreadySigned, Raised
<1>10. CASE SignFails
  BY <1>10 DEF SignFails
<1>11. CASE ForceBegins
  BY <1>11 DEF ForceBegins
<1>12. CASE ForceEnds
  BY <1>12 DEF ForceEnds, Raised
<1>13. CASE UNCHANGED vars
  BY <1>13 DEF vars
<1> QED
  BY <1>1, <1>2, <1>3, <1>4, <1>5, <1>6, <1>7, <1>8, <1>9, <1>10, <1>11, <1>12, <1>13 DEF Next

\* A process that ends with no failed write and before its wait runs out has
\* signed the whole log (sth_task::run, main), for any calls in flight at the
\* signal, open streams, interval cycles and calls of force_sth.
THEOREM FinalHead == Spec => []FinalHeadCoversLog
<1>1. SInv => FinalHeadCoversLog
  BY DEF SInv, FinalInv, FinalHeadCoversLog
<1> QED BY <1>1, ShutdownInit, ShutdownStep, PTL DEF Spec
=============================================================================
