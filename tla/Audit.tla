------------------------------- MODULE Audit -------------------------------
(***************************************************************************)
(* A program that audits a running server over the Rust client library:    *)
(* the demo's default, get and watch modes (run with --verify and          *)
(* --consistency) and settled-check verify, beside the write path, the     *)
(* signer, the crashes, the failed writes and the power losses of          *)
(* LogServer.                                                              *)
(*                                                                         *)
(* A session is sequential: every step is one call of the client library.  *)
(* A proof call is one step, because a session only asks for proofs at     *)
(* sizes of tree heads it was given (module ProofService interleaves the   *)
(* reads of the handlers).  Signatures, and the checks of them that these  *)
(* programs make, are in module KeyRotation.                               *)
(***************************************************************************)
EXTENDS LogServer, SequencesExt

M == INSTANCE Merkle

CONSTANTS
  Own,          \* the handler that serves the appends of the session
  DemoEntries,  \* length of demo_entries
  PageSize,     \* DEFAULT_LIST
  MaxErrors,    \* bound on calls the transport fails although they could be served
  MaxFaults     \* bound on faults of all kinds

ASSUME AuditAssumption ==
  /\ Own \in Writers
  /\ DemoEntries \in Nat
  /\ PageSize \in Nat \ {0}
  /\ MaxErrors \in Nat
  /\ MaxFaults \in Nat

VARIABLES
  ses,    \* the locals of the session
  errors  \* calls the transport has failed

avars == <<vars, ses, errors>>

\* Tree heads and proofs are options: <<>>, or a 1-tuple.
NoSession ==
  [mode  |-> "none",
   at    |-> "idle",  \* the next call
   left  |-> 0,       \* demo entries still to append
   old   |-> <<>>,    \* old_sth
   sth   |-> <<>>,    \* sth
   got   |-> <<>>,    \* entries received
   next  |-> 0,       \* cursor of the listing, index of the proof loop, or seq
   from  |-> 0,       \* where the watcher started
   proof |-> <<>>,    \* the proof settled-check holds while it fetches the entry
   shown |-> {},      \* sequence numbers the watcher printed
   lost  |-> {},      \* stored entries the watcher passed because the call failed
   alarm |-> FALSE]   \* a check printed FAIL, or a proof it needed was refused

AInit ==
  /\ Init
  /\ ses = NoSession
  /\ errors = 0

Hashes(leaves) == [i \in 1..Len(leaves) |-> M!leaf_hash(leaves[i])]

Root(sth) == M!mth(Hashes(sth.root))

-----------------------------------------------------------------------------
(* What the server answers: an option, <<>> being any error status.        *)

get_sth == IF DOMAIN heads = {}
           THEN M!None
           ELSE M!Some([size |-> LatestSize(heads), root |-> heads[LatestSize(heads)]])

get(seq) == SelectSeq(log, LAMBDA r : r.seq = seq)

\* A page of the entries below to, and the cursor of the next one (0: none).
list_entries(to, cursor) ==
  LET all == SelectSeq(log, LAMBDA r : r.seq >= cursor /\ r.seq < to)
      page == Prefix(all, Min({PageSize, Len(all)}))
      last == NextSeqOf(page)
  IN M!Some([entries |-> page, next |-> IF Len(page) = PageSize /\ last < to THEN last ELSE 0])

inclusion_proof(seq, size) ==
  IF seq >= size \/ size \notin DOMAIN heads
  THEN M!None
  ELSE M!inclusion_proof(Hashes(Leaves(seq_range(log, size))), seq)

consistency_proof(old, new) ==
  IF old = 0 \/ old > new \/ ~({old, new} \subseteq DOMAIN heads)
  THEN M!None
  ELSE M!consistency_proof(Hashes(Leaves(seq_range(log, new))), old)

\* A call: the server answers or refuses, or the transport fails.
Call(answer, Ok(_), failed) ==
  /\ \/ /\ up /\ answer # M!None
        /\ ses' = Ok(answer[1])
        /\ UNCHANGED errors
     \/ /\ ~up \/ answer = M!None
        /\ ses' = failed
        /\ UNCHANGED errors
     \/ /\ errors < MaxErrors
        /\ errors' = errors + 1
        /\ ses' = failed
  /\ UNCHANGED vars

\* A call for a proof; that a running server has none is noted.
CallProof(answer, Ok(_), failed) ==
  Call(answer, Ok, [failed EXCEPT !.alarm = @ \/ (up /\ answer = M!None)])

Failed == [ses EXCEPT !.at = "error"]

\* wait_for_sth polls until the latest tree head has min_size entries, or gives up.
wait_for_sth(min_size) == SelectSeq(get_sth, LAMBDA h : h.size >= min_size)

Verifies(r, sth, proof) ==
  M!verify_inclusion(M!leaf_hash(r.leaf), r.seq, sth.size, proof, Root(sth))

-----------------------------------------------------------------------------
(* mode_default                                                            *)

Begin ==
  /\ ses = NoSession
  /\ \/ \E n \in {0, DemoEntries} :
          ses' = [ses EXCEPT !.mode = "default", !.at = "old", !.left = n]
     \/ \E n \in 0..MaxSeq - 1 :
          \/ ses' = [ses EXCEPT !.mode = "get", !.at = "get", !.next = n]
          \/ ses' = [ses EXCEPT !.mode = "check", !.at = "head", !.next = n]
     \/ ses' = [ses EXCEPT !.mode = "watch", !.at = "start"]
  /\ UNCHANGED <<vars, errors>>

OldSth ==
  /\ ses.at = "old"
  /\ Call(get_sth,
          LAMBDA h : [ses EXCEPT !.at = "append", !.old = M!Some(h)],
          [ses EXCEPT !.at = "append"])

\* The next demo entry is sent, or all are appended.  A server that is down, or
\* whose rate limiter has no token, fails the call.
AppendEntry ==
  /\ ses.at = "append"
  /\ \/ /\ ses.left = 0
        /\ ses' = [ses EXCEPT !.at = "wait"]
        /\ UNCHANGED <<vars, errors>>
     \/ /\ ses.left > 0
        /\ \E d \in Data : Reserve(Own, <<d>>)
        /\ ses' = [ses EXCEPT !.at = "appending", !.left = @ - 1]
        /\ UNCHANGED errors
     \/ /\ ses.left > 0
        /\ ses' = Failed
        /\ UNCHANGED <<vars, errors>>

\* The handler of the session's append takes a step; its result, unless the
\* transport loses it, is the result of the call.
Appending ==
  /\ \/ (Commit(Own) \/ Extend(Own)) /\ UNCHANGED ses
     \/ Reply(Own) /\ ses' = IF ses.at = "appending" THEN [ses EXCEPT !.at = "append"] ELSE ses
     \/ CommitFails(Own) /\ ses' = IF ses.at = "appending" THEN Failed ELSE ses
  /\ UNCHANGED errors

AppendLost ==
  /\ ses.at = "appending"
  /\ errors < MaxErrors
  /\ errors' = errors + 1
  /\ ses' = Failed
  /\ UNCHANGED vars

\* Without a tree head the log is reported empty.
WaitForAny ==
  /\ ses.at = "wait"
  /\ Call(wait_for_sth(1),
          LAMBDA h : [ses EXCEPT !.at = "list", !.sth = M!Some(h)],
          [ses EXCEPT !.at = "done"])

\* Mutation: the cursor of the page is ignored.
ListPage_OnePage ==
  /\ ses.at = "list"
  /\ Call(list_entries(ses.sth[1].size, ses.next),
          LAMBDA p : [ses EXCEPT !.got = @ \o p.entries, !.at = "sth"],
          Failed)

\* The listing up to the tree head's size, page by page.
ListPage ==
  /\ ses.at = "list"
  /\ Call(list_entries(ses.sth[1].size, ses.next),
          LAMBDA p : [ses EXCEPT !.got = @ \o p.entries, !.next = p.next,
                                 !.at = IF p.next = 0 THEN "sth" ELSE "list"],
          Failed)

\* Mutation: any tree head will do.
CheckSth_AnySize ==
  /\ ses.at = "sth"
  /\ Call(wait_for_sth(1),
          LAMBDA h : [ses EXCEPT !.at = "prove", !.next = 0, !.sth = M!Some(h)],
          Failed)

\* check_sth, with the size of the listing's tree head or of the entry's.
CheckSth ==
  /\ ses.at = "sth"
  /\ Call(wait_for_sth(IF ses.mode = "default" THEN ses.sth[1].size ELSE ses.next + 1),
          LAMBDA h : [ses EXCEPT !.at = "prove", !.next = 0, !.sth = M!Some(h)],
          Failed)

\* One round of check_inclusions.
CheckInclusion ==
  /\ ses.at = "prove"
  /\ IF ses.next = Len(ses.got)
     THEN /\ ses' = [ses EXCEPT !.at = "consistency"]
          /\ UNCHANGED <<vars, errors>>
     ELSE LET e == ses.got[ses.next + 1]
          IN CallProof(inclusion_proof(e.seq, ses.sth[1].size),
                       LAMBDA p : [ses EXCEPT !.next = @ + 1,
                                              !.alarm = @ \/ ~Verifies(e, ses.sth[1], p)],
                       Failed)

\* check_consistency; sessions without an old tree head have nothing to check.
CheckConsistency ==
  /\ ses.at = "consistency"
  /\ IF ses.old = M!None \/ (ses.old # M!None /\ ses.old[1].size = ses.sth[1].size)
     THEN /\ ses' = [ses EXCEPT !.at = "done"]
          /\ UNCHANGED <<vars, errors>>
     ELSE LET old == ses.old[1]
              new == ses.sth[1]
          IN CallProof(consistency_proof(old.size, new.size),
                       LAMBDA p : [ses EXCEPT !.at = "done",
                         !.alarm = @ \/ ~M!sdk_verify_consistency(old.size, new.size, p, Root(old), Root(new))],
                       Failed)

-----------------------------------------------------------------------------
(* mode_get and settled-check verify                                       *)

GetEntry ==
  /\ ses.at = "get"
  /\ Call(get(ses.next), LAMBDA r : [ses EXCEPT !.at = "sth", !.got = <<r>>], Failed)

CheckHead ==
  /\ ses.at = "head"
  /\ Call(get_sth, LAMBDA h : [ses EXCEPT !.at = "proof", !.sth = M!Some(h)], Failed)

\* An entry beyond the tree head is rightly refused.
CheckProof ==
  /\ ses.at = "proof"
  /\ IF ses.next < ses.sth[1].size
     THEN CallProof(inclusion_proof(ses.next, ses.sth[1].size),
                    LAMBDA p : [ses EXCEPT !.at = "entry", !.proof = p],
                    Failed)
     ELSE /\ ses' = Failed
          /\ UNCHANGED <<vars, errors>>

CheckEntry ==
  /\ ses.at = "entry"
  /\ Call(get(ses.next),
          LAMBDA r : [ses EXCEPT !.at = "done", !.got = <<r>>,
                                 !.alarm = @ \/ ~Verifies(r, ses.sth[1], ses.proof)],
          Failed)

-----------------------------------------------------------------------------
(* mode_watch                                                              *)

WatchStart ==
  /\ ses.at = "start"
  /\ Call(wait_for_sth(1),
          LAMBDA h : [ses EXCEPT !.at = "poll", !.next = h.size, !.from = h.size],
          [ses EXCEPT !.at = "poll"])

\* The interval has passed, or the user stops the watcher.
Poll ==
  /\ ses.at = "poll"
  /\ \/ Call(wait_for_sth(1), LAMBDA h : [ses EXCEPT !.at = "fetch", !.sth = M!Some(h)], ses)
     \/ ses' = [ses EXCEPT !.at = "done"] /\ UNCHANGED <<vars, errors>>

\* Mutation: the tree size is taken for the last sequence number.
Fetch_Inclusive ==
  /\ ses.at = "fetch"
  /\ IF ses.next > ses.sth[1].size
     THEN /\ ses' = [ses EXCEPT !.at = "poll"]
          /\ UNCHANGED <<vars, errors>>
     ELSE Call(get(ses.next),
               LAMBDA r : [ses EXCEPT !.at = "row", !.got = <<r>>],
               [ses EXCEPT !.next = @ + 1,
                           !.lost = @ \cup {r.seq : r \in ToSet(get(ses.next))}])

\* An entry that cannot be fetched is passed over.
Fetch ==
  /\ ses.at = "fetch"
  /\ IF ses.next >= ses.sth[1].size
     THEN /\ ses' = [ses EXCEPT !.at = "poll"]
          /\ UNCHANGED <<vars, errors>>
     ELSE Call(get(ses.next),
               LAMBDA r : [ses EXCEPT !.at = "row", !.got = <<r>>],
               [ses EXCEPT !.next = @ + 1,
                           !.lost = @ \cup {r.seq : r \in ToSet(get(ses.next))}])

\* The row is printed with the verdict, or without one when there is no proof.
Row ==
  /\ ses.at = "row"
  /\ LET printed == [ses EXCEPT !.at = "fetch", !.next = @ + 1, !.got = <<>>,
                                !.shown = @ \cup {ses.next}]
     IN CallProof(inclusion_proof(ses.next, ses.sth[1].size),
                  LAMBDA p : [printed EXCEPT !.alarm = @ \/ ~Verifies(ses.got[1], ses.sth[1], p)],
                  printed)

-----------------------------------------------------------------------------
Session ==
  \/ Begin \/ OldSth \/ AppendEntry \/ AppendLost \/ WaitForAny \/ ListPage
  \/ CheckSth \/ CheckInclusion \/ CheckConsistency
  \/ GetEntry \/ CheckHead \/ CheckProof \/ CheckEntry
  \/ WatchStart \/ Poll \/ Fetch \/ Row

\* The server goes down under the session: an append in progress fails.
Down ==
  /\ Halt
  /\ ses' = IF ses.at = "appending" THEN Failed ELSE ses
  /\ UNCHANGED errors

ANext ==
  /\ \/ /\ \/ \E w \in Writers \ {Own} : Write(w)
           \/ \E s \in Signers : Sign(s)
           \/ Start
        /\ UNCHANGED <<ses, errors>>
     \/ Appending
     \/ Session
     \/ Down
  /\ failures' + crashes' + losses' + errors' <= MaxFaults

ASpec == AInit /\ [][ANext]_avars

-----------------------------------------------------------------------------
(* Properties.                                                             *)

\* An auditor never cries wolf over the log: against a server that lost no write,
\* whatever is appended, signed, crashed or restarted between its calls, no check of
\* an inclusion or consistency proof prints FAIL and no proof it needs is refused.
\* The check of the signature (demo main.rs:147, settled-check main.rs:64) is not
\* part of a session here: on a tree head torn by a key rotation it fails, which is
\* HeadsVerifyWithChain of module KeyRotation.
NoFalseAlarm == (Gapless /\ losses = 0) => ~ses.alarm

\* "Fetching audit trail": the pages of a listing up to the size of a tree head
\* are together exactly the entries that tree head commits to.
ListingIsCommitted ==
  (Gapless /\ losses = 0 /\ ses.mode = "default" /\ ses.at = "sth") =>
    Leaves(ses.got) = ses.sth[1].root

\* "tail new entries as they arrive": an entry stored at or after the watcher's
\* starting point and before its position was printed, also across failed
\* writes and restarts, unless the call that fetched it failed.
WatcherMissesNothing ==
  (losses = 0 /\ ses.mode = "watch") =>
    \A i \in 1..Len(log) :
      (ses.from <= log[i].seq /\ log[i].seq < ses.next) =>
        log[i].seq \in ses.shown \cup ses.lost

\* A session that ends without complaint and has checked consistency between
\* two tree heads of different sizes holds an old tree that the new one extends,
\* also when the server lost writes and rewrote its log in between.
AcceptedGrowthIsGrowth ==
  (ses.mode = "default" /\ ses.at = "done" /\ ~ses.alarm /\ ses.old # <<>> /\ ses.sth # <<>>
   /\ ses.old[1].size # ses.sth[1].size) =>
    IsPrefixOf(ses.old[1].root, ses.sth[1].root)
=============================================================================
