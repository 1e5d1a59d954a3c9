------------------------- MODULE KeyRotation_proofs -------------------------
(***************************************************************************)
(* Signatures, public keys, versions and the key chain agree, for any      *)
(* number of rotations at once, signers, keys, entries, crashes and        *)
(* failing writes, in every version that no overlapping rotation and none  *)
(* that was cut short has touched.                                         *)
(***************************************************************************)
EXTENDS KeyRotation, TLAPS

-----------------------------------------------------------------------------
(* The inductive invariant.                                                *)

RotatorState ==
  [pc : {"idle", "version", "file", "swap", "put"}, at : Nat, ver : Nat, key : Nat]

SignerState ==
  [pc : {"idle", "check", "sign", "pub", "ver", "write"}, size : Nat, sig : Nat, pub : Nat,
   ver : Nat, torn : BOOLEAN, late : BOOLEAN, swaps : Nat]

KeyRecord == [ver : Nat, key : Nat, at : Nat]
SthRecord == [sig : Nat, pub : Nat, ver : Nat, torn : BOOLEAN, late : BOOLEAN]

\* v is the latest version of the key chain.
IsTop(v) == v \in DOMAIN keys /\ \A u \in DOMAIN keys : u <= v

TypeInv ==
  /\ phase \in {"down", "boot", "up"}
  /\ file \in Nat \cup {Torn}
  /\ key \in Nat /\ version \in Nat /\ fresh \in Nat /\ size \in Nat /\ swaps \in Nat
  /\ DOMAIN keys \subseteq Nat /\ \A v \in DOMAIN keys : keys[v] \in KeyRecord
  /\ DOMAIN keys = {} \/ \E v \in DOMAIN keys : IsTop(v)
  /\ DOMAIN heads \subseteq Nat /\ \A n \in DOMAIN heads : heads[n] \in SthRecord
  /\ rot \in [Rotators -> RotatorState]
  /\ sgn \in [Signers -> SignerState]

\* Handlers run only when the server is up, no size is read ahead of the tree, and
\* no key in use is missing.
RunInv ==
  /\ phase # "up" => /\ \A r \in Rotators : rot[r].pc = "idle"
                     /\ \A s \in Signers : sgn[s].pc = "idle"
  /\ \A r \in Rotators : rot[r].at <= size
  /\ \A v \in DOMAIN keys : keys[v].at <= size /\ keys[v].ver = v /\ keys[v].key # NoKey
  /\ phase # "down" => key # NoKey
  /\ \A r \in Rotators : rot[r].pc \in {"swap", "put"} => rot[r].key # NoKey
  /\ \A s \in Signers : sgn[s].swaps <= swaps

\* Every version from a to b is in sp.
Spoilt(sp, a, b) == \A w \in Nat : (a <= w /\ w <= b) => w \in sp

Busy(p) == p.pc \in {"file", "swap", "put"}

\* For a rotation with locals p: versions it would take again, and versions that it
\* would step back over or has been stepped back from, are spoiled (ks is the key
\* chain, v the version in use).
Span(p, ks, v, sp) ==
  /\ \A u \in DOMAIN ks : u >= p.ver => Spoilt(sp, p.ver, u)
  /\ v > p.ver => Spoilt(sp, p.ver, v)
  /\ p.ver > v + 1 => Spoilt(sp, v + 1, p.ver)
  /\ (p.pc = "put" /\ p.ver > v) => Spoilt(sp, v, p.ver)

\* Two rotations that overlap have spoiled their versions and those in between.
Overlap(p, q, sp) == p.ver \in sp /\ q.ver \in sp /\ Spoilt(sp, p.ver, q.ver)

SpanInv ==
  /\ phase # "down" => \A u \in DOMAIN keys : u > version => Spoilt(spoiled, version, u)
  /\ \A r \in Rotators : Busy(rot[r]) => Span(rot[r], keys, version, spoiled)
  /\ \A q, r \in Rotators :
       (q # r /\ Busy(rot[q]) /\ Busy(rot[r])) => Overlap(rot[q], rot[r], spoiled)

\* The key file has the key of the latest record, or that of a rotation under way.
FileInv ==
  /\ file = NoKey => DOMAIN keys = {}
  /\ phase # "down" => file # NoKey
  /\ \A v \in DOMAIN keys : (IsTop(v) /\ v \notin spoiled) =>
       \/ file \in {keys[v].key, Torn}
       \/ \E r \in Rotators : rot[r].pc \in {"swap", "put"}
  /\ phase = "boot" =>
       /\ file = key
       /\ \/ DOMAIN keys = {} /\ version = 1
          \/ IsTop(version) /\ (version \notin spoiled => key = keys[version].key)
  /\ \A r \in Rotators :
       (rot[r].pc \in {"swap", "put"} /\ rot[r].ver \notin spoiled) => file = rot[r].key

\* The key k has version v from tree size a on: the chain says so, or will as soon
\* as the rotation under way has stored its record.
Chained(ks, rs, v, k, a) ==
  \/ v \in DOMAIN ks /\ ks[v].key = k /\ ks[v].at = a
  \/ \E r \in Rotators :
       rs[r].pc = "put" /\ rs[r].ver = v /\ rs[r].key = k /\ rs[r].at = a

\* Key k with version v may sign tree size n, if the signing is not late, or the
\* version is spoiled.
Entitled(ks, rs, sp, v, k, n, late) ==
  v \notin sp => \E a \in Nat : Chained(ks, rs, v, k, a) /\ (late \/ a <= n)

CurrentInv == phase = "up" => Entitled(keys, rot, spoiled, version, key, size, FALSE)

\* What a signer with locals q has read belongs together unless a swap came between
\* (key k with version v is in use after sw swaps).
Together(q, sw, v, k, ks, rs, sp) ==
  /\ (q.pc \in {"check", "sign"} /\ sw = q.swaps) => Entitled(ks, rs, sp, v, k, q.size, FALSE)
  /\ (q.pc \in {"pub", "ver"} /\ sw = q.swaps) =>
       q.sig = k /\ Entitled(ks, rs, sp, v, k, q.size, q.late)
  /\ (q.pc = "ver" /\ sw = q.swaps) => q.pub = k
  /\ (q.pc = "write" /\ ~q.torn) =>
       q.pub = q.sig /\ Entitled(ks, rs, sp, q.ver, q.sig, q.size, q.late)

SignInv == \A s \in Signers : Together(sgn[s], swaps, version, key, keys, rot, spoiled)

HeadInv ==
  \A n \in DOMAIN heads : ~heads[n].torn =>
    /\ heads[n].pub = heads[n].sig
    /\ Entitled(keys, rot, spoiled, heads[n].ver, heads[n].sig, n, heads[n].late)

KInv == TypeInv /\ RunInv /\ SpanInv /\ FileInv /\ CurrentInv /\ SignInv /\ HeadInv

-----------------------------------------------------------------------------
(* Lemmas on the operators.                                                *)

\* Storing under a key adds the key and changes nothing else.
LEMMA PutApply ==
  ASSUME NEW f, NEW x, NEW y
  PROVE  /\ DOMAIN Put(f, x, y) = DOMAIN f \cup {x}
         /\ Put(f, x, y)[x] = y
         /\ \A z \in DOMAIN f : z # x => Put(f, x, y)[z] = f[z]
BY DEF Put

\* Latest finds the largest key.
LEMMA LatestIsTop ==
  ASSUME NEW f, DOMAIN f \subseteq Nat, NEW x \in DOMAIN f, \A y \in DOMAIN f : y <= x
  PROVE  Latest(f) = x
<1>1. Latest(f) \in DOMAIN f /\ \A y \in DOMAIN f : y <= Latest(f)
  BY Zenon DEF Latest
<1> QED BY <1>1

\* A record keeps the chain bounded.
LEMMA PutTop ==
  ASSUME NEW f, NEW x \in Nat, NEW y, DOMAIN f \subseteq Nat,
         DOMAIN f = {} \/ \E v \in DOMAIN f : \A u \in DOMAIN f : u <= v
  PROVE  \E v \in DOMAIN Put(f, x, y) : \A u \in DOMAIN Put(f, x, y) : u <= v
<1>1. DOMAIN Put(f, x, y) = DOMAIN f \cup {x}
  BY PutApply, Zenon
<1>2. CASE DOMAIN f = {}
  BY <1>1, <1>2
<1>3. ASSUME NEW v \in DOMAIN f, \A u \in DOMAIN f : u <= v
      PROVE  \E t \in DOMAIN f \cup {x} : \A u \in DOMAIN f \cup {x} : u <= t
  <2>1. CASE x <= v
    BY <1>3, <2>1
  <2>2. CASE v <= x
    <3>1. \A u \in DOMAIN f \cup {x} : u <= x
      BY <1>3, <2>2
    <3> QED BY <3>1
  <2> QED BY <2>1, <2>2
<1> QED BY <1>1, <1>2, <1>3

-----------------------------------------------------------------------------
(* Types.                                                                  *)

\* A step of rotate_key keeps the types.
LEMMA RotateType ==
  ASSUME TypeInv, NEW r \in Rotators, Rotate(r)
  PROVE  TypeInv'
<1> USE DEF disk, memory, faults
<1>1. rot[r] \in RotatorState
  BY DEF TypeInv
<1>2. CASE ReadSize(r)
  <2>1. [rot[r] EXCEPT !.pc = "version", !.at = size] \in RotatorState
    BY <1>1, Zenon DEF RotatorState, TypeInv
  <2> QED BY <1>2, <2>1 DEF ReadSize, TypeInv, IsTop
<1>3. CASE ReadVersion(r)
  <2>1. [rot[r] EXCEPT !.pc = "file", !.ver = version + 1] \in RotatorState
    <3>1. version + 1 \in Nat
      BY DEF TypeInv
    <3>2. \A n \in Nat : [rot[r] EXCEPT !.pc = "file", !.ver = n] \in RotatorState
      BY <1>1, Zenon DEF RotatorState
    <3> QED BY <3>1, <3>2, Zenon
  <2> QED BY <1>3, <2>1 DEF ReadVersion, TypeInv, IsTop
<1>4. CASE WriteKeyFile(r)
  <2>1. [rot[r] EXCEPT !.pc = "swap", !.key = fresh + 1] \in RotatorState
    <3>1. fresh + 1 \in Nat
      BY DEF TypeInv
    <3>2. \A n \in Nat : [rot[r] EXCEPT !.pc = "swap", !.key = n] \in RotatorState
      BY <1>1, Zenon DEF RotatorState
    <3> QED BY <3>1, <3>2, Zenon
  <2> QED BY <1>4, <2>1 DEF WriteKeyFile, TypeInv, IsTop
<1>5. IdleRotator \in RotatorState
  BY DEF IdleRotator, RotatorState, NoKey
<1>6. CASE WriteKeyFileFails(r)
  BY <1>5, <1>6 DEF WriteKeyFileFails, TypeInv, IsTop
<1>7. CASE HotSwap(r)
  <2>1. [rot[r] EXCEPT !.pc = "put"] \in RotatorState /\ rot[r].key \in Nat /\ rot[r].ver \in Nat
    BY <1>1 DEF RotatorState
  <2> QED BY <1>7, <2>1 DEF HotSwap, TypeInv, IsTop
<1>8. CASE PutRecord(r)
  <2> DEFINE rec == [ver |-> rot[r].ver, key |-> rot[r].key, at |-> rot[r].at]
  <2>1. rot[r].ver \in Nat /\ rec \in KeyRecord
    BY <1>1 DEF RotatorState, KeyRecord
  <2>2. keys' = Put(keys, rot[r].ver, rec)
    BY <1>8 DEF PutRecord
  <2> HIDE DEF rec
  <2>3. DOMAIN keys' \subseteq Nat /\ \A v \in DOMAIN keys' : keys'[v] \in KeyRecord
    <3>1. /\ DOMAIN keys' = DOMAIN keys \cup {rot[r].ver} /\ keys'[rot[r].ver] = rec
          /\ \A z \in DOMAIN keys : z # rot[r].ver => keys'[z] = keys[z]
      BY <2>2 DEF Put
    <3> QED BY <2>1, <3>1 DEF TypeInv
  <2>4. \E v \in DOMAIN keys' : \A u \in DOMAIN keys' : u <= v
    BY <2>1, <2>2, PutTop DEF TypeInv, IsTop
  <2>5. DOMAIN keys' = {} \/ \E v \in DOMAIN keys' : IsTop(v)'
    BY <2>4 DEF IsTop
  <2> QED BY <1>5, <1>8, <2>3, <2>5 DEF PutRecord, TypeInv
<1>9. CASE PutRecordFails(r)
  BY <1>5, <1>9 DEF PutRecordFails, TypeInv, IsTop
<1> QED BY <1>2, <1>3, <1>4, <1>6, <1>7, <1>8, <1>9 DEF Rotate

\* A step of sign_and_store keeps the types.
LEMMA SignType ==
  ASSUME TypeInv, NEW s \in Signers, Sign(s)
  PROVE  TypeInv'
<1> USE DEF disk, memory, faults
<1>1. sgn[s] \in SignerState
  BY DEF TypeInv
<1>2. IdleSigner \in SignerState
  BY DEF IdleSigner, SignerState, NoKey
<1>3. ASSUME NEW q \in SignerState, sgn' = [sgn EXCEPT ![s] = q],
             UNCHANGED <<phase, disk, memory, fresh, size, rot, swaps>>
      PROVE  TypeInv'
  BY <1>3 DEF TypeInv, IsTop
<1>4. CASE Snapshot(s)
  <2>1. [sgn[s] EXCEPT !.pc = "check", !.size = size, !.swaps = swaps] \in SignerState
    BY <1>1, Zenon DEF SignerState, TypeInv
  <2> QED BY <1>3, <1>4, <2>1, Zenon DEF Snapshot
<1>5. CASE Check(s)
  <2>1. [sgn[s] EXCEPT !.pc = "sign"] \in SignerState
    BY <1>1 DEF SignerState
  <2> QED BY <1>2, <1>3, <1>5, <2>1, Zenon DEF Check
<1>6. CASE SignPayload(s)
  <2>1. [sgn[s] EXCEPT !.pc = "pub", !.sig = key, !.late = (swaps # sgn[s].swaps),
                       !.swaps = swaps] \in SignerState
    BY <1>1, Zenon DEF SignerState, TypeInv
  <2> QED BY <1>3, <1>6, <2>1, Zenon DEF SignPayload
<1>7. CASE ReadPublicKey(s)
  <2>1. [sgn[s] EXCEPT !.pc = "ver", !.pub = key] \in SignerState
    BY <1>1, Zenon DEF SignerState, TypeInv
  <2> QED BY <1>3, <1>7, <2>1, Zenon DEF ReadPublicKey
<1>8. CASE ReadKeyVersion(s)
  <2>1. [sgn[s] EXCEPT !.pc = "write", !.ver = version, !.torn = (swaps # sgn[s].swaps),
                       !.swaps = 0] \in SignerState
    BY <1>1, Zenon DEF SignerState, TypeInv
  <2> QED BY <1>3, <1>8, <2>1, Zenon DEF ReadKeyVersion
<1>9. CASE StoreHead(s)
  <2> DEFINE h == [sig |-> sgn[s].sig, pub |-> sgn[s].pub, ver |-> sgn[s].ver,
                   torn |-> sgn[s].torn, late |-> sgn[s].late]
  <2>1. sgn[s].size \in Nat /\ h \in SthRecord
    BY <1>1 DEF SignerState, SthRecord
  <2>2. heads' = Put(heads, sgn[s].size, h)
    BY <1>9 DEF StoreHead
  <2> HIDE DEF h
  <2>3. DOMAIN heads' \subseteq Nat /\ \A n \in DOMAIN heads' : heads'[n] \in SthRecord
    <3>1. /\ DOMAIN heads' = DOMAIN heads \cup {sgn[s].size} /\ heads'[sgn[s].size] = h
          /\ \A z \in DOMAIN heads : z # sgn[s].size => heads'[z] = heads[z]
      BY <2>2 DEF Put
    <3> QED BY <2>1, <3>1 DEF TypeInv
  <2> QED BY <1>2, <1>9, <2>3 DEF StoreHead, TypeInv, IsTop
<1> QED BY <1>4, <1>5, <1>6, <1>7, <1>8, <1>9 DEF Sign

\* Every step of the server, its handlers and its faults keeps the types.
LEMMA TypeStep == TypeInv /\ [Next]_vars => TypeInv'
<1> SUFFICES ASSUME TypeInv, [Next]_vars PROVE TypeInv'
  OBVIOUS
<1> USE DEF disk, memory, faults
<1>1. CASE Boot
  <2>1. version' \in Nat
    <3>1. CASE DOMAIN keys = {}
      BY <1>1, <3>1 DEF Boot
    <3>2. ASSUME NEW v \in DOMAIN keys, IsTop(v) PROVE version' \in Nat
      <4>1. Latest(keys) = v
        BY <3>2, LatestIsTop DEF TypeInv, IsTop
      <4>2. keys[v].ver \in Nat
        BY DEF TypeInv, KeyRecord
      <4> QED BY <1>1, <4>1, <4>2 DEF Boot
    <3> QED BY <3>1, <3>2 DEF TypeInv
  <2>2. key' \in Nat /\ file' \in Nat \cup {Torn} /\ fresh' \in Nat
    BY <1>1 DEF Boot, TypeInv
  <2> QED BY <1>1, <2>1, <2>2 DEF Boot, TypeInv, IsTop
<1>2. CASE BootTorn
  BY <1>2 DEF BootTorn, TypeInv, IsTop
<1>3. CASE Seed
  <2>1. CASE DOMAIN keys # {}
    BY <1>3, <2>1 DEF Seed, TypeInv, IsTop
  <2>2. CASE DOMAIN keys = {}
    <3> DEFINE rec == [ver |-> 1, key |-> key, at |-> 0]
    <3>1. rec \in KeyRecord
      BY DEF KeyRecord, TypeInv
    <3>2. keys' = Put(keys, 1, rec)
      BY <1>3, <2>2 DEF Seed
    <3> HIDE DEF rec
    <3>3. DOMAIN keys' = {1} /\ keys'[1] = rec
      <4>1. DOMAIN keys' = DOMAIN keys \cup {1} /\ keys'[1] = rec
        BY <3>2 DEF Put
      <4> QED BY <2>2, <4>1
    <3>4. DOMAIN keys' \subseteq Nat /\ \A v \in DOMAIN keys' : keys'[v] \in KeyRecord
      BY <3>1, <3>3
    <3>5. \E v \in DOMAIN keys' : IsTop(v)'
      BY <3>3 DEF IsTop
    <3> QED BY <1>3, <3>4, <3>5 DEF Seed, TypeInv
  <2> QED BY <2>1, <2>2
<1>4. CASE Grow
  BY <1>4 DEF Grow, TypeInv, IsTop
<1>5. CASE Crash
  <2>1. IdleRotator \in RotatorState /\ IdleSigner \in SignerState
    BY DEF IdleRotator, IdleSigner, RotatorState, SignerState, NoKey
  <2>2. file' \in Nat \cup {Torn}
    BY <1>5 DEF Crash, TypeInv
  <2> QED BY <1>5, <2>1, <2>2 DEF Crash, TypeInv, IsTop, NoKey
<1>6. CASE UNCHANGED vars
  BY <1>6 DEF vars, TypeInv, IsTop
<1> QED BY <1>1, <1>2, <1>3, <1>4, <1>5, <1>6, RotateType, SignType DEF Next

-----------------------------------------------------------------------------
(* The steps of rotate_key and sign_and_store on their own state.          *)

\* What each step of rotate_key makes of the locals of its handler.
LEMMA RotateLocals ==
  ASSUME TypeInv, NEW r \in Rotators, Rotate(r)
  PROVE  /\ \A q \in Rotators : q # r => rot'[q] = rot[q]
         /\ ReadSize(r) => rot'[r].pc = "version" /\ rot'[r].at = size
         /\ ReadVersion(r) => /\ rot'[r].pc = "file" /\ rot'[r].ver = version + 1
                              /\ rot'[r].at = rot[r].at
         /\ WriteKeyFile(r) => /\ rot'[r].pc = "swap" /\ rot'[r].key = fresh + 1
                               /\ rot'[r].at = rot[r].at /\ rot'[r].ver = rot[r].ver
         /\ HotSwap(r) => /\ rot'[r].pc = "put" /\ rot'[r].key = rot[r].key
                          /\ rot'[r].at = rot[r].at /\ rot'[r].ver = rot[r].ver
         /\ WriteKeyFileFails(r) \/ PutRecord(r) \/ PutRecordFails(r) =>
              rot'[r].pc = "idle" /\ rot'[r].at = 0
<1>1. rot \in [Rotators -> RotatorState] /\ rot[r] \in RotatorState
  BY DEF TypeInv
<1>2. \A q \in Rotators : q # r => rot'[q] = rot[q]
  BY <1>1 DEF Rotate, ReadSize, ReadVersion, WriteKeyFile, HotSwap, WriteKeyFileFails,
              PutRecord, PutRecordFails
<1>3. ASSUME ReadSize(r) PROVE rot'[r].pc = "version" /\ rot'[r].at = size
  <2>1. rot'[r] = [rot[r] EXCEPT !.pc = "version", !.at = size]
    BY <1>1, <1>3 DEF ReadSize
  <2> QED BY <1>1, <2>1 DEF RotatorState
<1>4. ASSUME ReadVersion(r)
      PROVE  rot'[r].pc = "file" /\ rot'[r].ver = version + 1 /\ rot'[r].at = rot[r].at
  <2>1. rot'[r] = [rot[r] EXCEPT !.pc = "file", !.ver = version + 1]
    BY <1>1, <1>4 DEF ReadVersion
  <2> QED BY <1>1, <2>1 DEF RotatorState
<1>5. ASSUME WriteKeyFile(r)
      PROVE  /\ rot'[r].pc = "swap" /\ rot'[r].key = fresh + 1
             /\ rot'[r].at = rot[r].at /\ rot'[r].ver = rot[r].ver
  <2>1. rot'[r] = [rot[r] EXCEPT !.pc = "swap", !.key = fresh + 1]
    BY <1>1, <1>5 DEF WriteKeyFile
  <2> QED BY <1>1, <2>1 DEF RotatorState
<1>6. ASSUME HotSwap(r)
      PROVE  /\ rot'[r].pc = "put" /\ rot'[r].key = rot[r].key
             /\ rot'[r].at = rot[r].at /\ rot'[r].ver = rot[r].ver
  <2>1. rot'[r] = [rot[r] EXCEPT !.pc = "put"]
    BY <1>1, <1>6 DEF HotSwap
  <2> QED BY <1>1, <2>1 DEF RotatorState
<1>7. ASSUME WriteKeyFileFails(r) \/ PutRecord(r) \/ PutRecordFails(r)
      PROVE  rot'[r].pc = "idle" /\ rot'[r].at = 0
  <2>1. rot'[r] = IdleRotator
    BY <1>1, <1>7 DEF WriteKeyFileFails, PutRecord, PutRecordFails
  <2> QED BY <2>1 DEF IdleRotator
<1> QED BY <1>2, <1>3, <1>4, <1>5, <1>6, <1>7, Zenon

\* A step of sign_and_store changes its own locals and, at its end, the heads.
LEMMA SignFrame ==
  ASSUME TypeInv, NEW s \in Signers, Sign(s)
  PROVE  /\ UNCHANGED <<phase, file, keys, key, version, fresh, size, rot, swaps, spoiled>>
         /\ ~StoreHead(s) => heads' = heads
         /\ \A t \in Signers : t # s => sgn'[t] = sgn[t]
<1> USE DEF disk, memory, faults
<1>1. UNCHANGED <<phase, file, keys, key, version, fresh, size, rot, swaps, spoiled>>
  BY DEF Sign, Snapshot, Check, SignPayload, ReadPublicKey, ReadKeyVersion, StoreHead
<1>2. ~StoreHead(s) => heads' = heads
  BY DEF Sign, Snapshot, Check, SignPayload, ReadPublicKey, ReadKeyVersion
<1>3. \A t \in Signers : t # s => sgn'[t] = sgn[t]
  BY DEF TypeInv, Sign, Snapshot, Check, SignPayload, ReadPublicKey, ReadKeyVersion, StoreHead
<1> QED BY <1>1, <1>2, <1>3

\* What each step of sign_and_store makes of the locals of its caller.
LEMMA SignLocals ==
  ASSUME TypeInv, NEW s \in Signers
  PROVE  /\ Snapshot(s) => /\ sgn'[s].pc = "check" /\ sgn'[s].size = size
                           /\ sgn'[s].swaps = swaps
         /\ Check(s) => \/ sgn'[s].pc = "idle" /\ sgn'[s].swaps = 0
                        \/ /\ sgn'[s].pc = "sign" /\ sgn'[s].size = sgn[s].size
                           /\ sgn'[s].swaps = sgn[s].swaps
         /\ SignPayload(s) => /\ sgn'[s].pc = "pub" /\ sgn'[s].sig = key
                              /\ sgn'[s].size = sgn[s].size
                              /\ sgn'[s].late = (swaps # sgn[s].swaps)
                              /\ sgn'[s].swaps = swaps
         /\ ReadPublicKey(s) => /\ sgn'[s].pc = "ver" /\ sgn'[s].pub = key
                                /\ sgn'[s].sig = sgn[s].sig /\ sgn'[s].size = sgn[s].size
                                /\ sgn'[s].late = sgn[s].late
                                /\ sgn'[s].swaps = sgn[s].swaps
         /\ ReadKeyVersion(s) => /\ sgn'[s].pc = "write" /\ sgn'[s].ver = version
                                 /\ sgn'[s].sig = sgn[s].sig /\ sgn'[s].pub = sgn[s].pub
                                 /\ sgn'[s].size = sgn[s].size /\ sgn'[s].late = sgn[s].late
                                 /\ sgn'[s].torn = (swaps # sgn[s].swaps)
                                 /\ sgn'[s].swaps = 0
         /\ StoreHead(s) => sgn'[s].pc = "idle" /\ sgn'[s].swaps = 0
<1>1. sgn \in [Signers -> SignerState] /\ sgn[s] \in SignerState
  BY DEF TypeInv
<1>2. IdleSigner.pc = "idle" /\ IdleSigner.swaps = 0
  BY DEF IdleSigner
<1>3. ASSUME Snapshot(s)
      PROVE  sgn'[s].pc = "check" /\ sgn'[s].size = size /\ sgn'[s].swaps = swaps
  <2>1. sgn'[s] = [sgn[s] EXCEPT !.pc = "check", !.size = size, !.swaps = swaps]
    BY <1>1, <1>3 DEF Snapshot
  <2> QED BY <1>1, <2>1 DEF SignerState
<1>4. ASSUME Check(s)
      PROVE  \/ sgn'[s].pc = "idle" /\ sgn'[s].swaps = 0
             \/ /\ sgn'[s].pc = "sign" /\ sgn'[s].size = sgn[s].size
                /\ sgn'[s].swaps = sgn[s].swaps
  <2>1. sgn'[s] = IdleSigner \/ sgn'[s] = [sgn[s] EXCEPT !.pc = "sign"]
    BY <1>1, <1>4 DEF Check
  <2>2. CASE sgn'[s] = IdleSigner
    BY <1>2, <2>2
  <2>3. CASE sgn'[s] = [sgn[s] EXCEPT !.pc = "sign"]
    BY <1>1, <2>3 DEF SignerState
  <2> QED BY <2>1, <2>2, <2>3
<1>5. ASSUME SignPayload(s)
      PROVE  /\ sgn'[s].pc = "pub" /\ sgn'[s].sig = key /\ sgn'[s].size = sgn[s].size
             /\ sgn'[s].late = (swaps # sgn[s].swaps) /\ sgn'[s].swaps = swaps
  <2>1. sgn'[s] = [sgn[s] EXCEPT !.pc = "pub", !.sig = key, !.late = (swaps # sgn[s].swaps),
                                 !.swaps = swaps]
    BY <1>1, <1>5 DEF SignPayload
  <2> QED BY <1>1, <2>1 DEF SignerState
<1>6. ASSUME ReadPublicKey(s)
      PROVE  /\ sgn'[s].pc = "ver" /\ sgn'[s].pub = key /\ sgn'[s].sig = sgn[s].sig
             /\ sgn'[s].size = sgn[s].size /\ sgn'[s].late = sgn[s].late
             /\ sgn'[s].swaps = sgn[s].swaps
  <2>1. sgn'[s] = [sgn[s] EXCEPT !.pc = "ver", !.pub = key]
    BY <1>1, <1>6 DEF ReadPublicKey
  <2> QED BY <1>1, <2>1 DEF SignerState
<1>7. ASSUME ReadKeyVersion(s)
      PROVE  /\ sgn'[s].pc = "write" /\ sgn'[s].ver = version /\ sgn'[s].sig = sgn[s].sig
             /\ sgn'[s].pub = sgn[s].pub /\ sgn'[s].size = sgn[s].size
             /\ sgn'[s].late = sgn[s].late /\ sgn'[s].torn = (swaps # sgn[s].swaps)
             /\ sgn'[s].swaps = 0
  <2>1. sgn'[s] = [sgn[s] EXCEPT !.pc = "write", !.ver = version,
                                 !.torn = (swaps # sgn[s].swaps), !.swaps = 0]
    BY <1>1, <1>7 DEF ReadKeyVersion
  <2> QED BY <1>1, <2>1 DEF SignerState
<1>8. ASSUME StoreHead(s) PROVE sgn'[s].pc = "idle" /\ sgn'[s].swaps = 0
  <2>1. sgn'[s] = IdleSigner
    BY <1>1, <1>8 DEF StoreHead
  <2> QED BY <1>2, <2>1
<1> QED BY <1>3, <1>4, <1>5, <1>6, <1>7, <1>8, Zenon

-----------------------------------------------------------------------------
(* The invariant holds.                                                    *)

\* Handlers, sizes and keys in use stay consistent in every step.
LEMMA RunStep == TypeInv /\ RunInv /\ [Next]_vars => RunInv'
<1> SUFFICES ASSUME TypeInv, RunInv, [Next]_vars PROVE RunInv'
  OBVIOUS
<1> USE DEF disk, memory, faults
<1>1. CASE Boot
  <2>1. key' # NoKey /\ phase' = "boot" /\ phase = "down"
    BY <1>1 DEF Boot, TypeInv, NoKey
  <2>2. UNCHANGED <<keys, size, rot, sgn, swaps>>
    BY <1>1 DEF Boot
  <2> QED BY <2>1, <2>2 DEF RunInv
<1>2. CASE BootTorn
  BY <1>2 DEF BootTorn, RunInv
<1>3. CASE Seed
  <2>1. UNCHANGED <<key, size, rot, sgn, swaps>> /\ phase = "boot" /\ phase' = "up"
    BY <1>3 DEF Seed
  <2>2. CASE DOMAIN keys # {}
    BY <1>3, <2>1, <2>2 DEF Seed, RunInv
  <2>3. CASE DOMAIN keys = {}
    <3>1. keys' = Put(keys, 1, [ver |-> 1, key |-> key, at |-> 0])
      BY <1>3, <2>3 DEF Seed
    <3>2. DOMAIN keys' = {1} /\ keys'[1] = [ver |-> 1, key |-> key, at |-> 0]
      BY <2>3, <3>1 DEF Put
    <3>3. keys'[1].ver = 1 /\ keys'[1].key = key /\ keys'[1].at = 0
      BY <3>2
    <3>4. \A v \in DOMAIN keys' : keys'[v].at <= size' /\ keys'[v].ver = v /\ keys'[v].key # NoKey
      BY <2>1, <3>2, <3>3 DEF RunInv, TypeInv
    <3> QED BY <2>1, <3>4 DEF RunInv
  <2> QED BY <2>2, <2>3, Zenon
<1>4. CASE Grow
  <2>1. /\ UNCHANGED <<phase, keys, key, rot, sgn, swaps>> /\ size' = size + 1
        /\ \A r \in Rotators : rot[r].at \in Nat
        /\ \A v \in DOMAIN keys : keys[v].at \in Nat
    BY <1>4 DEF Grow, TypeInv, RotatorState, KeyRecord
  <2> QED BY <2>1 DEF RunInv, TypeInv
<1>5. ASSUME NEW r \in Rotators, Rotate(r) PROVE RunInv'
  <2>1. UNCHANGED <<size, sgn>> /\ rot[r] \in RotatorState
    BY <1>5 DEF Rotate, ReadSize, ReadVersion, WriteKeyFile, HotSwap, WriteKeyFileFails,
                PutRecord, PutRecordFails, TypeInv
  <2>2. phase = "up" /\ phase' = phase
    BY <1>5 DEF Rotate, ReadSize, ReadVersion, WriteKeyFile, HotSwap, WriteKeyFileFails,
                PutRecord, PutRecordFails, RunInv
  <2>3. swaps' \in {swaps, swaps + 1}
    BY <1>5 DEF Rotate, ReadSize, ReadVersion, WriteKeyFile, HotSwap, WriteKeyFileFails,
                PutRecord, PutRecordFails
  <2>4. \A t \in Signers : sgn'[t].swaps <= swaps'
    <3>1. \A t \in Signers : sgn[t].swaps \in Nat
      BY DEF TypeInv, SignerState
    <3> QED BY <2>1, <2>3, <3>1 DEF RunInv, TypeInv
  <2>5. rot'[r].at <= size /\ (rot'[r].pc \in {"swap", "put"} => rot'[r].key # NoKey)
    <3>1. rot[r].at <= size /\ size \in Nat /\ fresh + 1 # NoKey
      BY DEF RunInv, TypeInv, NoKey
    <3>2. CASE WriteKeyFile(r)
      BY <1>5, <3>1, <3>2, RotateLocals
    <3>3. CASE HotSwap(r)
      BY <1>5, <3>1, <3>3, RotateLocals DEF HotSwap, RunInv
    <3>4. CASE ~WriteKeyFile(r) /\ ~HotSwap(r)
      BY <1>5, <3>1, <3>4, RotateLocals DEF Rotate
    <3> QED BY <3>2, <3>3, <3>4
  <2>6. \A q \in Rotators :
          rot'[q].at <= size' /\ (rot'[q].pc \in {"swap", "put"} => rot'[q].key # NoKey)
    BY <1>5, <2>1, <2>5, RotateLocals DEF RunInv
  <2>7. key' # NoKey
    BY <1>5, <2>2 DEF Rotate, ReadSize, ReadVersion, WriteKeyFile, HotSwap, WriteKeyFileFails,
                PutRecord, PutRecordFails, RunInv
  <2>8. \A v \in DOMAIN keys' : keys'[v].at <= size' /\ keys'[v].ver = v /\ keys'[v].key # NoKey
    <3>1. CASE PutRecord(r)
      <4> DEFINE rec == [ver |-> rot[r].ver, key |-> rot[r].key, at |-> rot[r].at]
      <4>1. keys' = Put(keys, rot[r].ver, rec) /\ rot[r].pc = "put"
        BY <3>1 DEF PutRecord
      <4>2. /\ rec.ver = rot[r].ver /\ rec.at <= size /\ rec.key # NoKey
        BY <4>1 DEF RunInv
      <4> HIDE DEF rec
      <4>3. \A v \in DOMAIN keys' :
              \/ keys'[v] = rec /\ v = rot[r].ver
              \/ v \in DOMAIN keys /\ keys'[v] = keys[v]
        BY <4>1 DEF Put
      <4> QED BY <2>1, <4>2, <4>3 DEF RunInv
    <3>2. CASE ~PutRecord(r)
      <4>1. keys' = keys
        BY <1>5, <3>2 DEF Rotate, ReadSize, ReadVersion, WriteKeyFile, HotSwap,
                          WriteKeyFileFails, PutRecordFails
      <4> QED BY <2>1, <4>1 DEF RunInv
    <3> QED BY <3>1, <3>2
  <2> QED BY <2>2, <2>4, <2>6, <2>7, <2>8 DEF RunInv
<1>6. ASSUME NEW s \in Signers, Sign(s) PROVE RunInv'
  <2>1. /\ UNCHANGED <<phase, keys, key, size, rot, swaps>>
        /\ \A t \in Signers : t # s => sgn'[t] = sgn[t]
    BY <1>6, SignFrame
  <2>2. phase = "up"
    BY <1>6 DEF Sign, Snapshot, Check, SignPayload, ReadPublicKey, ReadKeyVersion, StoreHead,
                RunInv
  <2>3. sgn'[s].swaps <= swaps
    <3>1. sgn[s] \in SignerState
      BY DEF TypeInv
    <3>2. sgn'[s].swaps = sgn[s].swaps \/ sgn'[s].swaps = swaps \/ sgn'[s].swaps = 0
      BY <1>6, SignLocals, Zenon DEF Sign
    <3>3. sgn[s].swaps \in Nat
      BY <3>1 DEF SignerState
    <3> QED BY <3>2, <3>3 DEF RunInv, TypeInv
  <2> QED BY <2>1, <2>2, <2>3 DEF RunInv
<1>7. CASE Crash
  <2>1. UNCHANGED <<keys, size, swaps>> /\ phase' = "down"
    BY <1>7 DEF Crash
  <2>2. \A r \in Rotators : rot'[r].pc = "idle" /\ rot'[r].at = 0
    BY <1>7 DEF Crash, IdleRotator
  <2>3. \A s \in Signers : sgn'[s].pc = "idle" /\ sgn'[s].swaps = 0
    BY <1>7 DEF Crash, IdleSigner
  <2> QED BY <2>1, <2>2, <2>3 DEF RunInv, TypeInv
<1>8. CASE UNCHANGED vars
  BY <1>8 DEF vars, RunInv
<1> QED BY <1>1, <1>2, <1>3, <1>4, <1>5, <1>6, <1>7, <1>8 DEF Next

\* A version that was spoiled stays so; a rotation cut short after it wrote the key
\* file spoils its own version and the latest recorded one.
LEMMA SpoiledStep ==
  ASSUME [Next]_vars
  PROVE  /\ spoiled \subseteq spoiled'
         /\ \A r \in Rotators : PutRecordFails(r) => {rot[r].ver, Latest(keys)} \subseteq spoiled'
         /\ Crash => \A r \in Rotators : rot[r].pc \in {"swap", "put"} =>
                       {rot[r].ver, Latest(keys)} \subseteq spoiled'
<1> USE DEF disk, memory, faults
<1>1. \A r \in Rotators : PutRecordFails(r) =>
        spoiled \subseteq spoiled' /\ {rot[r].ver, Latest(keys)} \subseteq spoiled'
  BY DEF PutRecordFails
<1>2. Crash => /\ spoiled \subseteq spoiled'
               /\ \A r \in Rotators : rot[r].pc \in {"swap", "put"} =>
                    {rot[r].ver, Latest(keys)} \subseteq spoiled'
  BY DEF Crash
<1>3. \A r \in Rotators : ReadVersion(r) => spoiled \subseteq spoiled'
  BY DEF ReadVersion
<1>4. ASSUME ~Crash, \A r \in Rotators : ~ReadVersion(r) /\ ~PutRecordFails(r)
      PROVE  spoiled' = spoiled
  BY <1>4, Zenon
     DEF Next, Boot, BootTorn, Seed, Grow, Rotate, ReadSize, WriteKeyFile, WriteKeyFileFails,
         HotSwap, PutRecord, Sign, Snapshot, Check, SignPayload, ReadPublicKey, ReadKeyVersion,
         StoreHead, vars
<1>5. spoiled \subseteq spoiled'
  BY <1>1, <1>2, <1>3, <1>4
<1> QED BY <1>1, <1>2, <1>5

\* A range that is spoiled stays so when more is.
LEMMA SpoiltGrows ==
  ASSUME NEW sp, NEW sq, sp \subseteq sq
  PROVE  /\ \A a, b : Spoilt(sp, a, b) => Spoilt(sq, a, b)
         /\ \A p, ks, v : Span(p, ks, v, sp) => Span(p, ks, v, sq)
         /\ \A p, q : Overlap(p, q, sp) => Overlap(p, q, sq)
<1>1. \A a, b : Spoilt(sp, a, b) => Spoilt(sq, a, b)
  BY Zenon DEF Spoilt
<1>2. \A p, ks, v : Span(p, ks, v, sp) => Span(p, ks, v, sq)
  BY <1>1, Zenon DEF Span
<1>3. \A p, q : Overlap(p, q, sp) => Overlap(p, q, sq)
  BY <1>1, Zenon DEF Overlap
<1> QED BY <1>1, <1>2, <1>3, Zenon

\* Versions move back, or are taken twice, only within what is spoiled.
LEMMA SpanStep ==
  ASSUME TypeInv, RunInv, SpanInv, FileInv, [Next]_vars
  PROVE  SpanInv'
<1> USE DEF disk, memory, faults
<1>1. spoiled \subseteq spoiled'
  BY SpoiledStep
<1>2. /\ \A a, b : Spoilt(spoiled, a, b) => Spoilt(spoiled', a, b)
      /\ \A p, ks, v : Span(p, ks, v, spoiled) => Span(p, ks, v, spoiled')
      /\ \A p, q : Overlap(p, q, spoiled) => Overlap(p, q, spoiled')
  BY <1>1, SpoiltGrows, Zenon
<1>3. SUFFICES
        /\ phase' # "down" => \A u \in DOMAIN keys' : u > version' => Spoilt(spoiled', version', u)
        /\ \A r \in Rotators : Busy(rot'[r]) => Span(rot'[r], keys', version', spoiled')
        /\ \A q, r \in Rotators :
             (q # r /\ Busy(rot'[q]) /\ Busy(rot'[r])) => Overlap(rot'[q], rot'[r], spoiled')
  BY Zenon DEF SpanInv, Span, Overlap, Spoilt, Busy
<1> DEFINE Goal == 
        /\ phase' # "down" => \A u \in DOMAIN keys' : u > version' => Spoilt(spoiled', version', u)
        /\ \A r \in Rotators : Busy(rot'[r]) => Span(rot'[r], keys', version', spoiled')
        /\ \A q, r \in Rotators :
             (q # r /\ Busy(rot'[q]) /\ Busy(rot'[r])) => Overlap(rot'[q], rot'[r], spoiled')
<1>4. ASSUME UNCHANGED <<phase, keys, version, rot>> PROVE Goal
  BY <1>2, <1>4, Zenon DEF SpanInv
<1>5. ASSUME \A r \in Rotators : rot'[r].pc = "idle",
             phase' # "down" => \A u \in DOMAIN keys' : ~(u > version')
      PROVE  Goal
  <2>1. \A r \in Rotators : ~Busy(rot'[r])
    BY <1>5 DEF Busy
  <2> QED BY <1>5, <2>1, Zenon
<1>6. CASE Boot
  <2>1. /\ \A r \in Rotators : rot'[r].pc = "idle"
        /\ version' = IF DOMAIN keys = {} THEN 1 ELSE keys[Latest(keys)].ver
    BY <1>6 DEF Boot, RunInv
  <2>2. ASSUME NEW v \in DOMAIN keys, IsTop(v) PROVE version' = v
    <3>1. Latest(keys) = v
      BY <2>2, LatestIsTop DEF TypeInv, IsTop
    <3> QED BY <2>1, <3>1 DEF RunInv
  <2>3. keys' = keys
    BY <1>6 DEF Boot
  <2>4. \A u \in DOMAIN keys' : ~(u > version')
    BY <2>2, <2>3 DEF TypeInv, IsTop
  <2> QED BY <1>5, <2>1, <2>4
<1>7. CASE Seed
  <2>1. /\ \A r \in Rotators : rot'[r].pc = "idle"
        /\ version' = version /\ phase = "boot"
    BY <1>7 DEF Seed, RunInv
  <2>2. CASE DOMAIN keys = {}
    <3>1. DOMAIN keys' = {1} /\ version = 1
      BY <1>7, <2>1, <2>2 DEF Seed, Put, FileInv, IsTop
    <3> QED BY <1>5, <2>1, <3>1
  <2>3. CASE DOMAIN keys # {}
    <3>1. keys' = keys /\ IsTop(version)
      BY <1>7, <2>1, <2>3 DEF Seed, FileInv
    <3>2. \A u \in DOMAIN keys' : ~(u > version')
      BY <2>1, <3>1 DEF IsTop, TypeInv
    <3> QED BY <1>5, <2>1, <3>2
  <2> QED BY <2>2, <2>3
<1>8. CASE Crash
  BY <1>5, <1>8 DEF Crash, IdleRotator
<1>9. CASE BootTorn \/ Grow \/ UNCHANGED vars
  BY <1>4, <1>9 DEF BootTorn, Grow, vars
<1>10. ASSUME NEW s \in Signers, Sign(s) PROVE Goal
  BY <1>4, <1>10, SignFrame
<1>11. ASSUME NEW r \in Rotators, Rotate(r) PROVE Goal
  <2>1. phase = "up" /\ phase' = "up" /\ \A q \in Rotators : rot[q].ver \in Nat
    BY <1>11 DEF Rotate, ReadSize, ReadVersion, WriteKeyFile, HotSwap, WriteKeyFileFails,
                 PutRecord, PutRecordFails, RunInv, TypeInv, RotatorState
  <2>2. \A q \in Rotators : q # r => rot'[q] = rot[q]
    BY <1>11, RotateLocals
  <2>3. ASSUME UNCHANGED <<keys, version>>,
               Busy(rot'[r]) => /\ Busy(rot[r]) /\ rot'[r].ver = rot[r].ver
                                /\ rot'[r].pc # "put"
        PROVE  Goal
    <3>1. \A q \in Rotators : Busy(rot'[q]) =>
            /\ Busy(rot[q]) /\ rot'[q].ver = rot[q].ver
            /\ rot'[q].pc = "put" => rot[q].pc = "put"
      BY <2>2, <2>3, Zenon
    <3>2. \A q \in Rotators : Busy(rot'[q]) => Span(rot'[q], keys', version', spoiled')
      <4>1. \A q \in Rotators : Busy(rot'[q]) => Span(rot[q], keys, version, spoiled')
        BY <1>2, <3>1, Zenon DEF SpanInv
      <4> QED BY <2>3, <3>1, <4>1, Zenon DEF Span
    <3>3. \A p, q \in Rotators :
            (p # q /\ Busy(rot'[p]) /\ Busy(rot'[q])) => Overlap(rot'[p], rot'[q], spoiled')
      <4>1. \A p, q \in Rotators :
              (p # q /\ Busy(rot'[p]) /\ Busy(rot'[q])) => Overlap(rot[p], rot[q], spoiled')
        BY <1>2, <3>1, Zenon DEF SpanInv
      <4> QED BY <3>1, <4>1, Zenon DEF Overlap
    <3>4. \A u \in DOMAIN keys' : u > version' => Spoilt(spoiled', version', u)
      BY <1>2, <2>1, <2>3, Zenon DEF SpanInv
    <3> QED BY <3>2, <3>3, <3>4, Zenon
  <2>4. CASE ReadSize(r) \/ WriteKeyFileFails(r) \/ PutRecordFails(r)
    <3>1. rot'[r].pc \in {"version", "idle"} /\ UNCHANGED <<keys, version>>
      BY <1>11, <2>4, RotateLocals DEF ReadSize, WriteKeyFileFails, PutRecordFails
    <3> QED BY <2>3, <3>1 DEF Busy
  <2>5. CASE WriteKeyFile(r)
    <3>1. /\ rot'[r].pc = "swap" /\ rot'[r].ver = rot[r].ver
          /\ rot[r].pc = "file" /\ UNCHANGED <<keys, version>>
      BY <1>11, <2>5, RotateLocals DEF WriteKeyFile
    <3> QED BY <2>3, <3>1 DEF Busy
  <2>6. CASE ReadVersion(r)
    <3>1. /\ rot'[r].pc = "file" /\ rot'[r].ver = version + 1 /\ UNCHANGED <<keys, version>>
          /\ spoiled' = spoiled \cup
               UNION {{version + 1, rot[q].ver} : q \in {p \in Rotators \ {r} : InProgress(p)}}
      BY <1>11, <2>6, RotateLocals DEF ReadVersion
    <3>2. \A q \in Rotators : (q # r /\ Busy(rot[q])) =>
            rot[q].ver \in spoiled' /\ version + 1 \in spoiled'
      BY <3>1 DEF Busy, InProgress
    <3>3. Span(rot'[r], keys', version', spoiled')
      <4>1. ASSUME NEW u \in DOMAIN keys, u >= version + 1
            PROVE  Spoilt(spoiled', version + 1, u)
        <5>1. u \in Nat /\ u > version
          BY <4>1 DEF TypeInv
        <5>2. Spoilt(spoiled, version, u)
          BY <2>1, <5>1, Zenon DEF SpanInv
        <5> QED BY <1>1, <5>2 DEF Spoilt, TypeInv
      <4> QED BY <3>1, <4>1 DEF Span, TypeInv
    <3>4. ASSUME NEW q \in Rotators, q # r, Busy(rot[q])
          PROVE  /\ Overlap(rot[q], rot'[r], spoiled')
                 /\ Overlap(rot'[r], rot[q], spoiled')
      <4>1. Span(rot[q], keys, version, spoiled')
        BY <1>2, <3>4, Zenon DEF SpanInv
      <4>2. rot[q].ver \in spoiled' /\ version + 1 \in spoiled'
        BY <3>2, <3>4
      <4>3. Spoilt(spoiled', rot[q].ver, version + 1)
        <5> SUFFICES ASSUME NEW w \in Nat, rot[q].ver <= w, w <= version + 1
                     PROVE  w \in spoiled'
          BY DEF Spoilt
        <5>1. w = version + 1 \/ w = rot[q].ver \/ (version > rot[q].ver /\ w <= version)
          BY <2>1 DEF TypeInv
        <5> QED BY <4>1, <4>2, <5>1 DEF Span, Spoilt
      <4>4. Spoilt(spoiled', version + 1, rot[q].ver)
        <5> SUFFICES ASSUME NEW w \in Nat, version + 1 <= w, w <= rot[q].ver
                     PROVE  w \in spoiled'
          BY DEF Spoilt
        <5>1. w = version + 1 \/ rot[q].ver > version + 1
          BY <2>1 DEF TypeInv
        <5> QED BY <4>1, <4>2, <5>1 DEF Span, Spoilt
      <4> QED BY <3>1, <4>2, <4>3, <4>4 DEF Overlap
    <3>5. \A q \in Rotators : Busy(rot'[q]) => Span(rot'[q], keys', version', spoiled')
      BY <1>2, <2>2, <3>1, <3>3, Zenon DEF SpanInv
    <3>6. \A p, q \in Rotators :
            (p # q /\ Busy(rot'[p]) /\ Busy(rot'[q])) => Overlap(rot'[p], rot'[q], spoiled')
      <4> SUFFICES ASSUME NEW p \in Rotators, NEW q \in Rotators, p # q,
                          Busy(rot'[p]), Busy(rot'[q])
                   PROVE  Overlap(rot'[p], rot'[q], spoiled')
        OBVIOUS
      <4>1. CASE p # r /\ q # r
        BY <1>2, <2>2, <4>1, Zenon DEF SpanInv
      <4>2. CASE p = r
        BY <2>2, <3>4, <4>2, Zenon
      <4>3. CASE q = r
        BY <2>2, <3>4, <4>3, Zenon
      <4> QED BY <4>1, <4>2, <4>3, Zenon
    <3>7. \A u \in DOMAIN keys' : u > version' => Spoilt(spoiled', version', u)
      BY <1>2, <2>1, <3>1, Zenon DEF SpanInv
    <3> QED BY <3>5, <3>6, <3>7, Zenon
  <2>7. CASE HotSwap(r)
    <3>1. /\ rot'[r].pc = "put" /\ rot'[r].ver = rot[r].ver /\ version' = rot[r].ver
          /\ Busy(rot[r]) /\ UNCHANGED <<keys, spoiled>>
      BY <1>11, <2>7, RotateLocals DEF HotSwap, Busy
    <3>2. Span(rot[r], keys, version, spoiled)
      BY <3>1, Zenon DEF SpanInv
    <3>3. \A q \in Rotators : (q # r /\ Busy(rot[q])) =>
            Overlap(rot[q], rot[r], spoiled) /\ Overlap(rot[r], rot[q], spoiled)
      BY <3>1, Zenon DEF SpanInv
    <3>4. \A u \in DOMAIN keys' : u > version' => Spoilt(spoiled', version', u)
      BY <2>1, <3>1, <3>2 DEF Span, TypeInv
    <3>5. ASSUME NEW q \in Rotators, Busy(rot'[q])
          PROVE  Span(rot'[q], keys', version', spoiled')
      <4>1. CASE q = r
        BY <2>1, <3>1, <3>2, <4>1 DEF Span
      <4>2. CASE q # r
        <5>1. rot'[q] = rot[q] /\ Span(rot[q], keys, version, spoiled)
          BY <2>2, <3>5, <4>2, Zenon DEF SpanInv
        <5>2. Spoilt(spoiled, rot[q].ver, rot[r].ver) /\ Spoilt(spoiled, rot[r].ver, rot[q].ver)
          BY <3>3, <3>5, <4>2, <5>1, Zenon DEF Overlap
        <5>3. Spoilt(spoiled, rot[r].ver + 1, rot[q].ver)
          BY <2>1, <5>2 DEF Spoilt
        <5> QED BY <3>1, <5>1, <5>2, <5>3, Zenon DEF Span
      <4> QED BY <4>1, <4>2
    <3>6. \A q \in Rotators : Busy(rot'[q]) => Busy(rot[q]) /\ rot'[q].ver = rot[q].ver
      BY <2>2, <3>1, Zenon
    <3>7. \A p, q \in Rotators :
            (p # q /\ Busy(rot'[p]) /\ Busy(rot'[q])) => Overlap(rot'[p], rot'[q], spoiled')
      <4>1. \A p, q \in Rotators :
              (p # q /\ Busy(rot'[p]) /\ Busy(rot'[q])) => Overlap(rot[p], rot[q], spoiled)
        BY <3>6, Zenon DEF SpanInv
      <4> QED BY <3>1, <3>6, <4>1, Zenon DEF Overlap
    <3> QED BY <3>4, <3>5, <3>7, Zenon
  <2>8. CASE PutRecord(r)
    <3>1. /\ rot'[r].pc = "idle" /\ rot[r].pc = "put" /\ Busy(rot[r])
          /\ DOMAIN keys' = DOMAIN keys \cup {rot[r].ver} /\ UNCHANGED <<version, spoiled>>
      BY <1>11, <2>8, RotateLocals DEF PutRecord, Busy, Put
    <3>2. Span(rot[r], keys, version, spoiled)
      BY <3>1, Zenon DEF SpanInv
    <3>3. \A q \in Rotators : Busy(rot'[q]) => q # r /\ rot'[q] = rot[q]
      BY <2>2, <3>1 DEF Busy
    <3>4. \A u \in DOMAIN keys' : u > version' => Spoilt(spoiled', version', u)
      <4>1. \A u \in DOMAIN keys : u > version => Spoilt(spoiled, version, u)
        BY <2>1, Zenon DEF SpanInv
      <4> QED BY <3>1, <3>2, <4>1, Zenon DEF Span
    <3>5. ASSUME NEW q \in Rotators, Busy(rot'[q])
          PROVE  Span(rot'[q], keys', version', spoiled')
      <4>1. q # r /\ rot'[q] = rot[q] /\ Span(rot[q], keys, version, spoiled)
        BY <3>3, <3>5, Zenon DEF SpanInv
      <4>2. Spoilt(spoiled, rot[q].ver, rot[r].ver)
        BY <3>1, <3>5, <4>1, Zenon DEF SpanInv, Overlap
      <4> QED BY <3>1, <4>1, <4>2, Zenon DEF Span
    <3>6. \A p, q \in Rotators :
            (p # q /\ Busy(rot'[p]) /\ Busy(rot'[q])) => Overlap(rot'[p], rot'[q], spoiled')
      BY <3>1, <3>3, Zenon DEF SpanInv
    <3> QED BY <3>4, <3>5, <3>6, Zenon
  <2> QED BY <1>11, <2>4, <2>5, <2>6, <2>7, <2>8, Zenon DEF Rotate
<1> QED BY <1>6, <1>7, <1>8, <1>9, <1>10, <1>11, Zenon DEF Next

\* The version of a rotation that has to itself what it is about to record is above
\* the key chain.
LEMMA UnspoiltIsNew ==
  ASSUME TypeInv, SpanInv, NEW r \in Rotators, Busy(rot[r]), rot[r].ver \notin spoiled
  PROVE  /\ \A u \in DOMAIN keys : u < rot[r].ver
         /\ \A q \in Rotators : q # r => ~Busy(rot[q])
<1>1. rot[r].ver \in Nat /\ DOMAIN keys \subseteq Nat
  BY DEF TypeInv, RotatorState
<1>2. \A u \in DOMAIN keys : u < rot[r].ver
  <2>1. \A u \in DOMAIN keys : u >= rot[r].ver => Spoilt(spoiled, rot[r].ver, u)
    BY Zenon DEF SpanInv, Span
  <2> QED BY <1>1, <2>1 DEF Spoilt
<1>3. \A q \in Rotators : q # r => ~Busy(rot[q])
  BY Zenon DEF SpanInv, Overlap
<1> QED BY <1>2, <1>3

\* The key file stays in step with the latest record and the rotation under way.
LEMMA FileStep ==
  ASSUME TypeInv, RunInv, SpanInv, FileInv, [Next]_vars
  PROVE  FileInv'
<1> USE DEF disk, memory, faults
<1>1. spoiled \subseteq spoiled'
  BY SpoiledStep
<1>2. ASSUME UNCHANGED <<phase, file, keys, key, version, rot>> PROVE FileInv'
  BY <1>1, <1>2 DEF FileInv, IsTop
<1>3. CASE Boot
  <2>1. /\ phase = "down" /\ phase' = "boot" /\ keys' = keys /\ rot' = rot /\ spoiled' = spoiled
        /\ key' = file' /\ file' # NoKey /\ file # Torn /\ (file # NoKey => file' = file)
        /\ version' = IF DOMAIN keys = {} THEN 1 ELSE keys[Latest(keys)].ver
    BY <1>3 DEF Boot, TypeInv, NoKey
  <2>2. \A r \in Rotators : rot'[r].pc = "idle" /\ rot[r].pc = "idle"
    BY <2>1 DEF RunInv
  <2>3. CASE DOMAIN keys = {}
    BY <2>1, <2>2, <2>3 DEF FileInv
  <2>4. ASSUME NEW v \in DOMAIN keys, IsTop(v) PROVE FileInv'
    <3>1. Latest(keys) = v
      BY <2>4, LatestIsTop DEF TypeInv, IsTop
    <3>2. version' = v /\ file' = file
      BY <2>1, <2>4, <3>1 DEF RunInv, FileInv
    <3>3. v \notin spoiled => file = keys[v].key
      BY <2>1, <2>2, <2>4 DEF FileInv
    <3>4. \A u \in DOMAIN keys : IsTop(u) => u = v
      BY <2>4 DEF IsTop, TypeInv
    <3> QED BY <2>1, <2>2, <2>4, <3>2, <3>3, <3>4 DEF FileInv, IsTop
  <2> QED BY <2>3, <2>4 DEF TypeInv
<1>4. CASE BootTorn
  <2>1. /\ phase = "down" /\ file = NoKey /\ file' = Torn
        /\ UNCHANGED <<phase, keys, rot>> /\ \A r \in Rotators : rot[r].pc = "idle"
    BY <1>4 DEF BootTorn, RunInv
  <2>2. DOMAIN keys = {}
    BY <2>1 DEF FileInv
  <2> QED BY <2>1, <2>2 DEF FileInv, Torn, NoKey
<1>5. CASE Seed
  <2>1. /\ phase = "boot" /\ phase' = "up" /\ UNCHANGED <<file, key, version, rot, spoiled>>
        /\ file = key /\ file # NoKey
        /\ \A r \in Rotators : rot'[r].pc = "idle" /\ rot[r].pc = "idle"
    BY <1>5 DEF Seed, RunInv, FileInv
  <2>2. CASE DOMAIN keys # {}
    <3>1. keys' = keys
      BY <1>5, <2>2 DEF Seed
    <3> QED BY <2>1, <3>1 DEF FileInv, IsTop
  <2>3. CASE DOMAIN keys = {}
    <3>1. keys' = Put(keys, 1, [ver |-> 1, key |-> key, at |-> 0])
      BY <1>5, <2>3 DEF Seed
    <3>2. DOMAIN keys' = {1} /\ keys'[1] = [ver |-> 1, key |-> key, at |-> 0]
      BY <2>3, <3>1 DEF Put
    <3>3. keys'[1].key = key
      BY <3>2
    <3> QED BY <2>1, <3>2, <3>3 DEF FileInv
  <2> QED BY <2>2, <2>3
<1>6. CASE Grow \/ UNCHANGED vars
  BY <1>2, <1>6 DEF Grow, vars
<1>7. ASSUME NEW s \in Signers, Sign(s) PROVE FileInv'
  BY <1>2, <1>7, SignFrame
<1>8. CASE Crash
  <2>1. /\ phase # "down" /\ phase' = "down" /\ keys' = keys /\ file' \in {file, Torn}
        /\ \A r \in Rotators : rot'[r].pc = "idle"
    BY <1>8 DEF Crash, IdleRotator
  <2>2. ASSUME NEW v \in DOMAIN keys, IsTop(v), v \notin spoiled' PROVE file' \in {keys[v].key, Torn}
    <3>1. Latest(keys) = v
      BY <2>2, LatestIsTop DEF TypeInv, IsTop
    <3>2. \A r \in Rotators : rot[r].pc \notin {"swap", "put"}
      BY <1>8, <2>2, <3>1, SpoiledStep
    <3> QED BY <1>1, <2>1, <2>2, <3>2 DEF FileInv
  <2> QED BY <2>1, <2>2 DEF FileInv, IsTop, Torn, NoKey
<1>9. ASSUME NEW r \in Rotators, Rotate(r) PROVE FileInv'
  <2>1. phase = "up" /\ phase' = "up" /\ file # NoKey
    BY <1>9 DEF Rotate, ReadSize, ReadVersion, WriteKeyFile, HotSwap, WriteKeyFileFails,
                PutRecord, PutRecordFails, RunInv, FileInv
  <2>2. \A q \in Rotators : q # r => rot'[q] = rot[q]
    BY <1>9, RotateLocals
  <2>3. CASE ReadSize(r) \/ ReadVersion(r)
    <3>1. UNCHANGED <<file, keys>> /\ rot[r].pc \notin {"swap", "put"}
      BY <2>3 DEF ReadSize, ReadVersion
    <3>2. rot'[r].pc \in {"version", "file"}
      BY <1>9, <2>3, RotateLocals
    <3>3. \A q \in Rotators : rot'[q].pc \in {"swap", "put"} <=> rot[q].pc \in {"swap", "put"}
      BY <2>2, <3>1, <3>2
    <3>4. \A q \in Rotators : rot'[q].pc \in {"swap", "put"} => rot'[q] = rot[q]
      BY <2>2, <3>2
    <3> QED BY <1>1, <2>1, <3>1, <3>3, <3>4 DEF FileInv, IsTop
  <2>4. CASE WriteKeyFile(r)
    <3>1. keys' = keys /\ rot[r].pc = "file" /\ file' = fresh + 1 /\ spoiled' = spoiled
      BY <2>4 DEF WriteKeyFile
    <3>2. rot'[r].pc = "swap" /\ rot'[r].key = fresh + 1 /\ rot'[r].ver = rot[r].ver
      BY <1>9, <2>4, RotateLocals
    <3>3. \A q \in Rotators : (q # r /\ Busy(rot[q])) => rot[q].ver \in spoiled
      BY <3>1 DEF SpanInv, Overlap, Busy
    <3>4. file' # NoKey
      BY <3>1 DEF TypeInv, NoKey
    <3> QED BY <2>1, <2>2, <3>1, <3>2, <3>3, <3>4 DEF FileInv, Busy
  <2>5. CASE HotSwap(r)
    <3>1. UNCHANGED <<keys, file, spoiled>> /\ rot[r].pc = "swap"
      BY <2>5 DEF HotSwap
    <3>2. rot'[r].pc = "put" /\ rot'[r].key = rot[r].key /\ rot'[r].ver = rot[r].ver
      BY <1>9, <2>5, RotateLocals
    <3> QED BY <2>1, <2>2, <3>1, <3>2 DEF FileInv, IsTop
  <2>6. CASE WriteKeyFileFails(r)
    <3>1. /\ keys' = keys /\ spoiled' = spoiled /\ file' \in {file, Torn}
          /\ rot[r].pc = "file" /\ rot'[r].pc = "idle"
      BY <1>9, <2>6, RotateLocals DEF WriteKeyFileFails
    <3>2. \A q \in Rotators : rot'[q].pc \in {"swap", "put"} <=> rot[q].pc \in {"swap", "put"}
      BY <2>2, <3>1
    <3>3. \A q \in Rotators : rot'[q].pc \in {"swap", "put"} =>
            rot'[q] = rot[q] /\ rot[q].ver \in spoiled
      BY <2>2, <3>1 DEF SpanInv, Overlap, Busy
    <3> QED BY <2>1, <3>1, <3>2, <3>3 DEF FileInv, IsTop, Torn, NoKey
  <2>7. CASE PutRecord(r)
    <3> DEFINE rec == [ver |-> rot[r].ver, key |-> rot[r].key, at |-> rot[r].at]
    <3>1. /\ UNCHANGED <<file, spoiled>> /\ rot[r].pc = "put" /\ rot'[r].pc = "idle"
          /\ keys' = Put(keys, rot[r].ver, rec)
      BY <1>9, <2>7, RotateLocals DEF PutRecord
    <3>2. rec.key = rot[r].key
      OBVIOUS
    <3> HIDE DEF rec
    <3>3. /\ DOMAIN keys' = DOMAIN keys \cup {rot[r].ver} /\ keys'[rot[r].ver] = rec
          /\ \A z \in DOMAIN keys : z # rot[r].ver => keys'[z] = keys[z]
      BY <3>1 DEF Put
    <3>4. ASSUME NEW v \in DOMAIN keys', IsTop(v)', v \notin spoiled PROVE file = keys'[v].key
      <4>1. Busy(rot[r]) /\ rot[r].ver \in Nat /\ DOMAIN keys \subseteq Nat
        BY <3>1 DEF Busy, TypeInv, RotatorState
      <4>2. rot[r].ver <= v /\ v \in Nat
        BY <3>3, <3>4, <4>1 DEF IsTop
      <4>3. v = rot[r].ver
        <5>1. \A u \in DOMAIN keys : u >= rot[r].ver => Spoilt(spoiled, rot[r].ver, u)
          BY <4>1, Zenon DEF SpanInv, Span
        <5>2. v >= rot[r].ver
          BY <4>1, <4>2
        <5>3. v \in DOMAIN keys => v \in spoiled
          BY <4>2, <5>1, <5>2 DEF Spoilt
        <5> QED BY <3>3, <3>4, <5>3
      <4>4. file = rot[r].key
        BY <3>1, <3>4, <4>3 DEF FileInv
      <4> QED BY <3>2, <3>3, <4>3, <4>4
    <3>5. \A q \in Rotators : rot'[q].pc \in {"swap", "put"} => rot'[q] = rot[q]
      BY <2>2, <3>1
    <3> QED BY <2>1, <3>1, <3>4, <3>5 DEF FileInv
  <2>8. CASE PutRecordFails(r)
    <3>1. UNCHANGED <<file, keys>> /\ rot'[r].pc = "idle"
      BY <1>9, <2>8, RotateLocals DEF PutRecordFails
    <3>2. \A v \in DOMAIN keys : IsTop(v) => v \in spoiled'
      <4>1. \A v \in DOMAIN keys : IsTop(v) => Latest(keys) = v
        BY LatestIsTop DEF TypeInv, IsTop
      <4> QED BY <2>8, <4>1, SpoiledStep
    <3>3. \A q \in Rotators : rot'[q].pc \in {"swap", "put"} => rot'[q] = rot[q]
      BY <2>2, <3>1
    <3> QED BY <1>1, <2>1, <3>1, <3>2, <3>3 DEF FileInv, IsTop
  <2> QED BY <1>9, <2>3, <2>4, <2>5, <2>6, <2>7, <2>8 DEF Rotate
<1> QED BY <1>3, <1>4, <1>5, <1>6, <1>7, <1>8, <1>9 DEF Next

\* The place of a key in the chain, stored or about to be, does not change while its
\* version is not spoiled.
LEMMA ChainedKept ==
  ASSUME TypeInv, RunInv, SpanInv, [Next]_vars
  PROVE  \A v, k, a : (v \notin spoiled' /\ Chained(keys, rot, v, k, a)) =>
                        Chained(keys', rot', v, k, a)
<1> SUFFICES ASSUME NEW v, NEW k, NEW a, v \notin spoiled', Chained(keys, rot, v, k, a)
             PROVE  Chained(keys', rot', v, k, a)
  OBVIOUS
<1> USE DEF disk, memory, faults
<1>1. v \notin spoiled
  BY SpoiledStep
<1>2. ASSUME UNCHANGED <<keys, rot>> PROVE Chained(keys', rot', v, k, a)
  BY <1>2
<1>3. Boot \/ BootTorn \/ Grow \/ UNCHANGED vars => UNCHANGED <<keys, rot>>
  BY DEF Boot, BootTorn, Grow, vars
<1>4. CASE Seed
  <2>1. v \in DOMAIN keys
    BY <1>4 DEF Seed, RunInv, Chained
  <2>2. keys' = keys /\ rot' = rot
    BY <1>4, <2>1 DEF Seed
  <2> QED BY <1>2, <2>2
<1>5. ASSUME NEW r \in Rotators, Rotate(r) PROVE Chained(keys', rot', v, k, a)
  <2>1. \A q \in Rotators : q # r => rot'[q] = rot[q]
    BY <1>5, RotateLocals
  <2>2. CASE ~PutRecord(r)
    <3>1. keys' = keys
      BY <1>5, <2>2 DEF Rotate, ReadSize, ReadVersion, WriteKeyFile, WriteKeyFileFails, HotSwap,
                        PutRecordFails
    <3>2. rot[r].pc = "put" => rot[r].ver \in spoiled'
      <4>1. rot[r].pc = "put" => PutRecordFails(r)
        BY <1>5, <2>2 DEF Rotate, ReadSize, ReadVersion, WriteKeyFile, WriteKeyFileFails, HotSwap
      <4> QED BY <4>1, SpoiledStep
    <3> QED BY <2>1, <3>1, <3>2 DEF Chained
  <2>3. CASE PutRecord(r)
    <3> DEFINE rec == [ver |-> rot[r].ver, key |-> rot[r].key, at |-> rot[r].at]
    <3>1. keys' = Put(keys, rot[r].ver, rec) /\ rot[r].pc = "put" /\ Busy(rot[r])
      BY <2>3 DEF PutRecord, Busy
    <3>2. rec.key = rot[r].key /\ rec.at = rot[r].at
      OBVIOUS
    <3> HIDE DEF rec
    <3>3. /\ DOMAIN keys' = DOMAIN keys \cup {rot[r].ver} /\ keys'[rot[r].ver] = rec
          /\ \A z \in DOMAIN keys : z # rot[r].ver => keys'[z] = keys[z]
      BY <3>1 DEF Put
    <3>4. CASE v \in DOMAIN keys /\ keys[v].key = k /\ keys[v].at = a
      <4>1. v # rot[r].ver
        BY <1>1, <3>1, <3>4, UnspoiltIsNew DEF TypeInv
      <4> QED BY <3>3, <3>4, <4>1 DEF Chained
    <3>5. ASSUME NEW q \in Rotators,
                 rot[q].pc = "put" /\ rot[q].ver = v /\ rot[q].key = k /\ rot[q].at = a
          PROVE  Chained(keys', rot', v, k, a)
      <4>1. q = r
        BY <1>1, <3>1, <3>5, UnspoiltIsNew DEF Busy
      <4> QED BY <3>2, <3>3, <3>5, <4>1 DEF Chained
    <3> QED BY <3>4, <3>5 DEF Chained
  <2> QED BY <2>2, <2>3
<1>6. ASSUME NEW s \in Signers, Sign(s) PROVE UNCHANGED <<keys, rot>>
  BY <1>6, SignFrame
<1>7. CASE Crash
  <2>1. v \in DOMAIN keys /\ keys[v].key = k /\ keys[v].at = a
    BY <1>7, SpoiledStep DEF Chained
  <2>2. keys' = keys
    BY <1>7 DEF Crash
  <2> QED BY <2>1, <2>2 DEF Chained
<1> QED BY <1>2, <1>3, <1>4, <1>5, <1>6, <1>7 DEF Next

\* So what a key was entitled to sign, it stays entitled to.
LEMMA EntitledKept ==
  ASSUME TypeInv, RunInv, SpanInv, [Next]_vars
  PROVE  \A v, k, n, l : Entitled(keys, rot, spoiled, v, k, n, l) =>
                           Entitled(keys', rot', spoiled', v, k, n, l)
<1>1. spoiled \subseteq spoiled'
  BY SpoiledStep
<1> QED BY <1>1, ChainedKept, Zenon DEF Entitled

\* A key may sign a larger tree, and late.
LEMMA EntitledMore ==
  ASSUME NEW ks, NEW rs, NEW sp, NEW v, NEW k, NEW n \in Nat, NEW m \in Nat, n <= m,
         Entitled(ks, rs, sp, v, k, n, FALSE)
  PROVE  \A l : Entitled(ks, rs, sp, v, k, m, l)
<1>1. \A a \in Nat : a <= n => a <= m
  OBVIOUS
<1> QED BY <1>1, Zenon DEF Entitled

\* The key in use may sign the current tree.
LEMMA CurrentStep ==
  ASSUME TypeInv, RunInv, SpanInv, FileInv, CurrentInv, [Next]_vars
  PROVE  CurrentInv'
<1> USE DEF disk, memory, faults
<1> SUFFICES ASSUME phase' = "up"
             PROVE  Entitled(keys', rot', spoiled', version', key', size', FALSE)
  BY Zenon DEF CurrentInv, Entitled, Chained
<1>1. ASSUME phase = "up", UNCHANGED <<version, key>>, size' \in {size, size + 1}
      PROVE  Entitled(keys', rot', spoiled', version', key', size', FALSE)
  <2>1. Entitled(keys', rot', spoiled', version', key', size, FALSE)
    BY <1>1, EntitledKept, Zenon DEF CurrentInv
  <2>2. size' \in Nat /\ size <= size' /\ size \in Nat
    BY <1>1 DEF TypeInv
  <2> QED BY <2>1, <2>2, EntitledMore
<1>2. CASE Seed
  <2>1. /\ phase = "boot" /\ UNCHANGED <<key, version, size, rot, spoiled>>
        /\ \/ DOMAIN keys = {} /\ version = 1
           \/ IsTop(version) /\ (version \notin spoiled => key = keys[version].key)
    BY <1>2 DEF Seed, FileInv
  <2>2. CASE DOMAIN keys = {}
    <3>1. keys' = Put(keys, 1, [ver |-> 1, key |-> key, at |-> 0])
      BY <1>2, <2>2 DEF Seed
    <3>2. DOMAIN keys' = {1} /\ keys'[1] = [ver |-> 1, key |-> key, at |-> 0]
      BY <2>2, <3>1 DEF Put
    <3>3. keys'[1].key = key /\ keys'[1].at = 0
      BY <3>2
    <3>4. version = 1
      BY <2>1, <2>2 DEF IsTop
    <3>5. Chained(keys', rot', version', key', 0) /\ 0 \in Nat /\ 0 <= size'
      BY <2>1, <3>2, <3>3, <3>4 DEF Chained, TypeInv
    <3> QED BY <3>5, Zenon DEF Entitled
  <2>3. CASE DOMAIN keys # {}
    <3>1. keys' = keys
      BY <1>2, <2>3 DEF Seed
    <3>2. ASSUME version \notin spoiled
          PROVE  \E a \in Nat : Chained(keys', rot', version', key', a) /\ a <= size'
      <4>1. version \in DOMAIN keys /\ key = keys[version].key
        BY <2>1, <2>3, <3>2 DEF IsTop
      <4>2. keys[version].at \in Nat /\ keys[version].at <= size
        BY <4>1 DEF TypeInv, KeyRecord, RunInv
      <4> QED BY <2>1, <3>1, <4>1, <4>2 DEF Chained
    <3> QED BY <2>1, <3>2, Zenon DEF Entitled
  <2> QED BY <2>2, <2>3
<1>3. ASSUME NEW r \in Rotators, HotSwap(r)
      PROVE  Entitled(keys', rot', spoiled', version', key', size', FALSE)
  <2>1. key' = rot[r].key /\ version' = rot[r].ver /\ size' = size
    BY <1>3 DEF HotSwap
  <2>2. /\ rot'[r].pc = "put" /\ rot'[r].key = rot[r].key /\ rot'[r].ver = rot[r].ver
        /\ rot'[r].at = rot[r].at
    BY <1>3, RotateLocals DEF Rotate
  <2>3. rot[r].at \in Nat /\ rot[r].at <= size
    BY DEF TypeInv, RotatorState, RunInv
  <2>4. Chained(keys', rot', version', key', rot[r].at)
    BY <2>1, <2>2 DEF Chained
  <2> QED BY <2>1, <2>3, <2>4, Zenon DEF Entitled
<1>4. ASSUME NEW r \in Rotators, Rotate(r), ~HotSwap(r)
      PROVE  phase = "up" /\ UNCHANGED <<version, key, size>>
  BY <1>4 DEF Rotate, ReadSize, ReadVersion, WriteKeyFile, WriteKeyFileFails, PutRecord,
              PutRecordFails, RunInv
<1>5. ASSUME NEW s \in Signers, Sign(s)
      PROVE  phase = "up" /\ UNCHANGED <<version, key, size>>
  BY <1>5, SignFrame
<1>6. ~Boot /\ ~BootTorn /\ ~Crash
  BY DEF Boot, BootTorn, Crash
<1>7. Grow \/ UNCHANGED vars => phase = "up" /\ UNCHANGED <<version, key>> /\ size' \in {size, size + 1}
  BY DEF Grow, vars
<1> QED BY <1>1, <1>2, <1>3, <1>4, <1>5, <1>6, <1>7 DEF Next

\* What a signer reads belongs together unless a swap comes between.
LEMMA SignStep ==
  ASSUME TypeInv, RunInv, SpanInv, CurrentInv, SignInv, [Next]_vars, NEW t \in Signers
  PROVE  Together(sgn'[t], swaps', version', key', keys', rot', spoiled')
<1> DEFINE Goal == Together(sgn'[t], swaps', version', key', keys', rot', spoiled')
<1> USE DEF disk, memory, faults
<1>1. \A v, k, n, l : Entitled(keys, rot, spoiled, v, k, n, l) =>
                         Entitled(keys', rot', spoiled', v, k, n, l)
  BY EntitledKept
<1>2. Together(sgn[t], swaps, version, key, keys, rot, spoiled)
  BY DEF SignInv
<1>3. ASSUME sgn'[t].pc = "idle" PROVE Goal
  BY <1>3 DEF Together
<1>4. ASSUME sgn'[t] = sgn[t], UNCHANGED <<swaps, version, key>> PROVE Goal
  BY <1>1, <1>2, <1>4, Zenon DEF Together
<1>5. CASE phase # "up"
  <2>1. sgn[t].pc = "idle"
    BY <1>5 DEF RunInv
  <2>2. sgn'[t].pc = "idle"
    <3>1. CASE Crash
      BY <3>1 DEF Crash, IdleSigner
    <3>2. \A r \in Rotators : ~Rotate(r)
      BY <1>5 DEF RunInv, Rotate, ReadSize, ReadVersion, WriteKeyFile, HotSwap,
                  WriteKeyFileFails, PutRecord, PutRecordFails
    <3>3. \A s \in Signers : ~Sign(s)
      BY <1>5 DEF RunInv, Sign, Snapshot, Check, SignPayload, ReadPublicKey, ReadKeyVersion,
                  StoreHead
    <3>4. CASE Boot \/ BootTorn \/ Seed \/ Grow \/ UNCHANGED vars
      BY <2>1, <3>4 DEF Boot, BootTorn, Seed, Grow, vars
    <3> QED BY <3>1, <3>2, <3>3, <3>4 DEF Next
  <2> QED BY <1>3, <2>2
<1>6. CASE phase = "up"
  <2>1. \A l : Entitled(keys', rot', spoiled', version, key, size, l)
    <3>1. Entitled(keys', rot', spoiled', version, key, size, FALSE)
      BY <1>1, <1>6, Zenon DEF CurrentInv
    <3>2. size \in Nat /\ size <= size
      BY DEF TypeInv
    <3> QED BY <3>1, <3>2, EntitledMore
  <2>2. ~Boot /\ ~BootTorn /\ ~Seed
    BY <1>6 DEF Boot, BootTorn, Seed
  <2>3. CASE Grow \/ UNCHANGED vars
    BY <1>4, <2>3 DEF Grow, vars
  <2>4. ASSUME NEW r \in Rotators, Rotate(r), ~HotSwap(r) PROVE Goal
    <3>1. sgn' = sgn /\ UNCHANGED <<swaps, version, key>>
      BY <2>4 DEF Rotate, ReadSize, ReadVersion, WriteKeyFile, WriteKeyFileFails, PutRecord,
                  PutRecordFails
    <3> QED BY <1>4, <3>1
  <2>5. ASSUME NEW r \in Rotators, HotSwap(r) PROVE Goal
    <3>1. sgn' = sgn /\ swaps' = swaps + 1
      BY <2>5 DEF HotSwap
    <3>2. swaps' # sgn'[t].swaps
      <4>1. sgn[t].swaps \in Nat /\ sgn[t].swaps <= swaps
        BY DEF TypeInv, SignerState, RunInv
      <4> QED BY <3>1, <4>1 DEF TypeInv
    <3> QED BY <1>1, <1>2, <3>1, <3>2, Zenon DEF Together
  <2>6. ASSUME NEW s \in Signers, Sign(s), s # t PROVE Goal
    BY <1>4, <2>6, SignFrame
  <2>7. CASE Sign(t)
    <3>1. UNCHANGED <<swaps, version, key>>
      BY <2>7, SignFrame
    <3>2. CASE Snapshot(t)
      <4>1. sgn'[t].pc = "check" /\ sgn'[t].size = size
        BY <3>2, SignLocals
      <4> QED BY <2>1, <3>1, <4>1, Zenon DEF Together
    <3>3. CASE Check(t)
      <4>1. \/ sgn'[t].pc = "idle"
            \/ /\ sgn'[t].pc = "sign" /\ sgn'[t].size = sgn[t].size
               /\ sgn'[t].swaps = sgn[t].swaps /\ sgn[t].pc = "check"
        BY <3>3, SignLocals, Zenon DEF Check
      <4> QED BY <1>1, <1>2, <3>1, <4>1, Zenon DEF Together
    <3>4. CASE SignPayload(t)
      <4>1. /\ sgn'[t].pc = "pub" /\ sgn'[t].sig = key /\ sgn'[t].size = sgn[t].size
            /\ sgn'[t].late = (swaps # sgn[t].swaps) /\ sgn[t].pc = "sign"
        BY <3>4, SignLocals, Zenon DEF SignPayload
      <4>2. CASE swaps = sgn[t].swaps
        <5>1. Entitled(keys, rot, spoiled, version, key, sgn[t].size, FALSE)
          BY <1>2, <4>1, <4>2, Zenon DEF Together
        <5>2. Entitled(keys', rot', spoiled', version, key, sgn[t].size, sgn'[t].late)
          BY <1>1, <5>1, Zenon DEF Entitled
        <5> QED BY <3>1, <4>1, <5>2 DEF Together
      <4>3. CASE swaps # sgn[t].swaps
        <5>1. sgn'[t].late
          BY <4>1, <4>3, Zenon
        <5>2. Entitled(keys', rot', spoiled', version, key, sgn[t].size, sgn'[t].late)
          BY <2>1, <5>1, Zenon DEF Entitled
        <5> QED BY <3>1, <4>1, <5>2 DEF Together
      <4> QED BY <4>2, <4>3
    <3>5. CASE ReadPublicKey(t)
      <4>1. /\ sgn'[t].pc = "ver" /\ sgn'[t].pub = key /\ sgn'[t].sig = sgn[t].sig
            /\ sgn'[t].size = sgn[t].size /\ sgn'[t].late = sgn[t].late
            /\ sgn'[t].swaps = sgn[t].swaps /\ sgn[t].pc = "pub"
        BY <3>5, SignLocals, Zenon DEF ReadPublicKey
      <4> QED BY <1>1, <1>2, <3>1, <4>1, Zenon DEF Together
    <3>6. CASE ReadKeyVersion(t)
      <4>1. /\ sgn'[t].pc = "write" /\ sgn'[t].ver = version /\ sgn'[t].sig = sgn[t].sig
            /\ sgn'[t].pub = sgn[t].pub /\ sgn'[t].size = sgn[t].size
            /\ sgn'[t].late = sgn[t].late /\ sgn'[t].torn = (swaps # sgn[t].swaps)
            /\ sgn[t].pc = "ver"
        BY <3>6, SignLocals, Zenon DEF ReadKeyVersion
      <4>2. CASE swaps = sgn[t].swaps
        <5>1. /\ sgn[t].sig = key /\ sgn[t].pub = key
              /\ Entitled(keys, rot, spoiled, version, key, sgn[t].size, sgn[t].late)
          BY <1>2, <4>1, <4>2 DEF Together
        <5>2. /\ sgn'[t].pub = sgn'[t].sig
              /\ Entitled(keys', rot', spoiled', sgn'[t].ver, sgn'[t].sig, sgn'[t].size, sgn'[t].late)
          BY <1>1, <4>1, <5>1, Zenon
        <5> QED BY <4>1, <5>2 DEF Together
      <4>3. CASE swaps # sgn[t].swaps
        <5>1. sgn'[t].torn
          BY <4>1, <4>3, Zenon
        <5> QED BY <4>1, <5>1 DEF Together
      <4> QED BY <4>2, <4>3
    <3>7. CASE StoreHead(t)
      BY <1>3, <3>7, SignLocals
    <3> QED BY <2>7, <3>2, <3>3, <3>4, <3>5, <3>6, <3>7 DEF Sign
  <2>8. CASE Crash
    BY <1>3, <2>8 DEF Crash, IdleSigner
  <2> QED BY <2>2, <2>3, <2>4, <2>5, <2>6, <2>7, <2>8 DEF Next
<1> QED BY <1>5, <1>6

\* Stored tree heads keep what their signers read.
LEMMA HeadStep ==
  ASSUME TypeInv, RunInv, SpanInv, SignInv, HeadInv, [Next]_vars
  PROVE  HeadInv'
<1> USE DEF disk, memory, faults
<1>1. \A v, k, n, l : Entitled(keys, rot, spoiled, v, k, n, l) =>
                         Entitled(keys', rot', spoiled', v, k, n, l)
  BY EntitledKept
<1>2. ASSUME heads' = heads PROVE HeadInv'
  <2>1. \A n \in DOMAIN heads : ~heads[n].torn =>
          /\ heads[n].pub = heads[n].sig
          /\ Entitled(keys', rot', spoiled', heads[n].ver, heads[n].sig, n, heads[n].late)
    BY <1>1, Zenon DEF HeadInv
  <2> QED BY <1>2, <2>1, Zenon DEF HeadInv, Entitled, Chained
<1>3. ASSUME NEW s \in Signers, StoreHead(s) PROVE HeadInv'
  <2> DEFINE h == [sig |-> sgn[s].sig, pub |-> sgn[s].pub, ver |-> sgn[s].ver,
                   torn |-> sgn[s].torn, late |-> sgn[s].late]
  <2>1. heads' = Put(heads, sgn[s].size, h) /\ sgn[s].pc = "write"
    BY <1>3 DEF StoreHead
  <2>2. /\ h.sig = sgn[s].sig /\ h.pub = sgn[s].pub /\ h.ver = sgn[s].ver
        /\ h.torn = sgn[s].torn /\ h.late = sgn[s].late
    OBVIOUS
  <2> HIDE DEF h
  <2>3. \A n \in DOMAIN heads' : \/ n = sgn[s].size /\ heads'[n] = h
                                 \/ n \in DOMAIN heads /\ heads'[n] = heads[n]
    BY <2>1 DEF Put
  <2>4. ~h.torn => h.pub = h.sig /\ Entitled(keys', rot', spoiled', h.ver, h.sig, sgn[s].size, h.late)
    <3>1. Together(sgn[s], swaps, version, key, keys, rot, spoiled)
      BY DEF SignInv
    <3> QED BY <1>1, <2>1, <2>2, <3>1, Zenon DEF Together
  <2>5. ASSUME NEW n \in DOMAIN heads', ~heads'[n].torn
        PROVE  /\ heads'[n].pub = heads'[n].sig
               /\ Entitled(keys', rot', spoiled', heads'[n].ver, heads'[n].sig, n, heads'[n].late)
    BY <1>1, <2>3, <2>4, <2>5, Zenon DEF HeadInv
  <2> QED BY <2>5, Zenon DEF HeadInv, Entitled, Chained
<1>4. ASSUME NEW s \in Signers, Sign(s), ~StoreHead(s) PROVE heads' = heads
  BY <1>4, SignFrame
<1>5. ASSUME ~\E s \in Signers : Sign(s) PROVE heads' = heads
  BY <1>5, Zenon DEF Next, Boot, BootTorn, Seed, Grow, Rotate, ReadSize, ReadVersion, WriteKeyFile,
              HotSwap, WriteKeyFileFails, PutRecord, PutRecordFails, Crash, vars
<1> QED BY <1>2, <1>3, <1>4, <1>5

-----------------------------------------------------------------------------
(* The theorems.                                                           *)

\* A server that has just been installed has its bootstrap key in use and nothing
\* recorded: the invariant holds.
LEMMA KeysInit == Init => KInv
<1> SUFFICES ASSUME Init PROVE KInv
  OBVIOUS
<1> USE DEF Init, NoRecords, NoKey
<1>1. TypeInv
  <2>1. IdleRotator \in RotatorState
    BY DEF IdleRotator, RotatorState
  <2>2. IdleSigner \in SignerState
    <3>1. FALSE \in BOOLEAN
      BY Zenon
    <3> QED BY <3>1 DEF IdleSigner, SignerState
  <2> QED BY <2>1, <2>2 DEF TypeInv
<1>2. RunInv
  BY DEF RunInv, IdleRotator, IdleSigner
<1>3. SpanInv
  BY DEF SpanInv, Busy, IdleRotator
<1>4. FileInv
  BY DEF FileInv, IdleRotator
<1>5. CurrentInv
  BY DEF CurrentInv
<1>6. SignInv
  BY Zenon DEF SignInv, Together, IdleSigner
<1>7. HeadInv
  BY DEF HeadInv
<1> QED BY <1>1, <1>2, <1>3, <1>4, <1>5, <1>6, <1>7 DEF KInv

\* Every step of the rotations, of the signatures and of a restart keeps the
\* invariant.
LEMMA KeysStep == KInv /\ [Next]_vars => KInv'
<1> SUFFICES ASSUME KInv, [Next]_vars PROVE KInv'
  OBVIOUS
<1>1. TypeInv /\ RunInv /\ SpanInv /\ FileInv /\ CurrentInv /\ SignInv /\ HeadInv
  BY DEF KInv
<1>2. TypeInv' /\ RunInv'
  BY <1>1, TypeStep, RunStep
<1>3. SpanInv' /\ FileInv' /\ CurrentInv'
  BY <1>1, SpanStep, FileStep, CurrentStep
<1>4. HeadInv'
  BY <1>1, HeadStep
<1>5. \A s \in Signers : Together(sgn'[s], swaps', version', key', keys', rot', spoiled')
  BY <1>1, SignStep
<1>6. SignInv'
  BY <1>5, Zenon DEF SignInv, Together, Entitled, Chained
<1> QED BY <1>2, <1>3, <1>4, <1>6 DEF KInv

\* So it holds in every state that the key records and the signers can reach.
LEMMA KeysInvariant == Spec => []KInv
BY KeysInit, KeysStep, PTL DEF Spec

\* A stored head of an undisturbed version was signed with the key of its record.
LEMMA CleanHead ==
  ASSUME KInv, NEW n \in DOMAIN heads, ~heads[n].torn, Clean(heads[n].ver)
  PROVE  /\ heads[n].ver \in DOMAIN keys /\ keys[heads[n].ver].key = heads[n].sig
         /\ heads[n].late \/ keys[heads[n].ver].at <= n
<1>1. Entitled(keys, rot, spoiled, heads[n].ver, heads[n].sig, n, heads[n].late)
  BY DEF KInv, HeadInv
<1>2. PICK a \in Nat : /\ Chained(keys, rot, heads[n].ver, heads[n].sig, a)
                       /\ heads[n].late \/ a <= n
  BY <1>1, Zenon DEF Entitled, Clean
<1> QED BY <1>2 DEF Chained, Clean, InProgress

\* A tree head that no hot swap tore (sign, public_key and key_version of
\* sign_and_store) verifies with the key it carries, and with the key chain unless
\* rotations that overlapped or were cut short touched its version: through any
\* number of rotations, at once or one after the other, failures and restarts.
THEOREM HeadsVerify == Spec => []UntornHeadVerifies
<1>1. KInv => UntornHeadVerifies
  <2> SUFFICES ASSUME KInv, NEW n \in DOMAIN heads, ~heads[n].torn
               PROVE  /\ verify_tree_head(heads[n])
                      /\ Clean(heads[n].ver) => verify_tree_head_with_chain(heads[n])
    BY DEF UntornHeadVerifies
  <2>1. heads[n].pub = heads[n].sig
    BY DEF KInv, HeadInv
  <2>2. Clean(heads[n].ver) =>
          heads[n].ver \in DOMAIN keys /\ keys[heads[n].ver].key = heads[n].sig
    BY CleanHead
  <2> QED BY <2>1, <2>2 DEF verify_tree_head, verify_tree_head_with_chain
<1> QED BY <1>1, KeysInvariant, PTL

\* activated_at_tree_size of a key's record is at most the size of every tree head
\* that the key signed without a swap falling into the signing, in every version
\* that was not disturbed.
THEOREM ActivationBounds == Spec => []ActivationBoundsHeads
<1>1. KInv => ActivationBoundsHeads
  BY CleanHead DEF ActivationBoundsHeads
<1> QED BY <1>1, KeysInvariant, PTL

\* Between rotations the running server signs with the key of the latest record, and
\* the key file holds the same key, in every version that was not disturbed:
\* AppState::build and rotate_key keep the three in step, and bring them back in step
\* after rotations that overlapped or were cut short.
THEOREM SignerAndChainAgree == Spec => []SignerMatchesChain
<1>1. KInv => SignerMatchesChain
  <2> SUFFICES ASSUME KInv, phase = "up", version \notin spoiled,
                      \A r \in Rotators : ~InProgress(r)
               PROVE  version = Latest(keys) /\ key = keys[version].key /\ file \in {key, Torn}
    BY DEF SignerMatchesChain
  <2>1. version \in DOMAIN keys /\ key = keys[version].key
    <3>1. Entitled(keys, rot, spoiled, version, key, size, FALSE)
      BY DEF KInv, CurrentInv
    <3>2. PICK a \in Nat : Chained(keys, rot, version, key, a)
      BY <3>1, Zenon DEF Entitled
    <3> QED BY <3>2 DEF Chained, InProgress
  <2>2. IsTop(version)
    <3>1. \A u \in DOMAIN keys : u > version => Spoilt(spoiled, version, u)
      BY DEF KInv, SpanInv
    <3>2. version \in Nat /\ DOMAIN keys \subseteq Nat
      BY DEF KInv, TypeInv
    <3> QED BY <2>1, <3>1, <3>2 DEF IsTop, Spoilt
  <2>3. Latest(keys) = version
    BY <2>2, LatestIsTop DEF KInv, TypeInv, IsTop
  <2>4. file \in {key, Torn}
    BY <2>1, <2>2 DEF KInv, FileInv, InProgress
  <2> QED BY <2>1, <2>3, <2>4
<1> QED BY <1>1, KeysInvariant, PTL

=============================================================================
