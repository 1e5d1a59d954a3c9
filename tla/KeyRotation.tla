----------------------------- MODULE KeyRotation -----------------------------
(***************************************************************************)
(* Signing keys: the key file, the signer behind its RwLock, the keys      *)
(* column family, the rotate_key handler, sign_and_store as a user of the  *)
(* signer, crashes in between, and the start of the server.                *)
(*                                                                         *)
(* A key pair is a number, a signature is the number of the key that made  *)
(* it.  What is signed is the tree size: LogServer has the roots, here the *)
(* question is which key a tree head says it was signed with.              *)
(*                                                                         *)
(* Nothing keeps two rotate_key handlers apart, and nothing undoes one     *)
(* that does not get to its end.  The history variable spoiled collects    *)
(* the versions such rotations touched; the properties say that the damage *)
(* ends there.                                                             *)
(***************************************************************************)
EXTENDS Integers, FiniteSets

CONSTANTS
  Rotators,     \* concurrent rotate_key handlers
  Signers,      \* concurrent callers of sign_and_store
  MaxKeys,      \* bound on generated keys
  MaxSize,      \* bound on the tree size
  MaxCrashes,   \* bound on process crashes
  MaxFailures   \* bound on failing writes (key file, keys column family)

ASSUME KeyRotationAssumption ==
  MaxKeys \in Nat /\ MaxSize \in Nat /\ MaxCrashes \in Nat /\ MaxFailures \in Nat

NoKey == 0
Torn == -1   \* a key file that is not exactly 32 bytes

VARIABLES
  phase,     \* "down", "boot" (key loaded, CF_KEYS not yet seeded), "up"
  file,      \* the key file
  key,       \* SignerInner.key
  version,   \* SignerInner.version
  keys,      \* column family keys: version -> [key, at]
  fresh,     \* number of keys generated
  size,      \* merkle.size(), the log is durable
  heads,     \* column family heads: tree size -> [sig, pub, ver, torn, late]
  rot,       \* rotator: [pc, at, ver, key]
  sgn,       \* signer: [pc, size, sig, pub, ver, torn, late, swaps]
  swaps,     \* number of hot swaps of the signer, to tell overlaps
  spoiled,   \* versions of rotations that overlapped or were cut short
  crashes, failures

disk   == <<file, keys, heads>>
memory == <<key, version>>
faults == <<spoiled, crashes, failures>>
vars   == <<phase, disk, memory, fresh, size, rot, sgn, swaps, faults>>

IdleRotator == [pc |-> "idle", at |-> 0, ver |-> 0, key |-> NoKey]
IdleSigner ==
  [pc |-> "idle", size |-> 0, sig |-> NoKey, pub |-> NoKey, ver |-> 0,
   torn |-> FALSE, late |-> FALSE, swaps |-> 0]
NoRecords == [v \in {} |-> 0]

Put(f, x, y) == [z \in DOMAIN f \cup {x} |-> IF z = x THEN y ELSE f[z]]
Latest(f) == CHOOSE x \in DOMAIN f : \A y \in DOMAIN f : y <= x

Init ==
  /\ phase = "down"
  /\ file = NoKey
  /\ key = NoKey
  /\ version = 0
  /\ keys = NoRecords
  /\ fresh = 0
  /\ size = 0
  /\ heads = NoRecords
  /\ rot = [r \in Rotators |-> IdleRotator]
  /\ sgn = [s \in Signers |-> IdleSigner]
  /\ swaps = 0
  /\ spoiled = {}
  /\ crashes = 0
  /\ failures = 0

-----------------------------------------------------------------------------
(* AppState::build.                                                        *)

\* Mutation: the version starts at 1 whatever the key store holds.
Boot_VersionOne ==
  /\ phase = "down"
  /\ file # Torn
  /\ version' = 1
  /\ \/ /\ file # NoKey
        /\ key' = file
        /\ UNCHANGED <<file, fresh>>
     \/ /\ file = NoKey
        /\ fresh < MaxKeys
        /\ fresh' = fresh + 1
        /\ key' = fresh + 1
        /\ file' = fresh + 1
  /\ phase' = "boot"
  /\ UNCHANGED <<keys, heads, size, rot, sgn, swaps, faults>>

\* The version is that of the latest record, or 1; the key is the file's, or a
\* new one that is written to the file.  A torn file is an error: no start.
Boot ==
  /\ phase = "down"
  /\ file # Torn
  /\ version' = IF DOMAIN keys = {} THEN 1 ELSE keys[Latest(keys)].ver
  /\ \/ /\ file # NoKey
        /\ key' = file
        /\ UNCHANGED <<file, fresh>>
     \/ /\ file = NoKey
        /\ fresh < MaxKeys
        /\ fresh' = fresh + 1
        /\ key' = fresh + 1
        /\ file' = fresh + 1
  /\ phase' = "boot"
  /\ UNCHANGED <<keys, heads, size, rot, sgn, swaps, faults>>

\* The first start dies while it writes the new key to the file.
BootTorn ==
  /\ phase = "down"
  /\ file = NoKey
  /\ crashes < MaxCrashes
  /\ crashes' = crashes + 1
  /\ file' = Torn
  /\ UNCHANGED <<phase, keys, heads, memory, fresh, size, rot, sgn, swaps, spoiled, failures>>

\* An empty key store is seeded with the public key as version 1.
Seed ==
  /\ phase = "boot"
  /\ keys' = IF DOMAIN keys = {}
             THEN Put(keys, 1, [ver |-> 1, key |-> key, at |-> 0])
             ELSE keys
  /\ phase' = "up"
  /\ UNCHANGED <<file, heads, memory, fresh, size, rot, sgn, swaps, faults>>

\* An entry is appended.
Grow ==
  /\ phase = "up"
  /\ size < MaxSize
  /\ size' = size + 1
  /\ UNCHANGED <<phase, disk, memory, fresh, rot, sgn, swaps, faults>>

-----------------------------------------------------------------------------
(* rotate_key.                                                             *)

\* The rotation has read the version and not yet stored its record.
InProgress(r) == rot[r].pc \in {"file", "swap", "put"}

\* The tree size is read under append_mu.
ReadSize(r) ==
  /\ phase = "up"
  /\ rot[r].pc = "idle"
  /\ rot' = [rot EXCEPT ![r].pc = "version", ![r].at = size]
  /\ UNCHANGED <<phase, disk, memory, fresh, size, sgn, swaps, faults>>

\* key_version() + 1, under the read lock.  A rotation that is under way overlaps
\* with this one from here on.
ReadVersion(r) ==
  /\ rot[r].pc = "version"
  /\ rot' = [rot EXCEPT ![r].pc = "file", ![r].ver = version + 1]
  /\ spoiled' = spoiled \cup UNION {{version + 1, rot[q].ver} : q \in {p \in Rotators \ {r} : InProgress(p)}}
  /\ UNCHANGED <<phase, disk, memory, fresh, size, sgn, swaps, crashes, failures>>

\* rotate: a key is generated and written over the key file.
WriteKeyFile(r) ==
  /\ rot[r].pc = "file"
  /\ fresh < MaxKeys
  /\ fresh' = fresh + 1
  /\ file' = fresh + 1
  /\ rot' = [rot EXCEPT ![r].pc = "swap", ![r].key = fresh + 1]
  /\ UNCHANGED <<phase, keys, heads, memory, size, sgn, swaps, faults>>

\* fs::write fails, possibly after it truncated the file: the handler returns 500.
WriteKeyFileFails(r) ==
  /\ rot[r].pc = "file"
  /\ failures < MaxFailures
  /\ failures' = failures + 1
  /\ file' \in {file, Torn}
  /\ rot' = [rot EXCEPT ![r] = IdleRotator]
  /\ UNCHANGED <<phase, keys, heads, memory, fresh, size, sgn, swaps, spoiled, crashes>>

\* Mutation: the version in memory is left behind.
HotSwap_KeyOnly(r) ==
  /\ rot[r].pc = "swap"
  /\ key' = rot[r].key
  /\ swaps' = swaps + 1
  /\ rot' = [rot EXCEPT ![r].pc = "put"]
  /\ UNCHANGED <<phase, disk, version, fresh, size, sgn, faults>>

\* rotate: key and version are replaced under the write lock.
HotSwap(r) ==
  /\ rot[r].pc = "swap"
  /\ key' = rot[r].key
  /\ version' = rot[r].ver
  /\ swaps' = swaps + 1
  /\ rot' = [rot EXCEPT ![r].pc = "put"]
  /\ UNCHANGED <<phase, disk, fresh, size, sgn, faults>>

\* Mutation: the tree size is read when the record is made.
PutRecord_SizeNow(r) ==
  /\ rot[r].pc = "put"
  /\ keys' = Put(keys, rot[r].ver, [ver |-> rot[r].ver, key |-> rot[r].key, at |-> size])
  /\ rot' = [rot EXCEPT ![r] = IdleRotator]
  /\ UNCHANGED <<phase, file, heads, memory, fresh, size, sgn, swaps, faults>>

\* keys.put: the record is stored under its version.
PutRecord(r) ==
  /\ rot[r].pc = "put"
  /\ keys' = Put(keys, rot[r].ver, [ver |-> rot[r].ver, key |-> rot[r].key, at |-> rot[r].at])
  /\ rot' = [rot EXCEPT ![r] = IdleRotator]
  /\ UNCHANGED <<phase, file, heads, memory, fresh, size, sgn, swaps, faults>>

\* keys.put fails: the handler returns 500, the new key is in use all the same, and
\* a restart will use it with the latest version that has a record.
PutRecordFails(r) ==
  /\ rot[r].pc = "put"
  /\ failures < MaxFailures
  /\ failures' = failures + 1
  /\ spoiled' = spoiled \cup {rot[r].ver, Latest(keys)}
  /\ rot' = [rot EXCEPT ![r] = IdleRotator]
  /\ UNCHANGED <<phase, disk, memory, fresh, size, sgn, swaps, crashes>>

-----------------------------------------------------------------------------
(* sign_and_store.                                                         *)

\* Snapshot of the tree; an empty tree is not signed.
Snapshot(s) ==
  /\ phase = "up"
  /\ sgn[s].pc = "idle"
  /\ size > 0
  /\ sgn' = [sgn EXCEPT ![s].pc = "check", ![s].size = size, ![s].swaps = swaps]
  /\ UNCHANGED <<phase, disk, memory, fresh, size, rot, swaps, faults>>

\* A size that is the latest signed one is skipped.
Check(s) ==
  /\ sgn[s].pc = "check"
  /\ sgn' = IF DOMAIN heads # {} /\ Latest(heads) = sgn[s].size
            THEN [sgn EXCEPT ![s] = IdleSigner]
            ELSE [sgn EXCEPT ![s].pc = "sign"]
  /\ UNCHANGED <<phase, disk, memory, fresh, size, rot, swaps, faults>>

\* signer.sign, public_key and key_version take the read lock one by one.
SignPayload(s) ==
  /\ sgn[s].pc = "sign"
  /\ sgn' = [sgn EXCEPT ![s].pc = "pub", ![s].sig = key,
                             ![s].late = (swaps # sgn[s].swaps), ![s].swaps = swaps]
  /\ UNCHANGED <<phase, disk, memory, fresh, size, rot, swaps, faults>>

ReadPublicKey(s) ==
  /\ sgn[s].pc = "pub"
  /\ sgn' = [sgn EXCEPT ![s].pc = "ver", ![s].pub = key]
  /\ UNCHANGED <<phase, disk, memory, fresh, size, rot, swaps, faults>>

ReadKeyVersion(s) ==
  /\ sgn[s].pc = "ver"
  /\ sgn' = [sgn EXCEPT ![s].pc = "write", ![s].ver = version, ![s].torn = (swaps # sgn[s].swaps),
                             ![s].swaps = 0]
  /\ UNCHANGED <<phase, disk, memory, fresh, size, rot, swaps, faults>>

\* heads.write, under the tree size (a failing write is in module LogServer).
StoreHead(s) ==
  /\ sgn[s].pc = "write"
  /\ heads' = Put(heads, sgn[s].size, [sig |-> sgn[s].sig, pub |-> sgn[s].pub,
                                       ver |-> sgn[s].ver, torn |-> sgn[s].torn,
                                       late |-> sgn[s].late])
  /\ sgn' = [sgn EXCEPT ![s] = IdleSigner]
  /\ UNCHANGED <<phase, file, keys, memory, fresh, size, rot, swaps, faults>>

-----------------------------------------------------------------------------
\* The process dies; a key file that was being written may be torn, and a key that
\* was written and not recorded will be used with the latest recorded version.
Crash ==
  /\ phase # "down"
  /\ crashes < MaxCrashes
  /\ crashes' = crashes + 1
  /\ phase' = "down"
  /\ file' \in {file} \cup IF \E r \in Rotators : rot[r].pc = "file" THEN {Torn} ELSE {}
  /\ key' = NoKey
  /\ version' = 0
  /\ spoiled' = spoiled \cup
       UNION {{rot[r].ver, Latest(keys)} : r \in {q \in Rotators : rot[q].pc \in {"swap", "put"}}}
  /\ rot' = [r \in Rotators |-> IdleRotator]
  /\ sgn' = [s \in Signers |-> IdleSigner]
  /\ UNCHANGED <<keys, heads, fresh, size, swaps, failures>>

Rotate(r) ==
  \/ ReadSize(r)
  \/ ReadVersion(r)
  \/ WriteKeyFile(r)
  \/ WriteKeyFileFails(r)
  \/ HotSwap(r)
  \/ PutRecord(r)
  \/ PutRecordFails(r)

Sign(s) ==
  \/ Snapshot(s)
  \/ Check(s)
  \/ SignPayload(s)
  \/ ReadPublicKey(s)
  \/ ReadKeyVersion(s)
  \/ StoreHead(s)

Next ==
  \/ Boot
  \/ BootTorn
  \/ Seed
  \/ Grow
  \/ \E r \in Rotators : Rotate(r)
  \/ \E s \in Signers : Sign(s)
  \/ Crash

Spec == Init /\ [][Next]_vars

-----------------------------------------------------------------------------
(* Properties.                                                             *)

\* The checks of the client libraries: with the key the tree head carries, and
\* with the record of its version in the key chain.
verify_tree_head(h) == h.pub = h.sig
verify_tree_head_with_chain(h) == h.ver \in DOMAIN keys /\ keys[h.ver].key = h.sig

\* Version v had a rotation to itself, which stored its record.
Clean(v) == v \notin spoiled /\ \A r \in Rotators : InProgress(r) => rot[r].ver # v

\* A tree head whose signature, public key and version were read without a hot
\* swap in between carries the key that signed it; it verifies with the key chain
\* too, through any number of rotations, overlapping or not, cut short or not, and
\* restarts, unless they touched its own version.
UntornHeadVerifies ==
  \A n \in DOMAIN heads : ~heads[n].torn =>
    /\ verify_tree_head(heads[n])
    /\ Clean(heads[n].ver) => verify_tree_head_with_chain(heads[n])

\* activated_at_tree_size is where a key takes over: a tree head signed with a key
\* has at least the size its record says, unless a swap fell into its signing or the
\* version was disturbed.
ActivationBoundsHeads ==
  \A n \in DOMAIN heads :
    (~heads[n].torn /\ ~heads[n].late /\ Clean(heads[n].ver)) => keys[heads[n].ver].at <= n

\* Between rotations, and after a start, a version that was not disturbed is the
\* latest of the chain, its record has the key in use, and the key file has it too,
\* unless a later rotation tore the file: what two rotations or a rotation cut
\* short put out of step, the next version is free of.
SignerMatchesChain ==
  (phase = "up" /\ version \notin spoiled /\ \A r \in Rotators : ~InProgress(r)) =>
    /\ version = Latest(keys)
    /\ key = keys[version].key
    /\ file \in {key, Torn}

\* Between rotations every stored tree head verifies with the key chain: "In-flight
\* and historical STHs continue to verify against their respective key versions"
\* (docs/deployment.md), for the signature, the public key and the version that
\* sign_and_store reads one by one while rotate_key swaps the key.
HeadsVerifyWithChain ==
  (\A r \in Rotators : ~InProgress(r)) =>
    \A n \in DOMAIN heads : verify_tree_head_with_chain(heads[n])
=============================================================================
