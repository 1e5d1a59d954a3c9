# A TLA+ verification of Settled

Settled is an append-only, tamper-evident log: entries are hashed into an
RFC 6962 Merkle tree, the server signs tree heads (STHs), and clients check
inclusion and consistency proofs against them. This directory models the server,
its storage, the verifiers and programs that audit it, checks the models with TLC, and
proves with TLAPS, for every value of the constants, the safety properties of the write
path, the reads, the streams, the keys, the rate limiter and the shutdown. Paths below are
relative to the repository.

## Inventory

| Part | State | Operations | What makes it hard |
|---|---|---|---|
| Append path (`service.rs`, `log_store.rs`, `db.rs`, `state.rs`) | log and index column families, `next_seq`, the tree in memory, `append_mu` | Append, BatchAppend, startup | sequence numbers are reserved before a write that may fail; crash between write, tree and response; writes are not synced |
| STH signing (`sth_task.rs`, `head_store.rs`, `force_sth` in `admin.rs`) | heads column family | `sign_and_store` by the task or by an admin call | snapshot under the lock, everything after it without |
| Merkle tree and proofs (`merkle.rs`, `proof.rs`, `tree_store.rs`) | frontier, stored nodes | append, root, proofs, verification, rebuild | index arithmetic at the boundaries; a rebuild in two writes, by sequence numbers that may have gaps |
| Proof RPCs (`service.rs`) | none | InclusionProof, ConsistencyProof | three unsynchronised reads per call |
| Watch (`service.rs`) | broadcast ring, stream task, response channel | subscribe, replay, live, lag | broadcasts after the lock; slow readers; reconnection |
| Signing keys (`signer.rs`, `key_store.rs`, `rotate_key` in `admin.rs`) | key file, signer, keys column family | boot, rotate, sign | three places to change, no lock over them |
| Reads (`service.rs`, `log_store.rs`) | none | GetLatest, ListEntries, GetByKey | pages over a log that grows |
| Rate limiter (`rate_limit.rs`) | token bucket | `try_consume`, `try_consume_n` | batches, refill, refusals |
| Process (`main.rs`) | signal, watch channel, tasks | serve, drain, final signing cycle | order of drain and notification |
| Client libraries (`sdks/`) | batches in flight | six verifiers, calls, `appendStream` | separate implementations of one algorithm; timers and answers in any order |
| Auditing programs (`demos/rust`, `settled-check`) | the tree heads, entries and proofs of a session | append and list, get, watch, verify | several calls to a server that goes on, fails and restarts in between |
| Web console (`apps/ui`) | entry window | its inclusion verifier, paging, live tail | asynchronous views |

The properties wanted of each part are in the section on runs; the hazards, each at
its line, are in `PROJECT.json`.

## Modules

**LogServer** is the core. An append handler takes `append_mu` and reserves numbers
(`Reserve`), writes one batch (`Commit`, or `CommitFails`), extends the tree and
unlocks (`Extend`), and answers (`Reply`). A signer, the STH task or a `force_sth`
handler, snapshots the tree under the lock (`Snapshot`), skips a size that is the latest
signed one (`Check`), and signs and writes the head (`StoreHead`, or `StoreHeadFails`);
`force_sth` then answers with the latest head (`ForceAnswer`).
`Crash` loses memory, `PowerLoss(k)` also the last writes of the WAL that all column
families share, `Start` is `Db::open` and `AppState::build`. A tree is the sequence
of its leaves, and so is its root: module Merkle is about the hashes. `wal` holds the
database before each unsynced write. Timestamps are left out: they are read from
`SystemTime::now`, which may repeat or go back, and no guard depends on them.

**TransparencyLog** is what the server promises: a log that only grows, receipts for
entries in it, published commitments to its prefixes, and clients holding one.
LogServer implements it (`entries <- log`, `receipts <- acked`, `published <-` the
roots of the heads, `held <- trusted`).

**MCLogServer** adds the symmetry and a view for TLC: `ServerView` identifies states that
differ in the tree head a client holds or, after a power loss, in receipts. No guard reads
them, and `log_faults` looks at the former only in the step that obtains it.

**Merkle** has the algorithms as operators: tree hash, paths, consistency proofs, the
verifiers of `settled-core`, the consistency verifier of the client libraries (from
the Rust one; the six are one algorithm) and the console's inclusion verifier. A hash
is a term, so different inputs have different hashes. The client libraries' inclusion
verifier is the loop of `settled-core`'s, so there is one definition for both.

**MerkleTree** is a growing log with the frontier, its rebuild at startup, and the tree
column family. The frontier counts leaves and the tree store goes by sequence numbers, so a
failed append (`AppendFails`) sets the two apart. `rebuild_from_log` collects the keys,
deletes them, reads the log and writes the nodes (`RebuildScan`, `RebuildDelete`,
`RebuildRead`, `RebuildWrite`), beside appends and other callers of `write_batch`; it may
fail, be cut by a crash, or panic where `compute_nodes_from_leaves` looks up a node that a
gap has left out (`Parents` and `compute_nodes_from_leaves` are then `None`). `stray` is
history: the nodes that other callers wrote. The server itself does not use the tree column
family; the storage crate offers it.

**ProofService** composes LogServer and Merkle: the two proof handlers read size,
leaves and heads one after the other while LogServer's actions go on. A power loss is
left out of its next-state relation.

**Watch** has the sends that follow an append (one step each, after the lock), the
stream task with its replay and live phases, the ring of `ChannelCap` entries, the
channel of `PipeCap`, and a client that reconnects with its last sequence number.
`overtaken` is a history variable: a larger number was broadcast before a smaller one.
As in the code, the live phase does not filter entries below `from_seq`.

**Audit** composes LogServer and Merkle with a program that audits the server over the
Rust client library: the demo's default mode (old tree head, appends, wait for a tree
head, listing, newer tree head, inclusion proofs, consistency proof), its get and watch
modes, and `settled-check verify`. A session is sequential and each of its calls is one
step (`Call`): answered, refused, or failed by a server that is down or a transport that
fails up to `MaxErrors` times. `ses` has the locals of the program; `ses.at` is the next
call. The demo is taken with `--verify --consistency`; what it does without them is an
initial part of that. Proof calls are atomic here and read by read in ProofService. The
signature checks of these programs are left to KeyRotation. The
history fields are `shown`, `lost` and `alarm`. **MCAudit** adds the symmetry of
payloads, a view without receipts and without a WAL that can no longer be cut, and a
constraint that stops where the session has ended.

**KeyRotation** has the key file (possibly torn), the signer, the key chain, the steps
of any number of concurrent `rotate_key` handlers, and `sign_and_store` as three separate
reads of the signer. `torn`, `late` and `spoiled` are history: a swap fell between those
reads; a swap fell between the snapshot and the signature; the versions that two rotations
in progress at once, or one cut short by a crash or a failing `keys.put`, have touched. The
two checks of tree heads in the client libraries are `verify_tree_head` and
`verify_tree_head_with_chain`. **MCKeyRotation** adds the symmetry of the handlers and a
view that has, of the count of swaps, only whether a signer has seen the last one.

**LogReads** has the listing handlers called page by page, GetLatest as its two reads,
and the key index, beside reserved, committed and failed batches and restarts. `Matching`
is what the iterator loops collect: the records of a set, in the order of the log.

**RateLimiter** counts tokens in units of 1/`Ticks`, so its arithmetic is exact; the
rounding of `f64` is left out. **AppendStream** extends it with `appendStream` of the
TypeScript client: entries taken from the input, the batch, the flush timer, batches in
flight, and answers in any order from a server whose bucket may refuse. JavaScript runs
from await to await, so a step of the generator goes up to its next await.

**Shutdown** is `main` from the signal to the exit.

## Runs

Deadlock is not checked: every model stops when its bounds are used up and all
handlers are idle, and that is no fault of the system.

| Run | Instance | What it shows |
|---|---|---|
| `log_faults` | 2 handlers, the STH task and a `force_sth` handler, 2 payloads, 3 entries, batches of 2, one failing write, one crash, one power loss that takes any suffix of the WAL | no head outlives its entries, the tree matches the log whenever the lock is free, numbers increase and are leaf indices until a write fails, acknowledged entries stay, nothing is withdrawn, `force_sth` answers with a head that covers what it found |
| `sth_task` | the same without power loss, with fairness | every stored entry is eventually signed; the server implements TransparencyLog |
| `audit` | one session of any kind with two demo entries or none, 1 other handler, the STH task, 2 payloads, 3 entries, pages of 1, up to two of: a failing write, a crash, a failed call, the loss of any suffix of the WAL | no false alarm about the log, listings are what their tree head commits to, the watcher misses nothing, no rewritten history passes the consistency check |
| `merkle_proofs` | 8 leaves of 2 payloads for completeness; 4 entries, two rebuilds, one other write, one failure (of an append or a rebuild), one crash for the tree store; 5 leaves and all proofs of up to 3 known hashes for soundness | root, proofs, verifiers; what a rebuild stores and when it panics |
| `proofs` | 1 handler, the STH task, 3 entries, one failing write, one crash | proofs against stored heads are given and verify while numbers have no gap |
| `watch_streams` | 2 handlers, 5 entries, ring and page of 2, channel of 1, two connections, fairness | completeness of the replay, no gap and delivery unless overtaken |
| `rotation` | 2 rotations at a time, 1 signer, 3 keys, one crash, one failing write | apart from spoiled versions: chain, file and signer agree; untorn heads verify; no head is below the activation size of its key |
| `torn_head` | 1 rotation, 1 signer, no fault | counterexample: a tree head with the old key and the new version |
| `reads` | 4 entries, 2 keys (one empty), pages of 2, one failing write, one restart | pages fit together, an ended listing is complete, GetLatest is newest and shows truncation, the index is newest |
| `append_stream` | rate 2, 3 ticks a second, 2 seconds, other clients' batches of 3; 5 entries, `batchSize` 3, one lost answer | windows bounded; calls in flight bounded by `batchSize`; results in input order, complete at the end |
| `graceful_exit` | 2 appenders, 1 watcher, 3 entries, one failing signature, fairness | the final head covers the log; the process ends |
| `proof_after_gap` | a failing append before a successful one | counterexample: the proof does not verify |

Why the bounds are enough for the interesting cases: three entries with batches of two
give a batch before, across and after a signature, a failure and a crash; eight leaves
have every shape of tree up to a full one of three levels and all its incomplete
predecessors; a ring, a page and a channel smaller than the log force lag, several
pages and back-pressure; three keys give two rotations, which may
overlap in every way, and a failed write of the key file leaves room for a third that finds
what they left; three entries and pages of one give a listing of several pages, a gap before
an entry the watcher shows, and a head of two that loses one of its entries and grows past it
with another. `MaxFaults` bounds the faults of all kinds in an audited history: any two of
them in any order. Of the consistency proofs up to 5 leaves only that from 3 to 5 has four
hashes, more than the candidates; for it `ConsistencySound` also takes the server's proof with
any two hashes replaced. `batchSize` 3 against a rate of 2 makes a full batch be refused in part.

Fairness. LogServer: a handler that holds `append_mu` goes on (it does not wait for
anything), the interval of the STH task fires again and again, a supervisor restarts
the process. Failures are bounded, so a retry succeeds. Watch: tasks run, the client
reads. Shutdown: calls in flight are answered, `select!` picks branches at random and
so does not pass over a ready notification for ever (strong fairness of
`Wake("final")`); nothing makes a Watch client leave.

## Proofs

A component's theorems are in the module named after it with `_proofs`. They hold for all
constants that satisfy the named assumptions of the component (`ConstantsAssumption` and
its like, which TLC evaluates on every run): any number of handlers, signers, clients,
entries and faults, any capacity, page size or rate. Where a theorem needs more, it says
so in its own `ASSUME`. Except for types, none of the properties is inductive; below each
list is what had to be added and why.

`LogServer_proofs`:

- `TypeCorrect`: `Spec => []TypeOK`;
- `HeadsCommitToPrefixes`: `Spec => []HeadsArePrefixes`;
- `TreeMatches`: `Spec => []TreeMatchesLog`;
- `LogIsAppendOnly`: `Spec => AppendOnly`.

A head is written from a snapshot, so the snapshots must be prefixes of the log
(`SnapInv`). A snapshot is the tree, so the tree must be known even while the lock is held
(`TreeInv`: the log's leaves, less the batch of a handler that has committed and not yet
extended). That a signer sees no such state needs the lock to say which handler is where
(`LockInv`), and a stopped process has no holder and no snapshots (`DownInv`). A power
loss restores an earlier database, so every state of the WAL must satisfy the claim as
well (`WalInv`). `IInv` is their conjunction; each action preserves it, one step per
action. The lemmas on sequences (`LeavesConcat`, `PrefixConcat`, `CommitsGrow`) carry the
argument.

`LogServerRecords_proofs`, on top of `IInv`:

- `SequenceNumbersIncrease`: `Spec => []SeqsIncrease`;
- `SequenceNumbersAreIndexes`: `Spec => []SeqIsLeafIndex`;
- `AcknowledgedIsStored`: `Spec => []AckedIsStored`;
- `ForcedHeads`: `Spec => ForcedHeadCovers`;
- `ServerImplementsLog`: `MaxLosses = 0` implies `Spec => IsTransparencyLog`.

The numbers a handler holds lie between the log and `next_seq` and only one handler holds
any (`SeqInv`, `GapInv`); what is about to be acknowledged is in the log (`AckInv`). When
`force_sth` is about to answer there is a stored head at least as large as its snapshot, its
own or the one that made it skip (`ForceInv`), and with `IInv` the larger of two heads extends
the smaller. The refinement goes action by action: `Commit` maps to the
abstract append, `Reply` to the receipts, `StoreHead` to the publication, `GetSth` to the
client taking a commitment, all others to stuttering. Its only assumption is that no power
loss happens, because the abstract log promises to forget nothing.

`RateLimiter_proofs` and `AppendStream_proofs`:

- `RateIsBounded`: `Spec => []WindowIsBounded`, and `StreamIsRateLimited`, the same for the
  bucket with `appendStream` among its clients;
- `BackPressure`: `SSpec => []InFlightBounded`;
- `YieldsOnceInOrder`: `SSpec => []YieldsInOrder`.

What has been granted and what is still in the bucket together stay within the bound
(`BudgetInv`), which the bound alone does not say. In the stream, what was yielded, is
awaited, was sent by the timer and is being collected are one after the other the numbers
up to the last entry taken and those not yielded yet stay within a batch
(`Ordered`), at most one batch waits behind the awaited one (`QueueInv`), and an
answered call has its entry in the log once (`StoredInv`).

`Watch_proofs`:

- `ReplayDelivers`: `Spec => []ReplayIsComplete`;
- `StreamHasNoGap`: `Spec => []NoGap`;
- `ReconnectIsSafe`: `Spec => []ReconnectMissesNothing`.

The invariant speaks of everything the stream has produced on this connection, received,
in the channel and in the page (`Out`): it has no hole below the replay's cursor
(`ReplayInv`), and what the ring and the handlers still hold continues it (`OrderInv`, as
long as no broadcast overtook another). `HandlerInv` says that the handlers' pending
numbers are disjoint runs.

`KeyRotation_proofs`, for any number of rotations that overlap, fail and are cut short:

- `HeadsVerify`: `Spec => []UntornHeadVerifies`;
- `ActivationBounds`: `Spec => []ActivationBoundsHeads`;
- `SignerAndChainAgree`: `Spec => []SignerMatchesChain`.

Two rotations may take one version, or the later one may finish first and the earlier one
set the signer and the file back. The argument is that all versions this can reach are
spoiled: between the version of a rotation and the records and signer versions above it, or
between the signer's version and a rotation further on, there is no version left that is not
(`SpanInv`). So a version that is not spoiled is above all others when its rotation begins,
and belongs to one rotation (`UnspoiltIsNew`). For such versions the key file is known at
each step (`FileInv`), the key in use is in the chain or about to be recorded by the one
rotation that made it (`CurrentInv`), and a signer between its reads has either what belongs
together or noted a swap (`SignInv`, `HeadInv`). `RunInv` has what the handlers' locals and
the records say of sizes and keys. `KInv` is the conjunction.

`LogReads_proofs`:

- `PagesJoin`: `Spec => []PagesHaveNoHoles`;
- `ListingCompletes`: `Spec => []EndedListingIsComplete`;
- `LatestAnswer`: `Spec => []LatestIsNewest`;
- `IndexIsRight`: `Spec => []IndexIsNewest`.

The invariant relates the pages received, the cursor and the log: every wanted record below
the cursor has been received (`ListOk`). It survives commits because new records have
numbers above all others (`LogInv`). What `Matching` collects is a statement about a
recursive function and is proved by induction: `UpTo` is induction over `0..N`, derived
from the existence of a least counterexample (`WFMin` for the order of the naturals), which
unlike the library's induction theorems has no operator as a parameter.

`Shutdown_proofs`:

- `FinalHead`: `Spec => []FinalHeadCoversLog`.

The notification follows the drain, so no append runs after it (`DrainInv`), and the
snapshot of a final cycle is the whole log (`FinalInv`).

Only model-checked:

- liveness (`EventuallySigned`, `EventuallyDelivered`, `ShutdownCompletes`), which is out of
  the prover's reach;
- the properties of MerkleTree, ProofService and Audit: Merkle and MerkleTree define their
  algorithms with recursive operators, which the prover does not take, and the other two
  modules call them.

## Where the code and its documentation part

Four disagreements are findings in `PROJECT.json`. Two have a run that ends in a
counterexample:

- `proof_after_gap`: after a failed append, sequence numbers are no longer leaf indices and
  inclusion proofs do not verify;
- `torn_head`: `docs/deployment.md:421` says that "In-flight and historical STHs continue to
  verify against their respective key versions", but a rotation between `sign` and
  `key_version` (`sth_task.rs:62-71`) gives a head that no version of the chain verifies.

Two show in what a passing property says:

- `PagesHaveNoHoles` has the entries of a key oldest first, as `entries_by_key` iterates
  (`log_store.rs:138`), its test expects and `docs/settled.md:283` says;
  `proto/settled.v1.proto:206` says "newest-to-oldest within the log";
- `RebuildRestores` has the case that a rebuild panics and leaves no nodes: a gap in the
  sequence numbers below a subtree whose last entry is stored makes the lookup at
  `tree_store.rs:87` or `:88` fail after the nodes were deleted, while
  `docs/storage-schema.md:64` says that the column family "Can be rebuilt entirely from the
  `log` CF".

The conditions in other properties are there because the statement without them fails in
the model:

- `NoGap` needs `~overtaken`: entries are broadcast after `append_mu` is released
  (`service.rs:100`), so two handlers may broadcast in the opposite order of their
  numbers, and the live phase drops every entry not above `last_sent` (`service.rs:306`),
  while `docs/settled.md:325` promises to "continue live with no gap".
- `AcceptedGrowthIsGrowth` leaves out tree heads of equal size: the demo then prints
  "nothing to prove (tree unchanged)" without comparing the roots
  (`demos/rust/src/main.rs:202`), and after a power loss they may differ.
- `ListingIsCommitted` is about the tree head of the listing, which need not cover the
  entries the session has just appended: `wait_for_sth(c, 1)` takes any tree head
  (`demos/rust/src/main.rs:252`).
- `WatcherMissesNothing` excepts entries whose call failed: `seq += 1` follows a failed
  `get` as well (`demos/rust/src/main.rs:369`).
- `NoFalseAlarm` needs numbers without a gap, for the reason of the finding, and no power
  loss. It is about proofs: the signature check that comes first
  (`demos/rust/src/main.rs:147`, `settled-check/src/main.rs:64`) prints FAIL on a head whose
  signature and public key a rotation tore apart.
- `YieldsInOrder` says nothing of what a failed stream stored: one refused append rejects
  the batch and the results of its other entries are lost (`client.ts:412`). In the model
  a batch sent by the timer can be rejected while the generator waits for its input and
  nobody awaits it, and the timer, not cleared by the error, sends another batch after
  it. Results of a batch sent by the timer are not yielded before the next entry
  arrives, so an input that waits for them waits for ever. The order in which the server
  stores the entries of a batch is not the input order. The comment at `client.ts:395`
  speaks of `batchSize` batches in flight; there are never more than two.
- `SeqIsLeafIndex` needs `failures = 0`: `fetch_add` is not undone when the write fails
  (`log_store.rs:59`), while `docs/storage-schema.md:34` says there are no gaps.
- `AckedIsStored` excepts power loss: no write is synced (`log_store.rs:88`), while
  `docs/settled.md:165` calls the acknowledged entry durable.
- Nothing is said of the timestamps of tree heads. `verify_tree_head_sequential`
  (`sdks/rust/src/verifier.rs:174`) wants them to increase, but they come from a wall clock,
  and the check at `sth_task.rs:48` and the write at `:74` are not atomic, so the task and
  `force_sth` may both sign a size, and a smaller tree may be stamped after a larger one:
  honest heads need not pass.
- `ForcedHeadCovers` is about a head that may be older than the call: `force_sth` returns the
  latest one also when the tree is up to date, where its comment (`admin.rs:133-134`) has 204.
- `InclusionAnswerVerifies` speaks of heads stored before the call: for a size the log
  has not reached, `inclusion_proof` may read too few leaves and then find the head.
- `ReconnectMissesNothing` excepts a last number of 0, since `from_seq` 0 means no replay.
- `UntornHeadVerifies` excepts torn heads and, for the chain, heads with a spoiled version.
  Two concurrent rotations take the same version (`admin.rs:78`), and the later record
  replaces the earlier one in a chain `docs/deployment.md:395` calls append-only; file, signer
  and record are changed one after the other, so the last to change each may be a different
  rotation. After a rotation cut by a crash or a failing `keys.put` the key in use is not in
  the chain.
- `SignerMatchesChain` excepts a spoiled newest version, and a key file torn by a later
  rotation, with which the server does not start again.
- `ActivationBoundsHeads` excepts the same versions and a signer whose snapshot is older
  than the swap: the size it signs may be below `activated_at_tree_size`.
- `LatestIsNewest` is one-sided about truncation: `total_available` is `next_seq` and
  counts reserved and failed numbers (`service.rs:222`).
- A batch of more than `Rate` entries never passes the rate limiter, which `main.rs:36`
  describes as a limit in requests/second.
- `ShutdownCompletes` supposes that Watch clients leave: the drain waits for them.

## Not modelled

Byte layouts, Ed25519 and the schema version: test vectors cover them, and there is
nothing to explore. Read errors of the database; the API key; metrics, listing keys and
statistics, which are single reads; the wrappers of single calls in the other SDKs;
`watchEntries` of the TypeScript client, whose server side is module Watch; other demos,
fuzz targets and tools, which generate inputs. The console's entry window
(`useEntries.ts`, `useLiveTail.ts`, `routes/events.ts`) is presentation state over the
listing calls of LogReads and the stream of Watch; its hazards are in `PROJECT.json`.

## Plan

The algorithms of Merkle as recursive functions, so that the induction of LogReads_proofs
applies to them: completeness and soundness of the consistency proofs for trees of any
size, and from them `ConsistencyAnswerVerifies` of ProofService and
`AcceptedGrowthIsGrowth` of Audit.
