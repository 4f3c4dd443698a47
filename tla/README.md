# Formal models of the rollkit block lifecycle core

TLA+ models of the rollkit full node in `src/`: how it tracks and submits blocks to a
Data Availability (DA) layer, how the node shell runs its loops, and how blocks come
back from the DA, and how it serves its genesis in chunks. TLC checks the models on
small instances. TLAPS proves, for every instance, the main safety invariants of the
submission path and the monotonicity of its persisted height under the node's single
submission loop, that the submission path implements an abstract specification of
what it promises, the node shell's channel bounds and the in-order publishing of
headers and blocks and the back-pressure of their channels, the follower's type
invariant, and the chunking of the genesis for a single caller.

## 1. Inventory of the system

| Component | Source | State | Operations | Interacts with |
|---|---|---|---|---|
| PendingBlocks tracker | `src/block/pending_blocks.go` | `lastSubmittedHeight` (an `atomic.Uint64`), mirrored under metadata key `"last submitted"` | `getPendingBlocks`, `loadFromStore`, `isEmpty`, `removeSubmittedBlocks`, `NewPendingBlocks` | Reads the store (`Height`, `GetBlock`, `GetMetadata`). Writes `SetMetadata`. Called by the manager's submission loop. |
| NewDA adapter | `src/da/newda/newda.go` | none (a DA handle and a logger) | `SubmitBlocks` (serialise, one `DA.Submit`, decode the DA height), `RetrieveBlocks` (`GetIDs`, `Get`, unmarshal), `Init/Start/Stop` (no-ops) | The external DA (go-da). Returns result envelopes to the manager. |
| Block manager | not under `src/` (spec §4.3) | store height, DA cursor, channels `HeaderCh`/`BlockCh` | aggregation loop, `BlockSubmissionLoop`, `RetrieveLoop`, `BlockStoreRetrieveLoop`, `SyncLoop` | Store, PendingBlocks, DA client, executor. Publishes on bounded channels to the node shell. |
| Store | not under `src/` (spec §3) | blocks and commits by height, `Height()`, metadata | `SaveBlock`, `GetBlock`, `Height`, `Get/SetMetadata` | Shared by all the manager's loops and by PendingBlocks. |
| Node shell | `src/node/full.go` | services (proxy app, event bus, DA client, P2P, header/block sync, indexer), a cancel context | `newFullNode` (construct; each `init*` may fail), `OnStart`, `OnStop`, `headerPublishLoop`, `blockPublishLoop`, `newTxValidator` | Starts the manager's goroutines. Drains `HeaderCh`/`BlockCh` into the sync services. |
| Chunked genesis | `src/node/full.go` (244-270, 348-355) | `n.genChunks`, a cache filled on first use | `GetGenesisChunks`, `initGenesisChunks` | Called by RPC handlers; nothing serialises the calls. |
| Transactions and ISRs | `src/types/tx.go` | none | `Tx.Hash`, `Txs.Proof`, `Txs.ToTxsWithISRs` | Used when building fraud-proof data. |
| Block types | `src/types/block.go` | none | data only | Carried everywhere as the block abstraction. |
| Configuration | `src/config/*.go` | `NodeConfig` | flag and viper translation, defaults | Decides the aggregator role and the loop periods. |
| CLI intercept | `src/cmd/rollkit/commands/intercept.go` | none | `InterceptCommand`, `RunRollupEntrypoint` | Process and file I/O. |
| Mock DA server | `src/da/grpc/mockserv/cmd/main.go` | none | `main` | A test binary. |

**Interactions.** The manager's aggregation loop persists block `h+1` in the store. The
submission loop asks PendingBlocks for the blocks above `lastSubmittedHeight` and hands
them to the DA client. On success it calls `removeSubmittedBlocks`, which CASes the
in-memory height forward and then writes the metadata. The node shell starts the
loops as goroutines that share one context. The aggregation loop publishes headers
and blocks on bounded channels, and `headerPublishLoop`/`blockPublishLoop` drain them.
Followers read blobs back through `RetrieveBlocks` at a DA-height cursor.

**What is hard.** The code has several kinds of hard behaviour:
- Goroutines interleave on an atomic value and a store, and a load, a CAS and a
  metadata write are separate steps.
- A restart can come between any two steps. Memory is lost; the store, the metadata
  and the DA keep what was written.
- Store and DA calls fail. A read can fail part way and return a prefix with an error.
- A DA submit can land and still report an error (a timeout or a lost answer), so
  its retry duplicates the blobs.
- Bounded channels give back-pressure, and a consumer that exits stops the producer.
- Errors that are ignored turn a failure into an empty success.

**What makes each component correct.**
- PendingBlocks:
  - at-least-once: no height is acknowledged, in memory or on disk, before it is on the DA;
  - blocks reach the DA in order without gaps;
  - the persisted height never decreases;
  - every stored block is eventually submitted;
  - the panic at `pending_blocks.go:66` is unreachable.
- NewDA: a success means the blobs are on the DA, and an error or an empty DA height
  is never reported as a success. The retrieval cursor must never skip a DA height
  that has content.
- Node shell:
  - a failed construction or start leaves no service running;
  - `OnStop` stops what was started;
  - a published block is eventually drained, so the producer is never blocked forever.
- `ToTxsWithISRs` returns `len(txs)+2` entries whose PreIsr/PostIsr form a chain over
  the roots, with no tx at the ends and tx `i-1` at position `i`.

## 2. Plan

The most important behaviour comes first: getting blocks to the DA, which is what a
rollup's safety rests on.

1. **PendingBlocks** (done): the tracker, the store, NewDA submission, the manager's
   submission step and aggregation, restarts and failed calls. Runs: safety with two
   goroutines, the single-loop liveness and monotonicity run, and the metadata race.
   Proofs: type correctness, AckLanded, InOrder, MetaMonotone for the single loop.
2. **NodeShell** (done): `newFullNode`, `OnStart`, `OnStop` as a service life cycle
   with failing `init*`/`Start` calls, plus the publish loops on bounded channels fed
   by the aggregation loop. Runs: the publish pipeline with cancellation and write
   errors, a publish error that stalls publishing, and a failed or stopped node
   that leaves services running. Proofs: type correctness, in-order stores and bounded lag.
3. **NodeRetrieval** (done): `NewDA.RetrieveBlocks` with failing `GetIDs`/`Get`,
   undecodable blobs, and the spec's retrieval cursor and apply loop (spec
   §4.3.3-4.3.4). The DA is written by a submitter that obeys PendingBlocks' proved
   `InOrder`. Three runs show where `RetrieveBlocks` departs from spec §4.2.
4. **SubmissionAbstract** (done): the abstract promise of the submission path, over
   the store height, the DA chain and the persisted metadata. PendingBlocks
   implements it through `INSTANCE … WITH`. TLC checks the refinement as a
   PROPERTY, and TLAPS proves the safety part.
5. **GenesisChunks** (done): `GetGenesisChunks`/`initGenesisChunks` with concurrent
   callers. TLAPS proves the chunking correct for one caller, and TLC finds the race
   for two.
6. **TxsISRs**: `ToTxsWithISRs` as a function, checked against a reference definition
   of the intended result over bounded inputs. It has no caller in this repository,
   so it comes after the rest.
7. **DAClient** (spec-modelled; `da/da.go` is not under `src/` but `da_test.go` tests
   it): the MaxBlobSize query, the oversized check, greedy order-preserving packing
   and partial `SubmittedCount`, composed with the submission loop's "loop again if
   `submittedCount < len`".

Every safety invariant and action property that a passing run checks now has a
theorem. The liveness properties stay with TLC (section 4 says why).

## 3. Modules and how they map to the code

### PendingBlocks.tla (with MC_PendingBlocks.tla)

**Abstraction.** A block is its height. The store holds blocks `1..height`. A DA blob
set is a record `[lo, hi]`: the range of heights that one `DA.Submit` carried.
`daChain[d]` is the blob set at DA height `d`.

**State.**

| Variable | Code |
|---|---|
| `height` | `store.Height()` |
| `lsh` | `pb.lastSubmittedHeight` |
| `meta` | metadata `"last submitted"`, or the model value `NoMeta` when absent |
| `daChain` | the blobs on the DA |
| `pc[s]`, `ls[s]`, `hi[s]`, `cas[s]` | the program counter and locals of submission goroutine `s`: `lastSubmitted` of `getPendingBlocks`, the last height of its batch, and the `lsh` that `removeSubmittedBlocks` loaded |
| `crashes`, `faults` | bounded counters of restarts and failed calls |

**Actions.** Each atomic operation of the code is one action.

| Action | Code |
|---|---|
| `GetPendingLoad` | the load at line 52 and the zero test at line 53 |
| `LoadFromStore` / `LoadFromStoreFail` | lines 102-117 and the reload at line 58 / a failing `GetMetadata` |
| `GetPendingRead` | lines 60-79: the equal-height return, the panic and the full read |
| `GetPendingReadFail` | a `GetBlock` error that returns the prefix read so far |
| `SubmitOK` / `SubmitFail` / `SubmitLost` | `NewDA.SubmitBlocks`: success, error, and "landed, but the answer was lost" |
| `RemoveLoad`, `RemoveCAS` | lines 91-95 of `removeSubmittedBlocks` |
| `SetMetadata` / `SetMetadataFail` | line 96 |
| `Produce` | the aggregation loop's store write |
| `Crash` | a restart into `NewPendingBlocks`; store, metadata and DA survive |

**What is modelled from the spec.** The manager is not under `src/`. Its submission
step is modelled from spec §4.3.2:
- on success, call `removeSubmittedBlocks` with the batch;
- on an error, or when there are no pending blocks, wait for the next tick.

NewDA does not split batches, so the whole batch is acknowledged.

**Properties.**
- `TypeOK`.
- `AckLanded`: `lsh` and `meta` are each zero/absent or a landed height. A landed
  height is in the store, so this also makes the panic unreachable.
- `InOrder`: every blob set starts at 1 or right after a height an earlier blob set
  carries.
- `MetaMonotone`, an action property: the persisted height never decreases.
- `EventuallySubmitted`, liveness: `height ≥ k ~> (lsh ≥ k ∧ Landed(k))`.
- `ImplementsAbstractSafe`: the model implements SubmissionAbstract's `SafeSpec`
  (see below).

**Runs.**

| Run | Instance | Result |
|---|---|---|
| `submission_safety` | 2 goroutines, 3 blocks, 1 restart, 2 failed calls (≈4.1M states; symmetry over goroutines) | `TypeOK`, `AckLanded`, `InOrder` and `ImplementsAbstractSafe` hold (about 2.5 minutes). |
| `submission_single_loop` | the node's real single submission loop | `MetaMonotone` and `EventuallySubmitted` hold. |
| `submission_meta_race` | 2 goroutines | `MetaMonotone` fails. Two `removeSubmittedBlocks` calls CAS 0→1 and 1→2 and then write the metadata in the opposite order, so the stored height drops from 2 to 1. The spec promises a non-decreasing persisted value and safety for concurrent callers. The node today runs one submission loop, so this is latent. |

**Bounds.** Three blocks allow a read to fail part way (a prefix of two), a restart
after a partial acknowledgement, and a batch that is resubmitted. Two failed calls
allow a lost answer followed by a failed metadata write. One restart covers every
crash point, because the restart resets all memory at once. Two goroutines are
enough for every pairwise interleaving of load, CAS and write.

**Fairness.** `WF` on each goroutine's non-failing steps. The submission loop runs
every `DABlockTime` for as long as the node's context lives (`full.go:333`), so a
goroutine that can take a step eventually does. Block production, failures and
restarts are not fair. Failures and restarts are bounded, so eventually the calls
succeed. This is the spec's assumption that transient DA errors are retried on the
next tick.

**Mutants.** Each property is broken by a plausible slip in the mapped code:
- `TypeOK`: an off-by-one in the failing `GetBlock` index.
- `AckLanded`: ignoring `StatusError`.
- `InOrder`: dropping the first blob of a batch.
- `MetaMonotone`: `loadFromStore` not installing the stored value.
- `EventuallySubmitted`: a read loop that stops one short.
- `ImplementsAbstractSafe`: dropping the first blob of a batch (a landing that does
  not continue the prefix).

### SubmissionAbstract.tla

What the submission path promises, seen from outside (spec §4.1, §4.3.2), over
`height`, `daChain` and `meta` alone. Goroutines, `lsh`, failed calls and
restarts are hidden. It has three steps:
- `Produce`: the store grows by one block.
- `Land(b)`: a blob set of stored blocks `b.lo..b.hi` lands at the next DA height.
  It starts at 1 or right after a height already on the DA, so resubmissions
  repeat heights but never leave a gap.
- `Persist`: the metadata records some stored height that is on the DA. It may go
  lower than before: this is at-least-once, and the persisted height is not
  monotone under concurrent callers (see `submission_meta_race`).

`Spec` adds `WF(LandNew)`: while a stored block is not on the DA, a landing that
carries a new block eventually happens.

**Refinement mapping.** The mapping is the identity on the three shared variables.
So `PendingBlocks` implements the abstraction when each of its steps is one of the
following:
- `Produce` is `Produce`;
- `SubmitOK` and `SubmitLost` are `Land` of the goroutine's batch;
- `SetMetadata` is `Persist` of `hi[s]`;
- every other step (loads, CAS, failures, restarts) is a stutter.

`ImplementsAbstractSafe` is checked with two goroutines and proved for every
instance (theorem `Refinement`). The abstract `Spec` adds `WF(LandNew)`. No run
checks it against `PendingBlocks`. With one loop, it follows from
`EventuallySubmitted` (every stored block lands) and `InOrder`, so a separate check
would say nothing new.

### NodeShell.tla

**Abstraction.** A service is a name, running or not; what it does inside is left
out. A header or block is its height. The two channels are sequences of at most
`ChanCap` heights.

**State.**

| Variable | Code |
|---|---|
| `phase` | where the node is: before `newFullNode`, constructed or failed, started or failed, stopped |
| `running` | the services started or opened and not yet stopped (`proxyApp`, `eventBus`, `kv`, `indexer` by `newFullNode`; `p2p`, `hSync`, `bSync`, `dalc` by `OnStart`) |
| `ctx` | `n.ctx`: live or cancelled |
| `loops` | the goroutines `OnStart` spawned that have not returned |
| `aggPc`, `produced` | the aggregation loop's position and its last block |
| `headerCh`, `blockCh` | `blockManager.HeaderCh` and `BlockCh` |
| `hStore`, `bStore` | what the publish loops wrote to the header and block stores |
| `writeErrors` | bounded count of failed `WriteTo...StoreAndBroadcast` calls |

**Actions.**

| Action | Code |
|---|---|
| `NewFullNode` / `NewFullNodeFail` | `newFullNode` (lines 87-173): success, or the early return of its k-th failing call, leaving the services already started running |
| `OnStart` / `OnStartFail` | lines 311-343: four `Start` calls, then the goroutines (the four aggregator ones only if `Aggregator`); or the return at the k-th failing `Start` |
| `Cancel` | `Cancel` (lines 306-308), and `SyncLoop` calling the `n.cancel` it is handed (line 339) |
| `OnStop` | lines 358-366: cancel, stop `dalc`, `p2p`, `hSync`, `bSync` |
| `HeaderPublish` / `HeaderPublishFail` / `HeaderPublishExit` | the three outcomes of `headerPublishLoop`'s select (lines 273-287) |
| `BlockPublish` / `BlockPublishFail` / `BlockPublishExit` | the same for `blockPublishLoop` (lines 289-303) |
| `AggProduce`, `AggSendHeader`, `AggSendBlock` | spec §4.3.1: produce, then send the header and the block, each send waiting while its channel is full |
| `LoopExit(l)` | the other loops returning once the context is cancelled (spec §5) |

`OnStop` runs only from `started`. The node embeds cometbft's `BaseService`. That
service calls `OnStop` only for a started node, and it counts a node whose `OnStart`
failed as not started.

**Properties.**
- `TypeOK`: every variable has its type and neither channel holds more than `ChanCap`
  items. The channel bound is the capacity of a Go channel, so no run checks it.
  The proofs use it (see section 4).
- `BoundedLag` (back-pressure, `full.go:276`): while a publish loop runs, the
  aggregation loop is at most `ChanCap + 1` blocks ahead of that loop's store. That
  is `ChanCap` in the channel plus the block it holds before sending. A slow store
  write holds production back. The bound is tight: TLC finds `ChanCap` alone
  violated.
- `StoresInOrder`: each store holds the heights 1, 2, ... in order, with no gap. A
  failed write drops the item it received, so the loop must stop before it stores
  anything later.
- `LoopsExitAfterCancel` (liveness): once the context is cancelled, every goroutine
  returns, whatever case of its select it is in. For the two publish loops this is
  checked against their code. For the other loops, it is the spec's promise that
  `LoopExit` models.
- `PublishedUnlessWriteFails` (liveness): while no store write has failed, every
  produced block eventually reaches both stores, unless the node is cancelled.
  So the bounded-channel pipeline never stalls by itself.
- `EventuallyPublished` (liveness): the same without the write-error escape. This is
  what the spec asks, since it says errors are retried or fatal.
- `ReleasedWhenDone`: a node that is done holds no running service. A node is done
  when `newFullNode` or `OnStart` failed, or after `OnStop`.

**Runs.**

| Run | Instance | Result |
|---|---|---|
| `shell_publish` | aggregator, one-slot channels, 3 blocks, 2 write errors | `StoresInOrder`, `BoundedLag`, `LoopsExitAfterCancel` and `PublishedUnlessWriteFails` hold. Cancellation ends both publish loops, whatever case of their select they are in (`full.go:283`, `299`). The other loops exit through `LoopExit`, which is modelled from spec §5 ("all loops terminate on cancellation") because the manager is not under `src/`. So "the aggregation loop returns even while blocked on a full channel" is an assumption taken from the spec, not a checked fact about code. |
| `shell_publish_stall` | 1 write error | `EventuallyPublished` fails. The failing loop drops the block it received and returns. Nothing cancels the node, so that block is never published, and the next send on its channel blocks the aggregation loop. |
| `shell_leak` | follower, 1 block | `ReleasedWhenDone` fails. `newFullNode` returns at its first failing `init*` call without stopping what the earlier calls started, for example the proxy app connections. `OnStart` does the same at a failing `Start`. `OnStop` never closes the store and never stops `proxyApp`, `eventBus` or the indexer. |

**Bounds.** With one-slot channels, the aggregation loop is blocked whenever a
consumer lags by one block. Three blocks let both channels be full while a third
block is produced.

**Fairness.** `WF` on the channel sends and receives and on every loop's exit. These
are goroutines that the Go scheduler runs. Each select case is taken once it stays
ready. Production, failures, cancellation and stop are not fair: they happen or not.

**Deadlock.** Not checked. The node really stops once it has failed or every loop
has returned. The model's block bound also ends production.

**Mutants.**
- `BoundedLag`: the aggregation loop handing each header send to a goroutine of its
  own (`go func() { HeaderCh <- h }()`), so that it never waits.
- `StoresInOrder`: `headerPublishLoop` going on after a failed write, so the next
  header is stored with a gap before it.
- `LoopsExitAfterCancel`: `headerPublishLoop` without its `ctx.Done()` case.
- `PublishedUnlessWriteFails`: `blockPublishLoop` returning after every write rather
  than only on an error.

### NodeRetrieval.tla

**Abstraction.** A blob is a record:
- one of our blocks, identified by its height;
- foreign `junk`, which `proto.Unmarshal` rejects;
- foreign `bad`, which unmarshals but which `FromProto` rejects.

`daChain[d]` is the sequence of blobs at DA height `d`. Our batches are added the way
`SubmitBlocks` lands them: one blob per block, in height order. A batch starts at 1
or right after a landed height. This is PendingBlocks' `InOrder`, proved there, so
resubmissions repeat heights.

**State.**

| Variable | Code |
|---|---|
| `daChain` | the namespace on the DA |
| `retrieveLoop` | whether `OnStart` has spawned the retrieval loop (`full.go:337`) |
| `cursor` | the manager's `daHeight` |
| `status`, `lastResult` | the code and the `Blocks` of the last `RetrieveBlocks` result, with `Nil` for a nil slot |
| `height`, `pending` | the follower's store height and the retrieved blocks above it |
| `faults` | bounded count of failing `GetIDs`/`Get` calls |

**Actions.**

| Action | Code |
|---|---|
| `RetrieveOK` | `RetrieveBlocks` (lines 68-105), when no blob fails `FromProto`: a nil slot for every blob that fails to unmarshal (lines 83-86); `StatusSuccess`. The manager then keeps the blocks above its store height and advances the cursor (spec §4.3.3). |
| `RetrieveError` | a `FromProto` failure (lines 88-95): `StatusError`, and the cursor stays |
| `RetrieveFault` | a failing `GetIDs` or `Get` (lines 69-77). The errors are dropped, so the result is `StatusSuccess` with no blocks and the cursor advances. |
| `Apply` | spec §4.3.4: apply exactly store height + 1 |
| `PostBatch`, `PostForeign` | our submitter, and other writers to the namespace |

A DA height above the chain yields no IDs. Whether `GetIDs` returns nothing or an
error, `RetrieveBlocks` turns that into `StatusSuccess` with no blocks.

**Properties.**
- `TypeOK`, including that `pending` holds only blocks above the store height. This
  means duplicates are dropped.
- `CursorNeverSkipsContent` (spec §4.3.5): every block of ours at a DA height below
  the cursor is applied or pending. It is only a violation property
  (`retrieval_cursor_skip`). A DA that is complete before the follower starts, with
  no failing call, removes both of the code's ways to break it. What is left follows
  from the manager's `Accept`, which is modelled from the spec. A passing run of it
  would say nothing about `RetrieveBlocks`.
- `EventuallyApplied`: every landed block is eventually applied.
- `SuccessCarriesBlocks` (spec §4.2): a success result has no nil entry.

**Runs.**

| Run | Instance | Result |
|---|---|---|
| `retrieval_complete` | 3 heights, 3 DA heights; the DA is complete when the follower starts; junk blobs; no failures | `EventuallyApplied` holds |
| `retrieval_growing` | the DA grows during retrieval; junk and bad blobs; 1 failure | `TypeOK` holds |
| `retrieval_cursor_skip` | the DA grows; 1 failure | `CursorNeverSkipsContent` fails. Say the cursor reads a DA height before anything is posted there, or its `GetIDs`/`Get` fails. Either way `RetrieveBlocks` answers `StatusSuccess` with no blocks, and the cursor moves on. The spec expects `StatusNotFound` or `StatusError`, neither of which the cursor passes. |
| `retrieval_bad_blob` | a complete DA; one `bad` blob | `EventuallyApplied` fails: the cursor is stuck on that DA height for ever |
| `retrieval_junk_nil` | a complete DA; one `junk` blob | `SuccessCarriesBlocks` fails: a nil entry in a success result |

**Bounds.** Three rollup heights and three DA heights are enough for the cases that
matter:
- a batch, a resubmission that repeats heights, and a foreign blob;
- the foreign blob in front of a batch at the same DA height.

**Fairness.** `WF` on `Start`, `RetrieveOK` and `Apply`. The retrieval loop ticks
every `DABlockTime` and the sync loop applies whenever it can. Failures, errors and
posting are not fair.

**Mutants.**
- `TypeOK`: the manager not dropping duplicates.
- `EventuallyApplied`: retrieving the DA height after the one asked for.

### GenesisChunks.tla

**Abstraction.** A chunk is the byte range `[lo, hi)` of the genesis JSON that it
encodes. Base64 is injective, so two chunks are equal exactly when their ranges are.
`DataLen` is `len(json.Marshal(n.genesis))`. `Genesis` says whether there is no
genesis, a document, or one that `json.Marshal` rejects.

**State.**
- `genChunks`: `n.genChunks`.
- Per caller `c`: `pc[c]`, the loop index `i[c]`, the slice `local[c]` that its
  `append` loaded, the returned `result[c]` (chunks and error), and `calls[c]`.

**Actions.**
- `Call`.
- `InitSkip`: the two early returns, lines 247-253.
- `MarshalFail` / `MarshalOK`: lines 255-258.
- `LoadChunks` and `StoreChunk`: line 267, with the clamp of lines 261-265.
- `LoopEnd`.
- `Return`: line 354.

The unlocked `append` is split into a load and a store. That is one of the outcomes
the data race between two appends can have: a lost chunk, or a repeated one.

**Property.** `ChunksTileGenesis`: a result returned without an error cuts
`[0, DataLen)` in order into chunks of `genesisChunkSize` bytes. Only the last chunk
may be shorter.

**Run.** `genesis_race`: two callers on a fresh node, 3 bytes, 2-byte chunks, one call
each. `ChunksTileGenesis` fails. The first caller appends `[0,2)`. The second sees a
non-nil cache, skips the initialisation, and returns just `[0,2)`. With a single
caller the property holds for every size: theorem `SingleCallerChunksTile`. So the
race is the only way to break it. No caller under `src/` serialises
`GetGenesisChunks`.

## 4. What is proved

### PendingBlocksProofs.tla

The proofs hold for every `MaxHeight`, every non-empty set of submission goroutines,
and any number of restarts and faults. The assumptions are `MaxHeightAssumption`,
`BoundsAssumption` and `NoMetaAssumption`.

- `TypeCorrect`: `Spec => []TypeOK`. `TypeOK` is inductive (lemma `TypeStep`).
- `AckLandedInvariant` and `InOrderInvariant`: `Spec => []AckLanded` and
  `Spec => []InOrder`.

Neither invariant is inductive alone. A goroutine between its store read and its
CAS holds a `lastSubmitted` and a batch end that later steps install, submit or
persist. The inductive invariant `IInv` therefore adds `LocalsLanded(s)`:
- while reading or submitting, `ls[s]` is zero or landed;
- while submitting, `ls[s] < hi[s]`;
- after its submit, `hi[s]` is landed.

The argument rests on these lemmas:
- `ChainGrows`: a step either leaves the DA chain alone or appends the pending batch
  of a goroutine that is submitting.
- `LandedStays`: landed heights stay landed (from `AppendKeepsLanded`).
- `AppendLandsLast` and `AppendKeepsOrder`: appending a non-empty batch that starts
  right after a landed height keeps the chain in order and lands its last height.

`IInv` was first checked by TLC as an invariant of the two-goroutine instance.

`Refinement`: `Spec => ImplementsAbstractSafe`, meaning PendingBlocks implements
`SubmissionAbstract!SafeSpec` under the identity mapping. The initial states map to
the abstract initial state. Lemma `RefineStep` shows that every step is an abstract
step or a stutter, with one case per action:
- `SubmitOK` and `SubmitLost` are `Land` of `[ls+1, hi]`. Lemma `SubmitIsLand` uses
  `LocalsLanded` for "starts right after a landed height", and `OnDAIsLanded` to
  relate the two modules' notions of landed.
- `SetMetadata` is `Persist`. That needs the persisted `hi[s]` to be a stored height.
  The inductive invariant `RInv` therefore adds `HiStored(s)` to `IInv`: from its
  submit to its metadata write, a goroutine's `hi[s]` lies in `1..height`.
  Lemmas `HiStep` and `RInvInvariant` show it is kept.
- Every other action leaves `height`, `daChain` and `meta` unchanged.

`MetaMonotoneSingle`: under `SingleSubmitter` (one submission goroutine, the loop
the node runs), `Spec => MetaMonotone`. This is an action property: a step that
finds a persisted height leaves one at least as high. It is proved from the
inductive invariant `MInv`, because `SetMetadata` writes `hi[s]`, and nothing in
`IInv` relates that to the stored value. `MInv` adds the following:
- `MetaPositive`: a persisted height is never 0. It is a batch end above a CAS
  value.
- `MetaBelowLsh`: a non-zero `lsh` is at least the persisted height.
- `MetaLocal(s)`:
  - from the read to the write, `lsh` is at least the persisted height;
    `loadFromStore` installs the stored value before the read, which is what makes
    the zero `lsh` after a restart safe;
  - at the CAS, `hi[s] > lsh`;
  - after a won CAS, `hi[s] = lsh ≥ 1`.

Lemma `MInvStep` keeps `MInv` with one case per action. The single-submitter
hypothesis is needed where another goroutine could move `lsh` between this
goroutine's CAS and its write. TLC checked `MInv` first with one goroutine and two
restarts. With two goroutines TLC finds it violated, and `submission_meta_race` is
the counterexample to `MetaMonotone` itself.

Out of the prover's reach and left to TLC: the liveness properties
`EventuallySubmitted` (fairness and `ENABLED`), and the violation runs.

### NodeRetrievalProofs.tla

`TypeCorrect`: `Spec => []TypeOK` for every `MaxHeight`, `MaxDA`, `MaxFaults`,
foreign blob kinds and growth mode, from `RetrievalAssumption`. `TypeOK` carries the
one non-trivial fact: the pending set lies strictly above the store height. So a
block that a resubmission or a second DA height repeats is never kept twice, and
`Apply` only ever sees store height + 1. `TypeOK` is inductive as it stands
(lemma `TypeStep`, one case per action). The argument rests on these lemmas:
- `BlobsAtType`: what `GetIDs`/`Get` return at any DA height is a sequence of blobs;
- `BlocksInHeights`: the blocks in it are rollup heights;
- `DecodedType`: the Blocks slice holds heights and nils;
- `BatchIsSeq` and `ChainAppend`: appending a batch keeps the chain a sequence of
  blob sequences, one longer.

`EventuallyApplied`, and the three violation runs, stay with TLC.

### GenesisChunksProofs.tla

`SingleCallerChunksTile`: under `Hyps`, `Spec => []ChunksTileGenesis`, for every
chunk size, JSON length, genesis kind and number of calls. `Hyps` requires:
- at most one caller;
- `ChunkSize` is in `Nat \ {0}`;
- `DataLen` and `MaxCalls` are in `Nat`.

The property is not inductive alone, because the loop's partial cache says nothing
about the final result. The inductive invariant `IInv` adds two things:
- the cache stays nil unless there is a marshallable genesis;
- `CallerInv`, which ties the caller's place in the code to the cache.

`CallerInv` says:
- inside the loop, the cache is `Cut`: each chunk is `ChunkAt` of its start, starts
  before `len(data)`, and follows the previous one by `ChunkSize`. Also `i` is
  `NextLo` of the cache.
- between its load and store, the loaded slice is the cache;
- at the return, and whenever the caller is outside the loop with a non-nil cache,
  the cache tiles the JSON.

`Cut` avoids multiplication, so every obligation stays linear. The argument rests
on two lemmas:
- `CutAppend`: the loop body keeps `Cut` and advances `NextLo` by `ChunkSize`;
- `CutTiles`: once `NextLo` reaches `len(data)`, a `Cut` cache tiles it.

TLC checked `IInv` first, with one caller, for `DataLen` in 0..7 and `ChunkSize` in
1..3. The theorem needs the single-caller hypothesis: `genesis_race` is the
counterexample for two callers.

### NodeShellProofs.tla

The proofs hold for every `ChanCap` in `Nat \ {0}`, every `MaxBlocks` and every
`MaxWriteErrors` in `Nat` (`ShellBoundsAssumption`), and for both roles.

`TypeCorrect`: `Spec => []TypeOK`. The other proofs rest on it. It needs one
strengthening, `TInv`: outside
`produce`, the aggregation loop has produced a block (`produced >= 1`). Without it,
the height it sends would not be a block height. Lemma `TypeStep` has one case per
action. Lemmas `ChanSend` and `ChanRecv` give the length and range of a bounded
channel after a send and after a receive.

`StoresInOrderInvariant`: `Spec => []StoresInOrder`. The invariant is not inductive:
whether the next stored item is the next height depends on what is in the channel
and what the aggregation loop will send. The inductive invariant `SInv` adds the
following:
- `PreStart`: before `OnStart`, no loop runs and every channel and store is empty.
- `Flow(st, ch, sent, on)`, one for each store: the store is in order. While its
  publish loop runs, the store followed by the channel is exactly `1..sent`, where
  `sent` is how many items the aggregation loop has sent on that channel
  (`SentH`, `SentB`, read from `aggPc` and `produced`).

A send appends `sent + 1` (lemma `FlowSend`), and a receive moves the channel's head
to the store (lemma `FlowRecv`). A failed write takes the loop out of `loops`, which
leaves only "the store is in order" (`FlowStopped`). Exits only shrink `loops`
(`FlowOff`). Lemmas `PreStartStep`, `FlowHStep` and `FlowBStep` give one case per
action, and `SInvStep` combines them. TLC checked `SInv` first as an invariant for
both roles, channel capacities 1 and 2, and 0 or 2 write errors.

`BoundedLagInvariant`: `Spec => []BoundedLag`, from the same `SInv` (lemma
`SInvLag`). While a publish loop runs, its store followed by its channel is
everything the aggregation loop has sent. The aggregation loop has sent all it
produced but the block it holds, and the channel holds at most `ChanCap`. `InitSInv`
is shared by both theorems.

Left to TLC: `LoopsExitAfterCancel`, `PublishedUnlessWriteFails` and
`EventuallyPublished` are liveness properties under fairness. `ReleasedWhenDone`
is false (`shell_leak`), so there is nothing to prove.

## 5. What is not modelled

- Hashing, signatures and Merkle proofs (`Tx.Hash`, `Txs.Proof`).
- Serialisation: blocks are always serialisable, so `MarshalBinary` never fails.
- The P2P network, the mempool and `newTxValidator`'s CheckTx callback.
- Config parsing and the CLI intercept (process and file I/O).
- Logging: `removeSubmittedBlocks` logs an error even when `SetMetadata` succeeds,
  which changes no state.
- The internals of the services the node starts: proxy app, event bus, p2p client,
  sync services and indexer. Each is a name that is running or not.
- `GetGenesis` and the other getters: they only read node state.
- Configuration (`src/config`): flag and viper translation with no concurrency and
  no state beyond the struct it fills. A model would restate the parsing and could
  check nothing that a unit test does not.
- CLI intercept: it reads a file and execs a process; it is pure I/O.
- `Txs.ToTxsWithISRs` (`src/types/tx.go`): a pure function with no caller in this
  repository. It is planned as a checked function (plan item 6).
