---------------------------- MODULE PendingBlocks ----------------------------
(***************************************************************************)
(* The DA submission path of a rollkit node: the PendingBlocks tracker     *)
(* (block/pending_blocks.go), the store it reads, the NewDA adapter        *)
(* (da/newda/newda.go) that submits a batch to the DA layer, and the       *)
(* block manager's submission step that glues them together.               *)
(*                                                                         *)
(* Blocks are abstracted to their heights: the store holds blocks 1..height *)
(* and a DA blob set is the contiguous range of heights it carries.  Each  *)
(* submission goroutine is a program counter and the locals of             *)
(* getPendingBlocks / removeSubmittedBlocks, so that every atomic load,    *)
(* CAS and store call is a step of its own.  Crashes wipe memory and keep  *)
(* the store, the metadata and the DA.                                     *)
(***************************************************************************)
EXTENDS Naturals, Sequences

CONSTANTS
  MaxHeight,    \* bound on store.Height(): blocks the aggregator persists
  Submitters,   \* goroutines that run the DA submission step
  MaxCrashes,   \* bound on process restarts
  MaxFaults,    \* bound on failed store and DA calls
  NoMeta        \* model value: key "last submitted" absent from metadata

ASSUME MaxHeightAssumption == MaxHeight \in Nat
ASSUME BoundsAssumption == MaxCrashes \in Nat /\ MaxFaults \in Nat
ASSUME SubmittersAssumption == Submitters # {}
ASSUME NoMetaAssumption == NoMeta \notin Nat

VARIABLES
  height,   \* store.Height(): blocks 1..height are persisted
  lsh,      \* pb.lastSubmittedHeight, the in-memory atomic.Uint64
  meta,     \* value persisted under LastSubmittedHeightKey, or NoMeta
  daChain,  \* daChain[d]: the heights [lo, hi] of the blobs at DA height d
  pc,       \* pc[s]: where submission goroutine s is
  ls,       \* ls[s]: local lastSubmitted of getPendingBlocks
  hi,       \* hi[s]: height of the last block of the pending batch
  cas,      \* cas[s]: lsh as loaded by removeSubmittedBlocks (line 92)
  crashes,  \* restarts so far
  faults    \* failed store / DA calls so far

locals == <<pc, ls, hi, cas>>
vars == <<height, lsh, meta, daChain, locals, crashes, faults>>

PCs == {"idle", "loadMeta", "read", "submit", "rsbLoad", "rsbCAS",
        "setMeta", "panic"}

Batch == [lo : Nat, hi : Nat]

(* Height n is carried by some blob set of the DA chain ch. *)
LandedIn(ch, n) == \E d \in 1..Len(ch) : ch[d].lo <= n /\ n <= ch[d].hi

(* Height n is carried by some blob set on the DA. *)
Landed(n) == LandedIn(daChain, n)

(* Height n is carried by a blob set at a DA height below d. *)
LandedBefore(d, n) == \E e \in 1..(d - 1) : daChain[e].lo <= n /\ n <= daChain[e].hi

(* The batch goroutine s is about to submit: blocks ls[s]+1 .. hi[s]. *)
PendingBatch(s) == [lo |-> ls[s] + 1, hi |-> hi[s]]

(* One more failed store or DA call. *)
Fault == faults < MaxFaults /\ faults' = faults + 1

Goto(s, to) == pc' = [pc EXCEPT ![s] = to]

-----------------------------------------------------------------------------
(***************************************************************************)
(* Faulty variants of the steps below, each the kind of slip a change to  *)
(* this code could make.  The specification never uses them; each one,   *)
(* put in place of its step, makes one of the properties fail.            *)
(***************************************************************************)

(* The failing GetBlock index is taken one too low. *)
GetPendingReadFailFrom(s) ==
  /\ pc[s] = "read"
  /\ ls[s] < height
  /\ Fault
  /\ \E i \in ls[s]..height :
       /\ hi' = [hi EXCEPT ![s] = i - 1]
       /\ Goto(s, IF i - 1 = ls[s] THEN "idle" ELSE "submit")
  /\ UNCHANGED <<height, lsh, meta, daChain, ls, cas, crashes>>

(* StatusError is ignored and the batch is marked submitted anyway. *)
SubmitFailAcked(s) ==
  /\ pc[s] = "submit"
  /\ Fault
  /\ Goto(s, "rsbLoad")
  /\ UNCHANGED <<height, lsh, meta, daChain, ls, hi, cas, crashes>>

(* The blob of the first block of the batch is left out of DA.Submit. *)
SubmitOKDropFirst(s) ==
  /\ pc[s] = "submit"
  /\ daChain' = Append(daChain, [lo |-> ls[s] + 2, hi |-> hi[s]])
  /\ Goto(s, "rsbLoad")
  /\ UNCHANGED <<height, lsh, meta, ls, hi, cas, crashes, faults>>

(* The stored height is read but never installed. *)
LoadFromStoreIgnored(s) ==
  /\ pc[s] = "loadMeta"
  /\ ls' = [ls EXCEPT ![s] = lsh]
  /\ Goto(s, "read")
  /\ UNCHANGED <<height, lsh, meta, daChain, hi, cas, crashes, faults>>

(* The read loop stops before store.Height() (i < height). *)
GetPendingReadShort(s) ==
  /\ pc[s] = "read"
  /\ hi' = [hi EXCEPT ![s] = height - 1]
  /\ Goto(s, IF ls[s] >= height - 1 THEN "idle" ELSE "submit")
  /\ UNCHANGED <<height, lsh, meta, daChain, ls, cas, crashes, faults>>

-----------------------------------------------------------------------------
Init ==
  /\ height = 0
  /\ lsh = 0
  /\ meta = NoMeta
  /\ daChain = << >>
  /\ pc = [s \in Submitters |-> "idle"]
  /\ ls = [s \in Submitters |-> 0]
  /\ hi = [s \in Submitters |-> 0]
  /\ cas = [s \in Submitters |-> 0]
  /\ crashes = 0
  /\ faults = 0

(* The aggregator persists block height+1 (block and commit together). *)
Produce ==
  /\ height < MaxHeight
  /\ height' = height + 1
  /\ UNCHANGED <<lsh, meta, daChain, locals, crashes, faults>>

(* getPendingBlocks: lastSubmitted := lastSubmittedHeight.Load(); zero    *)
(* means "not loaded yet" and sends the goroutine to loadFromStore.       *)
GetPendingLoad(s) ==
  /\ pc[s] = "idle"
  /\ ls' = [ls EXCEPT ![s] = lsh]
  /\ Goto(s, IF lsh = 0 THEN "loadMeta" ELSE "read")
  /\ UNCHANGED <<height, lsh, meta, daChain, hi, cas, crashes, faults>>

(* loadFromStore: a missing key leaves lastSubmittedHeight alone, a       *)
(* stored value is installed with CompareAndSwap(0, stored); then         *)
(* getPendingBlocks reloads lastSubmittedHeight into its local.           *)
LoadFromStore(s) ==
  LET new == IF meta # NoMeta /\ lsh = 0 THEN meta ELSE lsh
  IN /\ pc[s] = "loadMeta"
     /\ lsh' = new
     /\ ls' = [ls EXCEPT ![s] = new]
     /\ Goto(s, "read")
     /\ UNCHANGED <<height, meta, daChain, hi, cas, crashes, faults>>

(* GetMetadata fails: getPendingBlocks returns the error and the          *)
(* submission step gives up until the next tick.                          *)
LoadFromStoreFail(s) ==
  /\ pc[s] = "loadMeta"
  /\ Fault
  /\ Goto(s, "idle")
  /\ UNCHANGED <<height, lsh, meta, daChain, ls, hi, cas, crashes>>

(* getPendingBlocks reads store.Height() and every block above            *)
(* lastSubmitted: nothing pending ends the step, lastSubmitted above the  *)
(* store height panics, otherwise the batch is handed to the DA client.   *)
GetPendingRead(s) ==
  /\ pc[s] = "read"
  /\ hi' = [hi EXCEPT ![s] = height]
  /\ Goto(s, IF ls[s] = height THEN "idle"
             ELSE IF ls[s] > height THEN "panic"
             ELSE "submit")
  /\ UNCHANGED <<height, lsh, meta, daChain, ls, cas, crashes, faults>>

(* store.GetBlock fails at height i: the blocks read so far are returned  *)
(* with the error and the manager submits them if there are any.          *)
GetPendingReadFail(s) ==
  /\ pc[s] = "read"
  /\ ls[s] < height
  /\ Fault
  /\ \E i \in (ls[s] + 1)..height :
       /\ hi' = [hi EXCEPT ![s] = i - 1]
       /\ Goto(s, IF i - 1 = ls[s] THEN "idle" ELSE "submit")
  /\ UNCHANGED <<height, lsh, meta, daChain, ls, cas, crashes>>

(* NewDA.SubmitBlocks: DA.Submit lands the whole batch atomically at the  *)
(* next DA height and reports success; the manager then calls             *)
(* removeSubmittedBlocks with the batch.                                  *)
SubmitOK(s) ==
  /\ pc[s] = "submit"
  /\ daChain' = Append(daChain, PendingBatch(s))
  /\ Goto(s, "rsbLoad")
  /\ UNCHANGED <<height, lsh, meta, ls, hi, cas, crashes, faults>>

(* DA.Submit returns an error and nothing lands: StatusError, the         *)
(* manager does not advance and retries on a later tick.                  *)
SubmitFail(s) ==
  /\ pc[s] = "submit"
  /\ Fault
  /\ Goto(s, "idle")
  /\ UNCHANGED <<height, lsh, meta, daChain, ls, hi, cas, crashes>>

(* The blobs land but the answer is lost (timeout, broken connection):   *)
(* the manager sees StatusError although the batch is on the DA.          *)
SubmitLost(s) ==
  /\ pc[s] = "submit"
  /\ Fault
  /\ daChain' = Append(daChain, PendingBatch(s))
  /\ Goto(s, "idle")
  /\ UNCHANGED <<height, lsh, meta, ls, hi, cas, crashes>>

(* removeSubmittedBlocks: lsh := lastSubmittedHeight.Load(); only a batch *)
(* ending above it goes on to the CAS.                                    *)
RemoveLoad(s) ==
  /\ pc[s] = "rsbLoad"
  /\ cas' = [cas EXCEPT ![s] = lsh]
  /\ Goto(s, IF hi[s] > lsh THEN "rsbCAS" ELSE "idle")
  /\ UNCHANGED <<height, lsh, meta, daChain, ls, hi, crashes, faults>>

(* CompareAndSwap(lsh, latestBlockHeight): a lost race drops the update. *)
RemoveCAS(s) ==
  /\ pc[s] = "rsbCAS"
  /\ lsh' = IF lsh = cas[s] THEN hi[s] ELSE lsh
  /\ Goto(s, IF lsh = cas[s] THEN "setMeta" ELSE "idle")
  /\ UNCHANGED <<height, meta, daChain, ls, hi, cas, crashes, faults>>

(* SetMetadata(LastSubmittedHeightKey, FormatUint(latestBlockHeight)).   *)
SetMetadata(s) ==
  /\ pc[s] = "setMeta"
  /\ meta' = hi[s]
  /\ Goto(s, "idle")
  /\ UNCHANGED <<height, lsh, daChain, ls, hi, cas, crashes, faults>>

(* SetMetadata fails: the error is logged and the in-memory advance      *)
(* stays; the write is not retried.                                       *)
SetMetadataFail(s) ==
  /\ pc[s] = "setMeta"
  /\ Fault
  /\ Goto(s, "idle")
  /\ UNCHANGED <<height, lsh, meta, daChain, ls, hi, cas, crashes>>

(* The process stops and restarts: NewPendingBlocks starts from a zero    *)
(* lastSubmittedHeight, every goroutine starts over, the store, its       *)
(* metadata and the DA keep what was written.                             *)
Crash ==
  /\ crashes < MaxCrashes
  /\ crashes' = crashes + 1
  /\ lsh' = 0
  /\ pc' = [s \in Submitters |-> "idle"]
  /\ ls' = [s \in Submitters |-> 0]
  /\ hi' = [s \in Submitters |-> 0]
  /\ cas' = [s \in Submitters |-> 0]
  /\ UNCHANGED <<height, meta, daChain, faults>>

(* The steps a submission goroutine takes when nothing fails. *)
Step(s) ==
  \/ GetPendingLoad(s)
  \/ LoadFromStore(s)
  \/ GetPendingRead(s)
  \/ SubmitOK(s)
  \/ RemoveLoad(s)
  \/ RemoveCAS(s)
  \/ SetMetadata(s)

(* The failures of the calls a submission goroutine makes. *)
Failure(s) ==
  \/ LoadFromStoreFail(s)
  \/ GetPendingReadFail(s)
  \/ SubmitFail(s)
  \/ SubmitLost(s)
  \/ SetMetadataFail(s)

Next ==
  \/ Produce
  \/ Crash
  \/ \E s \in Submitters : Step(s) \/ Failure(s)

(* The submission loop is a goroutine re-run every DABlockTime for as     *)
(* long as the node runs: each of its steps is weakly fair.  Producing    *)
(* blocks, failing and crashing are not.                                  *)
Fairness == \A s \in Submitters : WF_vars(Step(s))

Spec == Init /\ [][Next]_vars /\ Fairness

-----------------------------------------------------------------------------
(* Every variable holds a value of its kind. *)
TypeOK ==
  /\ height \in 0..MaxHeight
  /\ lsh \in Nat
  /\ meta \in Nat \cup {NoMeta}
  /\ daChain \in Seq(Batch)
  /\ pc \in [Submitters -> PCs]
  /\ ls \in [Submitters -> Nat]
  /\ hi \in [Submitters -> Nat]
  /\ cas \in [Submitters -> Nat]
  /\ crashes \in 0..MaxCrashes
  /\ faults \in 0..MaxFaults

(* At-least-once: neither lastSubmittedHeight in memory nor the value      *)
(* persisted by removeSubmittedBlocks names a block that is not on the DA,  *)
(* whatever fails, is lost or restarts in between.  As a landed block is   *)
(* in the store, this also keeps the panic of getPendingBlocks unreachable. *)
AckLanded ==
  /\ lsh = 0 \/ Landed(lsh)
  /\ meta = NoMeta \/ Landed(meta)

(* Blocks reach the DA in height order: every blob set starts at height 1  *)
(* or right after a height some earlier blob set carries, so no block is   *)
(* ever skipped by getPendingBlocks, across restarts and partial reads.    *)
InOrder ==
  \A d \in 1..Len(daChain) :
    daChain[d].lo = 1 \/ LandedBefore(d, daChain[d].lo - 1)

(* Once written, the persisted last-submitted height never decreases      *)
(* (removeSubmittedBlocks / loadFromStore across restarts).                *)
MetaMonotone ==
  [][meta # NoMeta => meta' # NoMeta /\ meta' >= meta]_meta

(* The submission path implements its contract (SubmissionAbstract): the  *)
(* DA and the metadata only ever see what the abstract specification       *)
(* allows, whatever the goroutines interleave, fail or restart.  The       *)
(* refinement mapping is the identity on the store height, the DA chain    *)
(* and the persisted height; everything else is hidden.                    *)
Abstract == INSTANCE SubmissionAbstract
              WITH height <- height, daChain <- daChain, meta <- meta

(* Safety: every DA landing continues the landed prefix with stored       *)
(* blocks and every persisted height is stored and landed.                *)
ImplementsAbstractSafe == Abstract!SafeSpec

(* Every block the store holds is eventually on the DA and acknowledged   *)
(* in lastSubmittedHeight, despite failed calls, lost answers and restarts. *)
EventuallySubmitted ==
  \A k \in 1..MaxHeight : height >= k ~> (lsh >= k /\ Landed(k))

=============================================================================
