------------------------------ MODULE NodeShell ------------------------------
(***************************************************************************)
(* The full node's shell (node/full.go): newFullNode builds and starts its *)
(* services one after the other and returns at the first error; OnStart    *)
(* starts the rest and spawns the loops; OnStop cancels the node context    *)
(* and stops what OnStart started.  In aggregator mode the block manager's  *)
(* aggregation loop emits every produced header and block on two bounded   *)
(* channels, drained by headerPublishLoop and blockPublishLoop, which       *)
(* return on the first write error or on cancellation.                      *)
(*                                                                         *)
(* The block manager's loops are not under src/: the aggregation loop is   *)
(* modelled from the spec (send the header, then the block, each a send on *)
(* a bounded channel that blocks while it is full), the other loops only   *)
(* by their exit on cancellation and SyncLoop's use of the cancel function.*)
(***************************************************************************)
EXTENDS Naturals, Sequences

CONSTANTS
    Aggregator,      \* nodeConfig.Aggregator
    ChanCap,         \* capacity of HeaderCh and BlockCh
    MaxBlocks,       \* bound on the blocks the aggregation loop produces
    MaxWriteErrors   \* bound on failing WriteTo...StoreAndBroadcast calls

AggregatorAssumption == Aggregator \in BOOLEAN
ASSUME AggregatorAssumption
ShellBoundsAssumption ==
    /\ ChanCap \in Nat \ {0}
    /\ MaxBlocks \in Nat
    /\ MaxWriteErrors \in Nat
ASSUME ShellBoundsAssumption

VARIABLES
    phase,        \* where the node is in its life cycle
    running,      \* services started (or opened) and not stopped
    ctx,          \* the node context n.ctx: "live" or "done"
    loops,        \* goroutines spawned by OnStart that have not returned
    aggPc,        \* the aggregation loop's position: produce, sendH, sendB
    produced,     \* height of the last block the aggregation loop produced
    headerCh,     \* blockManager.HeaderCh, heights of the queued headers
    blockCh,      \* blockManager.BlockCh, heights of the queued blocks
    hStore,       \* heights written to the header store, in order
    bStore,       \* heights written to the block store, in order
    writeErrors   \* write errors so far

vars == <<phase, running, ctx, loops, aggPc, produced, headerCh, blockCh,
          hStore, bStore, writeErrors>>

Phases == {"init", "constructed", "constructFailed", "started",
           "startFailed", "stopped"}

(* The calls of newFullNode that can fail, in the order the code makes     *)
(* them; the ones in Runs leave a running service behind when they return. *)
ConstructSteps == <<"proxyApp", "eventBus", "kv", "dalc", "p2p", "hSync",
                    "bSync", "blockManager", "indexer">>
Runs == {"proxyApp", "eventBus", "kv", "indexer"}

(* The Start calls of OnStart, in order; OnStop stops exactly these.       *)
StartSteps == <<"p2p", "hSync", "bSync", "dalc">>
Services == Runs \cup {StartSteps[i] : i \in 1..Len(StartSteps)}

AggregatorLoops == {"aggregation", "submission", "headerPublish", "blockPublish"}
CommonLoops == {"retrieve", "storeRetrieve", "sync"}
Loops == AggregatorLoops \cup CommonLoops

Prefix(seq, k) == {seq[i] : i \in 1..(k - 1)}

-----------------------------------------------------------------------------
(* Variants of the code below, each a plausible slip in it.                *)

(* blockPublishLoop with its return outside the error branch.              *)
BlockPublishReturnsAlways ==
    /\ "blockPublish" \in loops /\ blockCh # <<>>
    /\ bStore' = Append(bStore, Head(blockCh))
    /\ blockCh' = Tail(blockCh)
    /\ loops' = loops \ {"blockPublish"}
    /\ UNCHANGED <<phase, running, ctx, aggPc, produced, headerCh, hStore,
                   writeErrors>>

(* headerPublishLoop going on with the next header after a failed write.  *)
HeaderPublishFailContinues ==
    /\ "headerPublish" \in loops /\ headerCh # <<>>
    /\ writeErrors < MaxWriteErrors
    /\ writeErrors' = writeErrors + 1
    /\ headerCh' = Tail(headerCh)
    /\ UNCHANGED <<phase, running, ctx, loops, aggPc, produced, blockCh, hStore,
                   bStore>>

(* headerPublishLoop without the ctx.Done() case of its select.            *)
HeaderPublishExitMissing == FALSE

(* The aggregation loop handing each header send to a goroutine of its   *)
(* own (go func() { HeaderCh <- h }()) so that it never waits: headerCh    *)
(* then also holds the headers whose sending goroutines are parked.        *)
AggSendHeaderAsync ==
    /\ "aggregation" \in loops /\ aggPc = "sendH"
    /\ headerCh' = Append(headerCh, produced)
    /\ aggPc' = "sendB"
    /\ UNCHANGED <<phase, running, ctx, loops, produced, blockCh, hStore,
                   bStore, writeErrors>>

-----------------------------------------------------------------------------
Init ==
    /\ phase = "init"
    /\ running = {}
    /\ ctx = "live"
    /\ loops = {}
    /\ aggPc = "produce"
    /\ produced = 0
    /\ headerCh = <<>>
    /\ blockCh = <<>>
    /\ hStore = <<>>
    /\ bStore = <<>>
    /\ writeErrors = 0

(* newFullNode returning the node: every init call succeeded.              *)
NewFullNode ==
    /\ phase = "init"
    /\ running' = Runs
    /\ phase' = "constructed"
    /\ UNCHANGED <<ctx, loops, aggPc, produced, headerCh, blockCh, hStore,
                   bStore, writeErrors>>

(* newFullNode returning the error of its k-th call: what the earlier     *)
(* calls started stays running, nothing is stopped.                        *)
NewFullNodeFail ==
    /\ phase = "init"
    /\ \E k \in 1..Len(ConstructSteps) :
           running' = Prefix(ConstructSteps, k) \cap Runs
    /\ phase' = "constructFailed"
    /\ UNCHANGED <<ctx, loops, aggPc, produced, headerCh, blockCh, hStore,
                   bStore, writeErrors>>

(* OnStart: all four Start calls succeed, then the loops are spawned.      *)
OnStart ==
    /\ phase = "constructed"
    /\ running' = running \cup Services
    /\ loops' = CommonLoops \cup (IF Aggregator THEN AggregatorLoops ELSE {})
    /\ phase' = "started"
    /\ UNCHANGED <<ctx, aggPc, produced, headerCh, blockCh, hStore, bStore,
                   writeErrors>>

(* OnStart returning the error of its k-th Start call; BaseService then    *)
(* counts the node as not started, so OnStop is never called for it.      *)
OnStartFail ==
    /\ phase = "constructed"
    /\ \E k \in 1..Len(StartSteps) :
           running' = running \cup Prefix(StartSteps, k)
    /\ phase' = "startFailed"
    /\ UNCHANGED <<ctx, loops, aggPc, produced, headerCh, blockCh, hStore,
                   bStore, writeErrors>>

(* Cancel, or SyncLoop calling the cancel function it was handed.          *)
Cancel ==
    /\ phase \in {"constructed", "started", "startFailed"}
    /\ ctx = "live"
    /\ ctx' = "done"
    /\ UNCHANGED <<phase, running, loops, aggPc, produced, headerCh, blockCh,
                   hStore, bStore, writeErrors>>

(* OnStop: cancel the context, stop the services OnStart started.          *)
OnStop ==
    /\ phase = "started"
    /\ ctx' = "done"
    /\ running' = running \ {StartSteps[i] : i \in 1..Len(StartSteps)}
    /\ phase' = "stopped"
    /\ UNCHANGED <<loops, aggPc, produced, headerCh, blockCh, hStore, bStore,
                   writeErrors>>

(* The aggregation loop produces the next block (spec: on each tick).      *)
AggProduce ==
    /\ "aggregation" \in loops /\ ctx = "live" /\ aggPc = "produce"
    /\ produced < MaxBlocks
    /\ produced' = produced + 1
    /\ aggPc' = "sendH"
    /\ UNCHANGED <<phase, running, ctx, loops, headerCh, blockCh, hStore,
                   bStore, writeErrors>>

(* It emits the signed header on HeaderCh, waiting while HeaderCh is full. *)
AggSendHeader ==
    /\ "aggregation" \in loops /\ aggPc = "sendH"
    /\ Len(headerCh) < ChanCap
    /\ headerCh' = Append(headerCh, produced)
    /\ aggPc' = "sendB"
    /\ UNCHANGED <<phase, running, ctx, loops, produced, blockCh, hStore,
                   bStore, writeErrors>>

(* Then the block on BlockCh, again waiting while it is full.              *)
AggSendBlock ==
    /\ "aggregation" \in loops /\ aggPc = "sendB"
    /\ Len(blockCh) < ChanCap
    /\ blockCh' = Append(blockCh, produced)
    /\ aggPc' = "produce"
    /\ UNCHANGED <<phase, running, ctx, loops, produced, headerCh, hStore,
                   bStore, writeErrors>>

(* headerPublishLoop receives a header and writes it to the header store.  *)
HeaderPublish ==
    /\ "headerPublish" \in loops /\ headerCh # <<>>
    /\ hStore' = Append(hStore, Head(headerCh))
    /\ headerCh' = Tail(headerCh)
    /\ UNCHANGED <<phase, running, ctx, loops, aggPc, produced, blockCh,
                   bStore, writeErrors>>

(* The write fails: the error is logged and the loop returns; the header   *)
(* it received is gone.                                                    *)
HeaderPublishFail ==
    /\ "headerPublish" \in loops /\ headerCh # <<>>
    /\ writeErrors < MaxWriteErrors
    /\ writeErrors' = writeErrors + 1
    /\ headerCh' = Tail(headerCh)
    /\ loops' = loops \ {"headerPublish"}
    /\ UNCHANGED <<phase, running, ctx, aggPc, produced, blockCh, hStore,
                   bStore>>

(* The ctx.Done() case of its select.                                     *)
HeaderPublishExit ==
    /\ "headerPublish" \in loops /\ ctx = "done"
    /\ loops' = loops \ {"headerPublish"}
    /\ UNCHANGED <<phase, running, ctx, aggPc, produced, headerCh, blockCh,
                   hStore, bStore, writeErrors>>

(* blockPublishLoop: the same three cases over BlockCh and the block store.*)
BlockPublish ==
    /\ "blockPublish" \in loops /\ blockCh # <<>>
    /\ bStore' = Append(bStore, Head(blockCh))
    /\ blockCh' = Tail(blockCh)
    /\ UNCHANGED <<phase, running, ctx, loops, aggPc, produced, headerCh,
                   hStore, writeErrors>>

BlockPublishFail ==
    /\ "blockPublish" \in loops /\ blockCh # <<>>
    /\ writeErrors < MaxWriteErrors
    /\ writeErrors' = writeErrors + 1
    /\ blockCh' = Tail(blockCh)
    /\ loops' = loops \ {"blockPublish"}
    /\ UNCHANGED <<phase, running, ctx, aggPc, produced, headerCh, hStore,
                   bStore>>

BlockPublishExit ==
    /\ "blockPublish" \in loops /\ ctx = "done"
    /\ loops' = loops \ {"blockPublish"}
    /\ UNCHANGED <<phase, running, ctx, aggPc, produced, headerCh, blockCh,
                   hStore, bStore, writeErrors>>

(* Every other loop, the aggregation loop included, returns once the       *)
(* context is cancelled (spec: all loops terminate on cancellation).       *)
LoopExit(l) ==
    /\ l \in loops /\ ctx = "done"
    /\ loops' = loops \ {l}
    /\ UNCHANGED <<phase, running, ctx, aggPc, produced, headerCh, blockCh,
                   hStore, bStore, writeErrors>>

OtherLoops == Loops \ {"headerPublish", "blockPublish"}

(* The steps the scheduler keeps taking while they are enabled.            *)
Progress ==
    \/ AggSendHeader \/ AggSendBlock
    \/ HeaderPublish \/ BlockPublish
    \/ HeaderPublishExit \/ BlockPublishExit
    \/ \E l \in OtherLoops : LoopExit(l)

Next ==
    \/ NewFullNode \/ NewFullNodeFail
    \/ OnStart \/ OnStartFail
    \/ Cancel \/ OnStop
    \/ AggProduce
    \/ HeaderPublishFail \/ BlockPublishFail
    \/ Progress

Fairness ==
    /\ WF_vars(AggSendHeader) /\ WF_vars(AggSendBlock)
    /\ WF_vars(HeaderPublish) /\ WF_vars(BlockPublish)
    /\ WF_vars(HeaderPublishExit) /\ WF_vars(BlockPublishExit)
    /\ \A l \in OtherLoops : WF_vars(LoopExit(l))

Spec == Init /\ [][Next]_vars /\ Fairness

-----------------------------------------------------------------------------
(* Every variable has its type; the channels never hold more than their    *)
(* capacity.                                                               *)
TypeOK ==
    /\ phase \in Phases
    /\ running \subseteq Services
    /\ ctx \in {"live", "done"}
    /\ loops \subseteq Loops
    /\ aggPc \in {"produce", "sendH", "sendB"}
    /\ produced \in 0..MaxBlocks
    /\ headerCh \in Seq(1..MaxBlocks) /\ Len(headerCh) <= ChanCap
    /\ blockCh \in Seq(1..MaxBlocks) /\ Len(blockCh) <= ChanCap
    /\ hStore \in Seq(1..MaxBlocks) /\ bStore \in Seq(1..MaxBlocks)
    /\ writeErrors \in 0..MaxWriteErrors

(* Once the node context is cancelled (Cancel, OnStop, or SyncLoop's       *)
(* fatal path), every goroutine OnStart spawned eventually returns, the    *)
(* publish loops included, whichever case of their select they sit in.    *)
LoopsExitAfterCancel == ctx = "done" ~> loops = {}

(* While the node runs, every block the aggregation loop produces is       *)
(* eventually written to both the header store and the block store by the  *)
(* publish loops, through the bounded channels.                            *)
EventuallyPublished ==
    \A k \in 1..MaxBlocks :
        produced >= k ~> (\/ Len(hStore) >= k /\ Len(bStore) >= k
                          \/ ctx = "done")

(* While no store write fails, every block the aggregation loop produces   *)
(* is eventually written to both stores, unless the node is cancelled      *)
(* first: the pipeline of bounded channels never stalls on its own.        *)
PublishedUnlessWriteFails ==
    \A k \in 1..MaxBlocks :
        (produced >= k /\ writeErrors = 0)
            ~> (\/ Len(hStore) >= k /\ Len(bStore) >= k
                \/ ctx = "done"
                \/ writeErrors > 0)

(* Each store holds the heights 1, 2, ... in order: the publish loops     *)
(* write headers and blocks in the order the aggregation loop produced     *)
(* them, none twice and none skipped, even when a write fails (the loop    *)
(* then returns instead of going on past the one it dropped) or the node   *)
(* is cancelled.                                                           *)
StoresInOrder ==
    /\ \A j \in 1..Len(hStore) : hStore[j] = j
    /\ \A j \in 1..Len(bStore) : bStore[j] = j

(* Back-pressure (HeaderCh and BlockCh are bounded): while a publish loop  *)
(* runs, the aggregation loop is never more than ChanCap blocks, plus the  *)
(* one it holds before sending, ahead of what that loop has stored; a     *)
(* slow store write holds block production back instead of letting        *)
(* produced blocks pile up in memory.                                      *)
BoundedLag ==
    /\ "headerPublish" \in loops => produced - Len(hStore) <= ChanCap + 1
    /\ "blockPublish" \in loops => produced - Len(bStore) <= ChanCap + 1

(* A node that is done (newFullNode or OnStart returned an error, or       *)
(* OnStop ran) holds no running service: the proxy app connections, the    *)
(* event bus, the key-value store (spec 5: cancellation makes the Store    *)
(* flush), the indexer and the p2p and sync services are all stopped.      *)
ReleasedWhenDone ==
    phase \in {"constructFailed", "startFailed", "stopped"} => running = {}

=============================================================================
