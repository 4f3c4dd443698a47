---------------------------- MODULE NodeRetrieval ----------------------------
(***************************************************************************)
(* A follower reading the rollup's blocks back from the DA layer:           *)
(* NewDA.RetrieveBlocks (da/newda/newda.go) under the block manager's       *)
(* retrieval and apply loops.  The manager is not under src/ and is         *)
(* modelled from spec 4.3.3-4.3.4: a DA-height cursor that advances on      *)
(* StatusSuccess and stays on StatusError, a pending set of blocks above    *)
(* the store height, and an apply step for exactly store height + 1.        *)
(*                                                                         *)
(* The DA namespace is written by the rollup's submitter, whose batches     *)
(* obey the order PendingBlocks proves (InOrder: a batch starts at 1 or     *)
(* right after a height already landed, so resubmissions repeat heights),   *)
(* and by foreign writers whose blobs do not decode ("junk") or decode as   *)
(* a protobuf block that FromProto rejects ("bad").                         *)
(***************************************************************************)
EXTENDS Naturals, Sequences

CONSTANTS
    MaxHeight,    \* rollup heights 1..MaxHeight
    MaxDA,        \* DA heights 1..MaxDA
    MaxFaults,    \* bound on failing GetIDs/Get calls
    Foreign,      \* the kinds of foreign blob that may appear: \subseteq {"junk", "bad"}
    Growing       \* whether the DA keeps growing after the follower started

ASSUME RetrievalAssumption ==
    /\ MaxHeight \in Nat \ {0}
    /\ MaxDA \in Nat \ {0}
    /\ MaxFaults \in Nat
    /\ Foreign \subseteq {"junk", "bad"}
    /\ Growing \in BOOLEAN

VARIABLES
    daChain,    \* daChain[d]: the blobs at DA height d, in ID order
    retrieveLoop, \* the RetrieveLoop goroutine: "idle" before OnStart spawns it, then "running"
    cursor,     \* the retrieval loop's daHeight
    status,     \* Code of the last RetrieveBlocks result
    height,     \* store.Height() of the follower
    pending,    \* retrieved blocks above the store height, waiting for apply
    lastResult, \* the Blocks of the last StatusSuccess result
    faults      \* failed DA calls so far

vars == <<daChain, retrieveLoop, cursor, status, height, pending, lastResult, faults>>

Heights == 1..MaxHeight
(* A blob as proto.Unmarshal and FromProto see it: one of our blocks, a    *)
(* foreign blob that does not unmarshal ("junk"), or one that unmarshals   *)
(* into a pb.Block FromProto rejects ("bad").                              *)
Blob(kind, h) == [kind |-> kind, h |-> h]
Blobs == {Blob("block", h) : h \in Heights} \cup {Blob(f, 0) : f \in {"junk", "bad"}}
IsBlock(b) == b.kind = "block"

(* The nil left in the Blocks slice, as a height no block has.             *)
Nil == 0

Landed(h) == \E d \in 1..Len(daChain) : \E i \in 1..Len(daChain[d]) : daChain[d][i] = Blob("block", h)

(* The blobs GetIDs/Get return for DA height d: nothing above the chain.   *)
BlobsAt(d) == IF d <= Len(daChain) THEN daChain[d] ELSE <<>>

(* The Blocks slice RetrieveBlocks builds: a blob that fails to unmarshal  *)
(* leaves its slot nil.                                                     *)
Decoded(bs) == [i \in 1..Len(bs) |-> IF IsBlock(bs[i]) THEN bs[i].h ELSE Nil]

NoBad(bs) == \A i \in 1..Len(bs) : bs[i].kind # "bad"

BlocksIn(bs) == {bs[i].h : i \in {j \in 1..Len(bs) : IsBlock(bs[j])}}

-----------------------------------------------------------------------------
(* Variants of the code below, each a plausible slip in it.                *)

(* The manager keeping retrieved blocks at or below the store height.     *)
AcceptNoFilter(bs) ==
    /\ pending' = pending \cup BlocksIn(bs)
    /\ cursor' = cursor + 1

(* The manager's handling of a success: keep the blocks above the store    *)
(* height, drop the rest as duplicates, move to the next DA height.        *)
Accept(bs) ==
    /\ pending' = pending \cup {h \in BlocksIn(bs) : h > height}
    /\ cursor' = cursor + 1

(* RetrieveBlocks reading the DA height after the one it was asked for.    *)
RetrieveOKNext ==
    /\ retrieveLoop = "running" /\ cursor <= MaxDA
    /\ NoBad(BlobsAt(cursor + 1))
    /\ Accept(BlobsAt(cursor + 1))
    /\ status' = "success"
    /\ lastResult' = Decoded(BlobsAt(cursor + 1))
    /\ UNCHANGED <<daChain, retrieveLoop, height, faults>>

-----------------------------------------------------------------------------
Init ==
    /\ daChain = <<>>
    /\ retrieveLoop = "idle"
    /\ cursor = 1
    /\ status = "none"
    /\ height = 0
    /\ pending = {}
    /\ lastResult = <<>>
    /\ faults = 0

(* The DA may still grow: always when Growing, else only until the         *)
(* follower starts.                                                         *)
DAOpen == Len(daChain) < MaxDA /\ (Growing \/ retrieveLoop = "idle")

(* Where the submitter's next batch may start: at 1, or right after a      *)
(* landed height (PendingBlocks' InOrder).                                 *)
BatchStarts == ({1} \cup {h + 1 : h \in {g \in Heights : Landed(g)}}) \cap Heights

(* The submitter lands a batch lo..hi at the next DA height, one blob per  *)
(* block in height order (NewDA.SubmitBlocks), starting at 1 or right      *)
(* after a landed height.                                                   *)
PostBatch ==
    /\ DAOpen
    /\ \E lo \in BatchStarts :
       \E hi \in lo..MaxHeight :
           daChain' = Append(daChain, [i \in 1..(hi - lo + 1) |-> Blob("block", lo + i - 1)])
    /\ UNCHANGED <<retrieveLoop, cursor, status, height, pending, lastResult, faults>>

(* A foreign writer puts a blob into the namespace at the next DA height,  *)
(* alone or in front of a batch of ours.                                   *)
PostForeign ==
    /\ DAOpen
    /\ \E f \in Foreign :
         \/ daChain' = Append(daChain, <<Blob(f, 0)>>)
         \/ \E lo \in BatchStarts :
              daChain' = Append(daChain, <<Blob(f, 0), Blob("block", lo)>>)
    /\ UNCHANGED <<retrieveLoop, cursor, status, height, pending, lastResult, faults>>

(* The node starts its retrieval loop at DAStartHeight 1.                  *)
Start ==
    /\ retrieveLoop = "idle"
    /\ retrieveLoop' = "running"
    /\ UNCHANGED <<daChain, cursor, status, height, pending, lastResult, faults>>

(* RetrieveBlocks(cursor) with GetIDs and Get answering: StatusSuccess,     *)
(* nil where a blob did not unmarshal; the manager takes the blocks.        *)
RetrieveOK ==
    /\ retrieveLoop = "running" /\ cursor <= MaxDA
    /\ NoBad(BlobsAt(cursor))
    /\ Accept(BlobsAt(cursor))
    /\ status' = "success"
    /\ lastResult' = Decoded(BlobsAt(cursor))
    /\ UNCHANGED <<daChain, retrieveLoop, height, faults>>

(* A blob FromProto rejects: StatusError; the cursor stays for the next    *)
(* tick.                                                                    *)
RetrieveError ==
    /\ retrieveLoop = "running" /\ cursor <= MaxDA
    /\ ~NoBad(BlobsAt(cursor))
    /\ status' = "error"
    /\ UNCHANGED <<daChain, retrieveLoop, cursor, height, pending, lastResult, faults>>

(* GetIDs or Get fails: the error is dropped, no blob is read, and the     *)
(* result is StatusSuccess with no blocks, so the cursor moves on.          *)
RetrieveFault ==
    /\ retrieveLoop = "running" /\ cursor <= MaxDA
    /\ faults < MaxFaults
    /\ faults' = faults + 1
    /\ Accept(<<>>)
    /\ status' = "success"
    /\ lastResult' = <<>>
    /\ UNCHANGED <<daChain, retrieveLoop, height>>

(* The apply loop executes and stores the block at store height + 1.       *)
Apply ==
    /\ height + 1 \in pending
    /\ height' = height + 1
    /\ pending' = pending \ {height + 1}
    /\ UNCHANGED <<daChain, retrieveLoop, cursor, status, lastResult, faults>>

Next ==
    \/ PostBatch \/ PostForeign \/ Start
    \/ RetrieveOK \/ RetrieveError \/ RetrieveFault
    \/ Apply

(* The retrieval loop ticks every DABlockTime while the node runs and the  *)
(* apply loop runs whenever a block is ready.                              *)
Fairness == WF_vars(Start) /\ WF_vars(RetrieveOK) /\ WF_vars(Apply)

Spec == Init /\ [][Next]_vars /\ Fairness

-----------------------------------------------------------------------------
(* Every variable has its type; the pending set holds only blocks above    *)
(* the store height.                                                        *)
TypeOK ==
    /\ daChain \in Seq(Seq(Blobs)) /\ Len(daChain) <= MaxDA
    /\ retrieveLoop \in {"idle", "running"}
    /\ cursor \in 1..(MaxDA + 1)
    /\ status \in {"none", "success", "error"}
    /\ height \in 0..MaxHeight
    /\ pending \subseteq (height + 1)..MaxHeight
    /\ lastResult \in Seq(Heights \cup {Nil})
    /\ faults \in 0..MaxFaults

(* The retrieval cursor never passes a DA height with content (spec        *)
(* 4.3.5): every block of our rollup at a DA height below the cursor is     *)
(* applied or waiting in the pending set.                                   *)
CursorNeverSkipsContent ==
    \A d \in 1..(cursor - 1) :
        \A h \in BlocksIn(BlobsAt(d)) : h <= height \/ h \in pending

(* Every block of ours that lands on the DA is eventually applied by the   *)
(* follower, through duplicates, resubmissions and foreign blobs.          *)
EventuallyApplied == \A h \in Heights : Landed(h) ~> height >= h

(* A StatusSuccess result carries blocks only (spec 4.2: a blob that does  *)
(* not deserialize is skipped).                                             *)
SuccessCarriesBlocks ==
    status = "success" => \A i \in 1..Len(lastResult) : lastResult[i] # Nil

=============================================================================
