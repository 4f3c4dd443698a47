------------------------- MODULE PendingBlocksProofs -------------------------
(***************************************************************************)
(* Proofs about the DA submission path of PendingBlocks, for every bound,  *)
(* every set of submission goroutines and every interleaving.             *)
(***************************************************************************)
EXTENDS PendingBlocks, SequenceTheorems, TLAPS

USE MaxHeightAssumption, BoundsAssumption, NoMetaAssumption

-----------------------------------------------------------------------------
(* Type correctness.                                                       *)

(* Every step keeps every variable of its kind. *)
LEMMA TypeStep == TypeOK /\ [Next]_vars => TypeOK'
<1> SUFFICES ASSUME TypeOK, [Next]_vars PROVE TypeOK'
  OBVIOUS
<1>1. CASE Produce
  BY <1>1 DEF Produce, TypeOK, locals
<1>2. CASE Crash
  BY <1>2 DEF Crash, TypeOK, PCs
<1>3. ASSUME NEW s \in Submitters, Step(s) PROVE TypeOK'
  <2>1. CASE GetPendingLoad(s)
    BY <2>1 DEF GetPendingLoad, Goto, TypeOK, PCs
  <2>2. CASE LoadFromStore(s)
    BY <2>2 DEF LoadFromStore, Goto, TypeOK, PCs
  <2>3. CASE GetPendingRead(s)
    BY <2>3 DEF GetPendingRead, Goto, TypeOK, PCs
  <2>4. CASE SubmitOK(s)
    BY <2>4 DEF SubmitOK, PendingBatch, Batch, Goto, TypeOK, PCs
  <2>5. CASE RemoveLoad(s)
    BY <2>5 DEF RemoveLoad, Goto, TypeOK, PCs
  <2>6. CASE RemoveCAS(s)
    BY <2>6 DEF RemoveCAS, Goto, TypeOK, PCs
  <2>7. CASE SetMetadata(s)
    BY <2>7 DEF SetMetadata, Goto, TypeOK, PCs
  <2>8. QED
    BY <1>3, <2>1, <2>2, <2>3, <2>4, <2>5, <2>6, <2>7 DEF Step
<1>4. ASSUME NEW s \in Submitters, Failure(s) PROVE TypeOK'
  <2>1. CASE LoadFromStoreFail(s)
    BY <2>1 DEF LoadFromStoreFail, Fault, Goto, TypeOK, PCs
  <2>2. CASE GetPendingReadFail(s)
    BY <2>2 DEF GetPendingReadFail, Fault, Goto, TypeOK, PCs
  <2>3. CASE SubmitFail(s)
    BY <2>3 DEF SubmitFail, Fault, Goto, TypeOK, PCs
  <2>4. CASE SubmitLost(s)
    BY <2>4 DEF SubmitLost, Fault, PendingBatch, Batch, Goto, TypeOK, PCs
  <2>5. CASE SetMetadataFail(s)
    BY <2>5 DEF SetMetadataFail, Fault, Goto, TypeOK, PCs
  <2>6. QED
    BY <1>4, <2>1, <2>2, <2>3, <2>4, <2>5 DEF Failure
<1>5. CASE UNCHANGED vars
  BY <1>5 DEF vars, locals, TypeOK
<1>6. QED
  BY <1>1, <1>2, <1>3, <1>4, <1>5 DEF Next

(* Every reachable state is well typed. *)
THEOREM TypeCorrect == Spec => []TypeOK
<1>1. Init => TypeOK
  BY DEF Init, TypeOK, PCs
<1>2. QED
  BY <1>1, TypeStep, PTL DEF Spec

-----------------------------------------------------------------------------
(* Acknowledgements never run ahead of the DA, and blocks reach it in     *)
(* order.  Neither AckLanded nor InOrder is inductive alone: a goroutine  *)
(* between its store read and its CAS holds a lastSubmitted and a batch   *)
(* end that the next steps install or submit, so the invariant also says  *)
(* that those locals are on the DA already (or will be, for the batch).   *)

(* n is zero or carried by the DA: what lastSubmitted may be. *)
LandedOrZero(n) == n = 0 \/ Landed(n)

(* What a submission goroutine holds in its locals, by program counter. *)
LocalsLanded(s) ==
  /\ pc[s] \in {"read", "submit"} => LandedOrZero(ls[s])
  /\ pc[s] = "submit" => ls[s] < hi[s]
  /\ pc[s] \in {"rsbLoad", "rsbCAS", "setMeta"} => Landed(hi[s])

IInv ==
  /\ TypeOK
  /\ AckLanded
  /\ InOrder
  /\ \A s \in Submitters : LocalsLanded(s)

(* Appending a blob set to the DA keeps every landed height landed. *)
LEMMA AppendKeepsLanded ==
  ASSUME NEW ch \in Seq(Batch), NEW b \in Batch, NEW n, LandedIn(ch, n)
  PROVE  LandedIn(Append(ch, b), n)
<1>1. PICK d \in 1..Len(ch) : ch[d].lo <= n /\ n <= ch[d].hi
  BY DEF LandedIn
<1>2. d \in 1..Len(Append(ch, b)) /\ Append(ch, b)[d] = ch[d]
  BY <1>1, AppendProperties
<1>3. QED
  BY <1>1, <1>2 DEF LandedIn

(* A non-empty blob set carries its own last height once appended. *)
LEMMA AppendLandsLast ==
  ASSUME NEW ch \in Seq(Batch), NEW b \in Batch, b.lo <= b.hi
  PROVE  LandedIn(Append(ch, b), b.hi)
<1>1. Len(ch) + 1 \in 1..Len(Append(ch, b)) /\ Append(ch, b)[Len(ch) + 1] = b
  BY AppendProperties
<1>2. QED
  BY <1>1 DEF LandedIn, Batch

(* Appending a blob set that starts at 1 or right after a landed height  *)
(* keeps the chain in order.                                             *)
LEMMA AppendKeepsOrder ==
  ASSUME NEW b \in Batch, TypeOK, InOrder,
         b.lo = 1 \/ Landed(b.lo - 1),
         daChain' = Append(daChain, b)
  PROVE  InOrder'
<1> DEFINE ch == daChain
<1>1. ch \in Seq(Batch)
  BY DEF TypeOK
<1>2. Len(daChain') = Len(ch) + 1 /\ \A e \in 1..Len(ch) : daChain'[e] = ch[e]
  BY <1>1, AppendProperties
<1>3. daChain'[Len(ch) + 1] = b
  BY <1>1, AppendProperties
<1> SUFFICES ASSUME NEW d \in 1..Len(daChain')
             PROVE  (daChain[d].lo = 1 \/ LandedBefore(d, daChain[d].lo - 1))'
  BY DEF InOrder
<1>4. CASE d \in 1..Len(ch)
  <2>1. daChain'[d] = ch[d]
    BY <1>2, <1>4
  <2>2. CASE ch[d].lo = 1
    BY <2>1, <2>2
  <2>3. CASE LandedBefore(d, ch[d].lo - 1)
    <3>1. PICK e \in 1..(d - 1) : ch[e].lo <= ch[d].lo - 1 /\ ch[d].lo - 1 <= ch[e].hi
      BY <2>3 DEF LandedBefore
    <3>2. daChain'[e] = ch[e]
      BY <1>2, <1>4
    <3>3. QED
      BY <2>1, <3>1, <3>2 DEF LandedBefore
  <2>4. QED
    BY <1>4, <2>2, <2>3 DEF InOrder
<1>5. CASE d = Len(ch) + 1
  <2>1. daChain'[d] = b
    BY <1>3, <1>5
  <2>2. CASE b.lo = 1
    BY <2>1, <2>2
  <2>3. CASE Landed(b.lo - 1)
    <3>1. PICK e \in 1..Len(ch) : ch[e].lo <= b.lo - 1 /\ b.lo - 1 <= ch[e].hi
      BY <2>3 DEF Landed, LandedIn
    <3>2. daChain'[e] = ch[e]
      BY <1>2
    <3>3. e \in 1..(d - 1)
      BY <1>1, <1>5
    <3>4. QED
      BY <2>1, <3>1, <3>2, <3>3 DEF LandedBefore
  <2>4. QED
    BY <2>2, <2>3
<1>6. QED
  BY <1>2, <1>4, <1>5, <1>1

(* A step leaves the DA chain alone or appends one blob set to it. *)
LEMMA ChainGrows ==
  ASSUME TypeOK, [Next]_vars
  PROVE  \/ daChain' = daChain
         \/ \E s \in Submitters : /\ pc[s] = "submit"
                                 /\ daChain' = Append(daChain, PendingBatch(s))
<1>1. CASE \E s \in Submitters : Step(s)
  BY <1>1 DEF Step, GetPendingLoad, LoadFromStore, GetPendingRead, SubmitOK,
              RemoveLoad, RemoveCAS, SetMetadata
<1>2. CASE \E s \in Submitters : Failure(s)
  BY <1>2 DEF Failure, LoadFromStoreFail, GetPendingReadFail, SubmitFail,
              SubmitLost, SetMetadataFail
<1>3. QED
  BY <1>1, <1>2 DEF Next, Produce, Crash, vars

(* A step never takes a height off the DA. *)
LEMMA LandedStays ==
  ASSUME TypeOK, [Next]_vars, NEW n, Landed(n)
  PROVE  Landed(n)'
<1>1. CASE daChain' = daChain
  BY <1>1 DEF Landed, LandedIn
<1>2. CASE \E s \in Submitters : daChain' = Append(daChain, PendingBatch(s))
  <2>1. PICK s \in Submitters : daChain' = Append(daChain, PendingBatch(s))
    BY <1>2
  <2>2. PendingBatch(s) \in Batch /\ daChain \in Seq(Batch)
    BY DEF PendingBatch, Batch, TypeOK
  <2>3. QED
    BY <2>1, <2>2, AppendKeepsLanded DEF Landed
<1>3. QED
  BY <1>1, <1>2, ChainGrows

(* Steps keep the blob sets of the DA in order. *)
LEMMA OrderStep == IInv /\ [Next]_vars => InOrder'
<1> SUFFICES ASSUME IInv, [Next]_vars PROVE InOrder'
  OBVIOUS
<1>1. CASE daChain' = daChain
  BY <1>1 DEF IInv, InOrder, LandedBefore
<1>2. CASE \E s \in Submitters : /\ pc[s] = "submit"
                                 /\ daChain' = Append(daChain, PendingBatch(s))
  <2>1. PICK s \in Submitters : /\ pc[s] = "submit"
                                /\ daChain' = Append(daChain, PendingBatch(s))
    BY <1>2
  <2>2. LandedOrZero(ls[s])
    BY <2>1 DEF IInv, LocalsLanded
  <2>3. PendingBatch(s) \in Batch
    BY DEF PendingBatch, Batch, IInv, TypeOK
  <2>4. PendingBatch(s).lo = 1 \/ Landed(PendingBatch(s).lo - 1)
    BY <2>2, <2>3 DEF PendingBatch, LandedOrZero, IInv, TypeOK
  <2>5. QED
    BY <2>1, <2>3, <2>4, AppendKeepsOrder DEF IInv
<1>3. QED
  BY <1>1, <1>2, ChainGrows DEF IInv

(* Steps keep the acknowledgements and the goroutines' locals on the DA. *)
LEMMA AckStep == IInv /\ [Next]_vars => AckLanded' /\ \A t \in Submitters : LocalsLanded(t)'
<1> SUFFICES ASSUME IInv, [Next]_vars
             PROVE  AckLanded' /\ \A t \in Submitters : LocalsLanded(t)'
  OBVIOUS
<1> USE DEF IInv
<1>0. \A n : Landed(n) => Landed(n)'
  BY LandedStays
<1>1. CASE Produce
  BY <1>0, <1>1 DEF Produce, AckLanded, LocalsLanded, LandedOrZero, locals
<1>2. CASE Crash
  BY <1>0, <1>2 DEF Crash, AckLanded, LocalsLanded, TypeOK
<1>3. ASSUME NEW s \in Submitters, Step(s)
      PROVE  AckLanded' /\ \A t \in Submitters : LocalsLanded(t)'
  <2>1. CASE GetPendingLoad(s)
    BY <1>0, <2>1 DEF GetPendingLoad, Goto, AckLanded, LocalsLanded, LandedOrZero, TypeOK
  <2>2. CASE LoadFromStore(s)
    BY <1>0, <2>2 DEF LoadFromStore, Goto, AckLanded, LocalsLanded, LandedOrZero, TypeOK
  <2>3. CASE GetPendingRead(s)
    BY <1>0, <2>3 DEF GetPendingRead, Goto, AckLanded, LocalsLanded, LandedOrZero, TypeOK
  <2>4. CASE SubmitOK(s)
    <3>1. PendingBatch(s) \in Batch /\ PendingBatch(s).lo <= PendingBatch(s).hi
      BY <2>4 DEF SubmitOK, PendingBatch, Batch, LocalsLanded, TypeOK
    <3>2. Landed(hi[s])'
      <4>1. LandedIn(Append(daChain, PendingBatch(s)), PendingBatch(s).hi)
        BY <3>1, AppendLandsLast DEF TypeOK
      <4>2. QED
        BY <4>1, <2>4 DEF SubmitOK, PendingBatch, Landed
    <3>3. QED
      BY <1>0, <2>4, <3>2 DEF SubmitOK, Goto, AckLanded, LocalsLanded, LandedOrZero, TypeOK
  <2>5. CASE RemoveLoad(s)
    BY <1>0, <2>5 DEF RemoveLoad, Goto, AckLanded, LocalsLanded, LandedOrZero, TypeOK
  <2>6. CASE RemoveCAS(s)
    BY <1>0, <2>6 DEF RemoveCAS, Goto, AckLanded, LocalsLanded, LandedOrZero, TypeOK
  <2>7. CASE SetMetadata(s)
    BY <1>0, <2>7 DEF SetMetadata, Goto, AckLanded, LocalsLanded, LandedOrZero, TypeOK
  <2>8. QED
    BY <1>3, <2>1, <2>2, <2>3, <2>4, <2>5, <2>6, <2>7 DEF Step
<1>4. ASSUME NEW s \in Submitters, Failure(s)
      PROVE  AckLanded' /\ \A t \in Submitters : LocalsLanded(t)'
  <2>1. CASE LoadFromStoreFail(s)
    BY <1>0, <2>1 DEF LoadFromStoreFail, Goto, AckLanded, LocalsLanded, LandedOrZero, TypeOK
  <2>2. CASE GetPendingReadFail(s)
    BY <1>0, <2>2 DEF GetPendingReadFail, Goto, AckLanded, LocalsLanded, LandedOrZero, TypeOK
  <2>3. CASE SubmitFail(s)
    BY <1>0, <2>3 DEF SubmitFail, Goto, AckLanded, LocalsLanded, LandedOrZero, TypeOK
  <2>4. CASE SubmitLost(s)
    BY <1>0, <2>4 DEF SubmitLost, Goto, AckLanded, LocalsLanded, LandedOrZero, TypeOK
  <2>5. CASE SetMetadataFail(s)
    BY <1>0, <2>5 DEF SetMetadataFail, Goto, AckLanded, LocalsLanded, LandedOrZero, TypeOK
  <2>6. QED
    BY <1>4, <2>1, <2>2, <2>3, <2>4, <2>5 DEF Failure
<1>5. CASE UNCHANGED vars
  BY <1>0, <1>5 DEF vars, locals, AckLanded, LocalsLanded, LandedOrZero
<1>6. QED
  BY <1>1, <1>2, <1>3, <1>4, <1>5 DEF Next

(* The strengthened invariant holds in every reachable state. *)
LEMMA IInvInvariant == Spec => []IInv
<1>1. Init => IInv
  BY DEF Init, IInv, TypeOK, PCs, AckLanded, InOrder, LocalsLanded
<1>2. IInv /\ [Next]_vars => IInv'
  BY TypeStep, OrderStep, AckStep DEF IInv
<1>3. QED
  BY <1>1, <1>2, PTL DEF Spec

(* At-least-once submission: removeSubmittedBlocks never records, in      *)
(* memory or in the store's metadata, a height that is not on the DA.     *)
THEOREM AckLandedInvariant == Spec => []AckLanded
BY IInvInvariant, PTL DEF IInv

(* getPendingBlocks hands blocks to the DA in height order, without gaps. *)
THEOREM InOrderInvariant == Spec => []InOrder
BY IInvInvariant, PTL DEF IInv


-----------------------------------------------------------------------------
(* Refinement: PendingBlocks implements the safety part of                 *)
(* SubmissionAbstract under the identity mapping on height, daChain and    *)
(* meta.  Besides IInv the proof needs that a goroutine's batch end never  *)
(* runs past the store: getPendingBlocks reads at most store.Height() and  *)
(* the store only grows.                                                    *)

(* The batch goroutine s holds is made of stored blocks. *)
HiStored(s) == pc[s] \in {"submit", "rsbLoad", "rsbCAS", "setMeta"} => hi[s] \in 1..height

RInv == IInv /\ \A s \in Submitters : HiStored(s)

(* Steps keep every goroutine's batch within the store. *)
LEMMA HiStep == RInv /\ [Next]_vars => \A t \in Submitters : HiStored(t)'
<1> SUFFICES ASSUME RInv, [Next]_vars, NEW t \in Submitters PROVE HiStored(t)'
  OBVIOUS
<1> USE DEF RInv, IInv
<1>1. CASE Produce
  BY <1>1 DEF Produce, HiStored, locals, TypeOK
<1>2. CASE Crash
  BY <1>2 DEF Crash, HiStored
<1>3. ASSUME NEW s \in Submitters, Step(s) PROVE HiStored(t)'
  <2>1. CASE GetPendingRead(s)
    BY <2>1 DEF GetPendingRead, Goto, HiStored, TypeOK
  <2>2. CASE ~GetPendingRead(s)
    <3>1. UNCHANGED <<height, hi>> /\ pc' = [pc EXCEPT ![s] = pc'[s]]
      BY <1>3, <2>2 DEF Step, GetPendingLoad, LoadFromStore, SubmitOK, RemoveLoad,
                        RemoveCAS, SetMetadata, Goto
    <3>2. CASE s = t
      <4>1. pc[t] \in {"submit", "rsbLoad", "rsbCAS", "setMeta"}
              \/ pc'[t] \notin {"submit", "rsbLoad", "rsbCAS", "setMeta"}
        BY <1>3, <2>2, <3>2 DEF Step, GetPendingLoad, LoadFromStore, SubmitOK, RemoveLoad,
                                RemoveCAS, SetMetadata, Goto, TypeOK
      <4>2. QED
        BY <3>1, <4>1 DEF HiStored
    <3>3. CASE s # t
      BY <3>1, <3>3 DEF HiStored, TypeOK
    <3>4. QED
      BY <3>2, <3>3
  <2>3. QED
    BY <2>1, <2>2
<1>4. ASSUME NEW s \in Submitters, Failure(s) PROVE HiStored(t)'
  <2>1. CASE GetPendingReadFail(s)
    BY <2>1 DEF GetPendingReadFail, Goto, HiStored, TypeOK
  <2>2. CASE ~GetPendingReadFail(s)
    <3>1. UNCHANGED <<height, hi>>
      BY <1>4, <2>2 DEF Failure, LoadFromStoreFail, SubmitFail, SubmitLost, SetMetadataFail
    <3>2. pc'[t] \notin {"submit", "rsbLoad", "rsbCAS", "setMeta"} \/ pc'[t] = pc[t]
      BY <1>4, <2>2 DEF Failure, LoadFromStoreFail, SubmitFail, SubmitLost,
                        SetMetadataFail, Goto, TypeOK
    <3>3. QED
      BY <3>1, <3>2 DEF HiStored
  <2>3. QED
    BY <2>1, <2>2
<1>5. CASE UNCHANGED vars
  BY <1>5 DEF vars, locals, HiStored
<1>6. QED
  BY <1>1, <1>2, <1>3, <1>4, <1>5 DEF Next

(* The refinement's invariant holds in every reachable state. *)
LEMMA RInvInvariant == Spec => []RInv
<1>1. Init => RInv
  BY DEF Init, RInv, IInv, TypeOK, PCs, AckLanded, InOrder, LocalsLanded, HiStored
<1>2. RInv /\ [Next]_vars => RInv'
  BY TypeStep, OrderStep, AckStep, HiStep DEF RInv, IInv
<1>3. QED
  BY <1>1, <1>2, PTL DEF Spec


(* The abstract DA predicate is the detailed one. *)
LEMMA OnDAIsLanded == \A n : Abstract!OnDA(n) <=> Landed(n)
BY DEF Abstract!OnDA, Landed, LandedIn

(* The batch a submitting goroutine hands to DA.Submit is a landing the   *)
(* abstract specification allows.                                         *)
LEMMA SubmitIsLand ==
  ASSUME RInv, NEW s \in Submitters, pc[s] = "submit",
         daChain' = Append(daChain, PendingBatch(s)),
         UNCHANGED <<height, meta>>
  PROVE  Abstract!Land(PendingBatch(s))
<1> USE DEF RInv, IInv
<1>1. ls[s] \in Nat /\ ls[s] < hi[s] /\ hi[s] \in 1..height /\ height \in 0..MaxHeight
  BY DEF LocalsLanded, HiStored, TypeOK
<1>2. PendingBatch(s).lo = 1 \/ Abstract!OnDA(PendingBatch(s).lo - 1)
  <2>1. LandedOrZero(ls[s])
    BY DEF LocalsLanded
  <2>2. QED
    BY <1>1, <2>1, OnDAIsLanded DEF LandedOrZero, PendingBatch
<1>3. QED
  BY <1>1, <1>2 DEF Abstract!Land, PendingBatch

(* Every step of the submission path is a step of its contract, or leaves *)
(* the store height, the DA and the metadata alone.                       *)
LEMMA RefineStep == RInv /\ [Next]_vars => [Abstract!Next]_Abstract!avars
<1> SUFFICES ASSUME RInv, [Next]_vars PROVE [Abstract!Next]_Abstract!avars
  OBVIOUS
<1> USE DEF RInv, IInv
<1> DEFINE Same == UNCHANGED <<height, daChain, meta>>
<1>0. Same => [Abstract!Next]_Abstract!avars
  BY DEF Abstract!avars
<1>1. CASE Produce
  BY <1>1 DEF Produce, Abstract!Produce, Abstract!Next
<1>2. CASE Crash
  BY <1>0, <1>2 DEF Crash
<1>3. ASSUME NEW s \in Submitters, Step(s) PROVE [Abstract!Next]_Abstract!avars
  <2>1. CASE SubmitOK(s)
    <3>1. Abstract!Land(PendingBatch(s))
      BY <2>1, SubmitIsLand DEF SubmitOK
    <3>2. PendingBatch(s) \in Abstract!Batches
      BY <2>1 DEF SubmitOK, PendingBatch, Abstract!Batches, LocalsLanded, HiStored, TypeOK
    <3>3. QED
      BY <3>1, <3>2 DEF Abstract!Next
  <2>2. CASE SetMetadata(s)
    <3>1. hi[s] \in 1..height /\ Abstract!OnDA(hi[s])
      <4>1. Landed(hi[s]) /\ hi[s] \in 1..height
        BY <2>2 DEF SetMetadata, LocalsLanded, HiStored
      <4>2. QED
        BY <4>1, OnDAIsLanded
    <3>2. Abstract!Persist
      BY <2>2, <3>1 DEF SetMetadata, Abstract!Persist
    <3>3. QED
      BY <3>2 DEF Abstract!Next
  <2>3. CASE ~SubmitOK(s) /\ ~SetMetadata(s)
    BY <1>0, <1>3, <2>3 DEF Step, GetPendingLoad, LoadFromStore, GetPendingRead,
                            RemoveLoad, RemoveCAS
  <2>4. QED
    BY <2>1, <2>2, <2>3
<1>4. ASSUME NEW s \in Submitters, Failure(s) PROVE [Abstract!Next]_Abstract!avars
  <2>1. CASE SubmitLost(s)
    <3>1. Abstract!Land(PendingBatch(s))
      BY <2>1, SubmitIsLand DEF SubmitLost
    <3>2. PendingBatch(s) \in Abstract!Batches
      BY <2>1 DEF SubmitLost, PendingBatch, Abstract!Batches, LocalsLanded, HiStored, TypeOK
    <3>3. QED
      BY <3>1, <3>2 DEF Abstract!Next
  <2>2. CASE ~SubmitLost(s)
    BY <1>0, <1>4, <2>2 DEF Failure, LoadFromStoreFail, GetPendingReadFail, SubmitFail,
                            SetMetadataFail
  <2>3. QED
    BY <2>1, <2>2
<1>5. CASE UNCHANGED vars
  BY <1>0, <1>5 DEF vars
<1>6. QED
  BY <1>1, <1>2, <1>3, <1>4, <1>5 DEF Next

(* The submission path implements the safety of its contract: whatever    *)
(* the goroutines interleave, fail or restart, the DA only receives blob   *)
(* sets of stored blocks that continue the landed prefix, and the store's  *)
(* metadata only ever records a stored height that is on the DA.          *)
THEOREM Refinement == Spec => ImplementsAbstractSafe
<1>1. Init => Abstract!Init
  BY DEF Init, Abstract!Init
<1>2. QED
  BY <1>1, RInvInvariant, RefineStep, PTL DEF Spec, ImplementsAbstractSafe, Abstract!SafeSpec

-----------------------------------------------------------------------------
(* The persisted height never decreases while one goroutine submits.      *)
(* SetMetadata writes the batch end hi[s]; the invariant carries, from    *)
(* loadFromStore through the CAS to the write, that this goroutine's view  *)
(* of lastSubmittedHeight is at least what is persisted, and that the CAS  *)
(* it won set lastSubmittedHeight to exactly hi[s].                        *)

(* Only one goroutine runs the submission step (the node's single loop). *)
SingleSubmitter == \A s, t \in Submitters : s = t

(* The steps between loading lastSubmittedHeight and writing it back. *)
Loaded == {"read", "submit", "rsbLoad", "rsbCAS", "setMeta"}

(* What is persisted is a batch end, never zero. *)
MetaPositive == meta \in (Nat \ {0}) \cup {NoMeta}

(* lastSubmittedHeight, once loaded, is at least the persisted height. *)
MetaBelowLsh == meta # NoMeta /\ lsh # 0 => meta <= lsh

(* What goroutine s relies on between its load and its metadata write. *)
MetaLocal(s) ==
  /\ pc[s] \in Loaded /\ meta # NoMeta => meta <= lsh
  /\ pc[s] = "rsbCAS" => hi[s] > lsh
  /\ pc[s] = "setMeta" => hi[s] = lsh /\ lsh >= 1

MInv ==
  /\ TypeOK
  /\ MetaPositive
  /\ MetaBelowLsh
  /\ \A s \in Submitters : MetaLocal(s)

(* With one submitter, MInv is inductive. *)
LEMMA MInvStep ==
  ASSUME SingleSubmitter
  PROVE  MInv /\ [Next]_vars => MInv'
<1> SUFFICES ASSUME MInv, [Next]_vars PROVE MInv'
  OBVIOUS
<1>0. /\ TypeOK /\ MetaPositive /\ MetaBelowLsh /\ \A s \in Submitters : MetaLocal(s)
      /\ lsh \in Nat /\ hi \in [Submitters -> Nat] /\ pc \in [Submitters -> PCs]
  BY DEF MInv, TypeOK
<1>1. TypeOK'
  BY <1>0, TypeStep
<1>2. CASE UNCHANGED <<lsh, meta, pc, hi>>
  BY <1>0, <1>1, <1>2 DEF MInv, MetaPositive, MetaBelowLsh, MetaLocal
<1>3. CASE Crash
  <2>1. lsh' = 0 /\ meta' = meta /\ \A t \in Submitters : pc'[t] = "idle"
    BY <1>3 DEF Crash
  <2>2. QED
    BY <1>0, <1>1, <2>1 DEF MInv, MetaPositive, MetaBelowLsh, MetaLocal, Loaded
<1>4. ASSUME NEW s \in Submitters, Step(s) \/ Failure(s) PROVE MInv'
  <2>1. \A t \in Submitters : t = s
    BY DEF SingleSubmitter
  <2>2. MetaLocal(s) /\ lsh \in Nat /\ hi[s] \in Nat
    BY <1>0
  <2> SUFFICES MetaPositive' /\ MetaBelowLsh' /\ MetaLocal(s)'
    BY <1>1, <2>1 DEF MInv
  <2>3. CASE GetPendingLoad(s)
    BY <1>0, <2>2, <2>3 DEF GetPendingLoad, Goto, MetaPositive, MetaBelowLsh,
       MetaLocal, Loaded
  <2>4. CASE LoadFromStore(s)
    BY <1>0, <2>2, <2>4, SMTT(30) DEF LoadFromStore, Goto, MetaPositive,
       MetaBelowLsh, MetaLocal, Loaded
  <2>5. CASE GetPendingRead(s)
    BY <1>0, <2>2, <2>5 DEF GetPendingRead, Goto, MetaPositive, MetaBelowLsh,
       MetaLocal, Loaded
  <2>6. CASE SubmitOK(s) \/ SubmitFail(s) \/ SubmitLost(s)
    BY <1>0, <2>2, <2>6 DEF SubmitOK, SubmitFail, SubmitLost, Goto, MetaPositive,
       MetaBelowLsh, MetaLocal, Loaded
  <2>7. CASE RemoveLoad(s)
    BY <1>0, <2>2, <2>7 DEF RemoveLoad, Goto, MetaPositive, MetaBelowLsh,
       MetaLocal, Loaded
  <2>8. CASE RemoveCAS(s)
    BY <1>0, <2>2, <2>8, SMTT(30) DEF RemoveCAS, Goto, MetaPositive,
       MetaBelowLsh, MetaLocal, Loaded
  <2>9. CASE SetMetadata(s)
    BY <1>0, <2>2, <2>9, SMTT(30) DEF SetMetadata, Goto, MetaPositive,
       MetaBelowLsh, MetaLocal, Loaded
  <2>10. CASE LoadFromStoreFail(s) \/ SetMetadataFail(s)
    BY <1>0, <2>2, <2>10 DEF LoadFromStoreFail, SetMetadataFail, Fault, Goto,
       MetaPositive, MetaBelowLsh, MetaLocal, Loaded
  <2>11. CASE GetPendingReadFail(s)
    BY <1>0, <2>2, <2>11 DEF GetPendingReadFail, Fault, Goto, MetaPositive,
       MetaBelowLsh, MetaLocal, Loaded
  <2>12. QED
    BY <1>4, <2>3, <2>4, <2>5, <2>6, <2>7, <2>8, <2>9, <2>10, <2>11
       DEF Step, Failure
<1>5. QED
  BY <1>2, <1>3, <1>4 DEF Next, Produce, vars, locals

(* With the node's single submission loop, the height persisted under     *)
(* LastSubmittedHeightKey never decreases and, once written, is never     *)
(* lost: whatever fails or restarts, removeSubmittedBlocks only writes a  *)
(* batch end at least the stored one, because loadFromStore installed the *)
(* stored height before the batch was read (submission_meta_race shows   *)
(* the property fails with two goroutines).                               *)
THEOREM MetaMonotoneSingle ==
  ASSUME SingleSubmitter
  PROVE  Spec => MetaMonotone
<1>1. Init => MInv
  BY DEF Init, MInv, TypeOK, PCs, MetaPositive, MetaBelowLsh, MetaLocal, Loaded
<1>2. MInv /\ [Next]_vars => [meta # NoMeta => meta' # NoMeta /\ meta' >= meta]_meta
  <2> SUFFICES ASSUME MInv, [Next]_vars, meta # NoMeta
               PROVE  meta' # NoMeta /\ meta' >= meta
    OBVIOUS
  <2>1. meta \in Nat /\ lsh \in Nat /\ hi \in [Submitters -> Nat]
    BY DEF MInv, MetaPositive, TypeOK
  <2>2. CASE \E s \in Submitters : SetMetadata(s)
    <3>1. PICK s \in Submitters : SetMetadata(s)
      BY <2>2
    <3>2. meta' = hi[s] /\ hi[s] = lsh /\ meta <= lsh
      BY <3>1 DEF MInv, MetaLocal, SetMetadata, Loaded
    <3>3. QED
      BY <2>1, <3>2, NoMetaAssumption
  <2>3. CASE meta' = meta
    BY <2>1, <2>3
  <2>4. QED
    BY <2>2, <2>3 DEF Next, vars, Produce, Crash, Step, Failure,
       GetPendingLoad, LoadFromStore, GetPendingRead, SubmitOK, RemoveLoad,
       RemoveCAS, SetMetadata, LoadFromStoreFail, GetPendingReadFail,
       SubmitFail, SubmitLost, SetMetadataFail
<1>3. QED
  BY <1>1, <1>2, MInvStep, PTL DEF Spec, MetaMonotone

=============================================================================
