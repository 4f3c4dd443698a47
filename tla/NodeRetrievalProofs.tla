------------------------- MODULE NodeRetrievalProofs -------------------------
(***************************************************************************)
(* Proofs about the follower's retrieval from the DA, for every bound on   *)
(* heights, DA heights and failures.                                       *)
(***************************************************************************)
EXTENDS NodeRetrieval, SequenceTheorems, TLAPS

USE RetrievalAssumption

-----------------------------------------------------------------------------
(* Facts about the blobs and the results RetrieveBlocks builds from them.  *)

(* The blobs of a batch lo..hi are a sequence of blobs. *)
LEMMA BatchIsSeq ==
  ASSUME NEW lo \in Heights, NEW hi \in lo..MaxHeight
  PROVE  [i \in 1..(hi - lo + 1) |-> Blob("block", lo + i - 1)] \in Seq(Blobs)
<1>1. \A i \in 1..(hi - lo + 1) : Blob("block", lo + i - 1) \in Blobs
  BY DEF Heights, Blobs
<1>2. hi - lo + 1 \in Nat
  BY DEF Heights
<1>3. QED
  BY <1>1, <1>2, SeqDef

(* The blocks a sequence of blobs carries are rollup heights. *)
LEMMA BlocksInHeights ==
  ASSUME NEW bs \in Seq(Blobs)
  PROVE  BlocksIn(bs) \subseteq Heights
<1>1. \A i \in 1..Len(bs) : IsBlock(bs[i]) => bs[i].h \in Heights
  BY DEF Blobs, Blob, IsBlock
<1>2. QED
  BY <1>1 DEF BlocksIn

(* RetrieveBlocks' Blocks slice holds heights and nils. *)
LEMMA DecodedType ==
  ASSUME NEW bs \in Seq(Blobs)
  PROVE  Decoded(bs) \in Seq(Heights \cup {Nil})
<1>1. \A i \in 1..Len(bs) : (IF IsBlock(bs[i]) THEN bs[i].h ELSE Nil) \in Heights \cup {Nil}
  BY DEF Blobs, Blob, IsBlock
<1>2. QED
  BY <1>1, SeqDef DEF Decoded

(* Landing blobs at the next DA height keeps the chain a sequence of blob *)
(* sequences, one longer. *)
LEMMA ChainAppend ==
  ASSUME NEW S, NEW ch \in Seq(Seq(S)), NEW bs \in Seq(S)
  PROVE  Append(ch, bs) \in Seq(Seq(S)) /\ Len(Append(ch, bs)) = Len(ch) + 1
BY AppendProperties

(* What GetIDs/Get return at any DA height is a sequence of blobs. *)
LEMMA BlobsAtType ==
  ASSUME NEW d \in Nat \ {0}, daChain \in Seq(Seq(Blobs))
  PROVE  BlobsAt(d) \in Seq(Blobs)
<1>1. CASE d <= Len(daChain)
  BY <1>1, ElementOfSeq DEF BlobsAt
<1>2. CASE ~(d <= Len(daChain))
  BY <1>2, EmptySeq DEF BlobsAt
<1>3. QED
  BY <1>1, <1>2

-----------------------------------------------------------------------------
(* Type correctness, and the pending set above the store height.           *)

(* Every step keeps every variable of its type, and keeps the pending set  *)
(* strictly above the store height. *)
LEMMA TypeStep == TypeOK /\ [Next]_vars => TypeOK'
<1> SUFFICES ASSUME TypeOK, [Next]_vars PROVE TypeOK'
  OBVIOUS
<1>1. CASE PostBatch
  <2>1. PICK lo \in BatchStarts : \E hi \in lo..MaxHeight :
          daChain' = Append(daChain, [i \in 1..(hi - lo + 1) |-> Blob("block", lo + i - 1)])
    BY <1>1 DEF PostBatch
  <2>5. PICK hi \in lo..MaxHeight :
          daChain' = Append(daChain, [i \in 1..(hi - lo + 1) |-> Blob("block", lo + i - 1)])
    BY <2>1
  <2>2. lo \in Heights
    BY DEF BatchStarts
  <2>3. daChain' \in Seq(Seq(Blobs)) /\ Len(daChain') = Len(daChain) + 1
    BY <2>5, <2>2, BatchIsSeq, ChainAppend DEF TypeOK
  <2>4. QED
    BY <1>1, <2>3 DEF PostBatch, DAOpen, TypeOK
<1>2. CASE PostForeign
  <2>1. PICK f \in Foreign :
          \/ daChain' = Append(daChain, <<Blob(f, 0)>>)
          \/ \E lo \in BatchStarts : daChain' = Append(daChain, <<Blob(f, 0), Blob("block", lo)>>)
    BY <1>2 DEF PostForeign
  <2>2. Blob(f, 0) \in Blobs
    BY DEF Blobs
  <2>3. \A lo \in BatchStarts : Blob("block", lo) \in Blobs
    BY DEF BatchStarts, Blobs
  <2>6. <<Blob(f, 0)>> \in Seq(Blobs)
    BY <2>2
  <2>7. \A lo \in BatchStarts : <<Blob(f, 0), Blob("block", lo)>> \in Seq(Blobs)
    BY <2>2, <2>3
  <2>4. daChain' \in Seq(Seq(Blobs)) /\ Len(daChain') = Len(daChain) + 1
    <3>1. CASE daChain' = Append(daChain, <<Blob(f, 0)>>)
      BY <3>1, <2>6, ChainAppend DEF TypeOK
    <3>2. CASE \E lo \in BatchStarts : daChain' = Append(daChain, <<Blob(f, 0), Blob("block", lo)>>)
      <4>1. PICK lo \in BatchStarts : daChain' = Append(daChain, <<Blob(f, 0), Blob("block", lo)>>)
        BY <3>2
      <4>2. QED
        BY <4>1, <2>7, ChainAppend DEF TypeOK
    <3>3. QED
      BY <2>1, <3>1, <3>2
  <2>5. QED
    BY <1>2, <2>4 DEF PostForeign, DAOpen, TypeOK
<1>3. CASE Start
  BY <1>3 DEF Start, TypeOK
<1>4. CASE RetrieveOK
  <2>1. BlobsAt(cursor) \in Seq(Blobs)
    BY BlobsAtType DEF TypeOK
  <2>2. BlocksIn(BlobsAt(cursor)) \subseteq Heights
    BY <2>1, BlocksInHeights
  <2>3. lastResult' \in Seq(Heights \cup {Nil})
    BY <1>4, <2>1, DecodedType DEF RetrieveOK
  <2>7. height' = height
        /\ pending' = pending \cup {h \in BlocksIn(BlobsAt(cursor)) : h > height}
    BY <1>4 DEF RetrieveOK, Accept
  <2>8. \A h \in {x \in BlocksIn(BlobsAt(cursor)) : x > height} : h \in (height + 1)..MaxHeight
    BY <2>2 DEF TypeOK, Heights
  <2>4. pending' \subseteq (height' + 1)..MaxHeight
    BY <2>7, <2>8 DEF TypeOK
  <2>5. cursor' \in 1..(MaxDA + 1)
    BY <1>4 DEF RetrieveOK, Accept, TypeOK
  <2>6. QED
    BY <1>4, <2>3, <2>4, <2>5 DEF RetrieveOK, TypeOK
<1>5. CASE RetrieveError
  BY <1>5 DEF RetrieveError, TypeOK
<1>6. CASE RetrieveFault
  <2>1. BlocksIn(<<>>) = {}
    BY DEF BlocksIn
  <2>2. pending' = pending /\ cursor' \in 1..(MaxDA + 1)
    BY <1>6, <2>1 DEF RetrieveFault, Accept, TypeOK
  <2>3. lastResult' \in Seq(Heights \cup {Nil})
    BY <1>6, EmptySeq DEF RetrieveFault
  <2>4. QED
    BY <1>6, <2>2, <2>3 DEF RetrieveFault, TypeOK
<1>7. CASE Apply
  BY <1>7 DEF Apply, TypeOK
<1>8. CASE UNCHANGED vars
  BY <1>8 DEF vars, TypeOK
<1>9. QED
  BY <1>1, <1>2, <1>3, <1>4, <1>5, <1>6, <1>7, <1>8 DEF Next

(* The initial state is well typed. *)
LEMMA InitType == Init => TypeOK
<1> SUFFICES ASSUME Init PROVE TypeOK
  OBVIOUS
<1>1. daChain \in Seq(Seq(Blobs)) /\ Len(daChain) <= MaxDA
  BY EmptySeq DEF Init
<1>2. lastResult \in Seq(Heights \cup {Nil})
  BY EmptySeq DEF Init
<1>3. /\ retrieveLoop \in {"idle", "running"}
      /\ cursor \in 1..(MaxDA + 1)
      /\ status \in {"none", "success", "error"}
  BY DEF Init
<1>4. /\ height \in 0..MaxHeight
      /\ pending \subseteq (height + 1)..MaxHeight
      /\ faults \in 0..MaxFaults
  BY DEF Init
<1>5. QED
  BY <1>1, <1>2, <1>3, <1>4 DEF TypeOK

(* Every reachable state is well typed, and the follower never holds a     *)
(* block at or below its store height: duplicates from resubmission are   *)
(* always dropped. *)
THEOREM TypeCorrect == Spec => []TypeOK
<1>1. Init => TypeOK
  BY InitType
<1>2. QED
  BY <1>1, TypeStep, PTL DEF Spec

=============================================================================
