--------------------------- MODULE NodeShellProofs ---------------------------
(***************************************************************************)
(* Proofs about the node shell, for every channel capacity, block bound    *)
(* and write-error bound, aggregator or not: the state stays well typed    *)
(* with the channels within their capacity, and the publish loops write    *)
(* headers and blocks to the stores in production order.                  *)
(***************************************************************************)
EXTENDS NodeShell, SequenceTheorems, TLAPS

USE ShellBoundsAssumption
USE DEF ShellBoundsAssumption

-----------------------------------------------------------------------------
(* Facts about a bounded channel of heights.                               *)

(* A send on a channel with a free slot keeps it a sequence of heights     *)
(* within its capacity, one longer, with the height sent at its end.       *)
LEMMA ChanSend ==
  ASSUME NEW ch \in Seq(1..MaxBlocks), Len(ch) < ChanCap,
         NEW x \in 1..MaxBlocks
  PROVE  /\ Append(ch, x) \in Seq(1..MaxBlocks)
         /\ Len(Append(ch, x)) = Len(ch) + 1
         /\ Len(Append(ch, x)) <= ChanCap
         /\ \A j \in 1..Len(ch) : Append(ch, x)[j] = ch[j]
         /\ Append(ch, x)[Len(ch) + 1] = x
<1>1. Len(ch) \in Nat
  BY LenProperties
<1>2. QED
  BY <1>1, AppendProperties

(* A receive moves the head of a non-empty channel to the end of a store.  *)
LEMMA ChanRecv ==
  ASSUME NEW st \in Seq(1..MaxBlocks), NEW ch \in Seq(1..MaxBlocks),
         ch # << >>
  PROVE  /\ Append(st, Head(ch)) \in Seq(1..MaxBlocks)
         /\ Len(Append(st, Head(ch))) = Len(st) + 1
         /\ \A j \in 1..Len(st) : Append(st, Head(ch))[j] = st[j]
         /\ Append(st, Head(ch))[Len(st) + 1] = ch[1]
         /\ Tail(ch) \in Seq(1..MaxBlocks)
         /\ Len(Tail(ch)) = Len(ch) - 1
         /\ \A j \in 1..Len(Tail(ch)) : Tail(ch)[j] = ch[j + 1]
<1>1. Head(ch) \in 1..MaxBlocks /\ Head(ch) = ch[1]
  BY HeadTailProperties
<1>2. QED
  BY <1>1, AppendProperties, HeadTailProperties

-----------------------------------------------------------------------------
(* Type correctness.                                                       *)

(* TypeOK, and: between producing a block and sending it, the aggregation *)
(* loop holds a height (produced is at least 1), so what it sends is one.  *)
TInv ==
  /\ TypeOK
  /\ aggPc # "produce" => produced >= 1

(* Every step keeps TInv. *)
LEMMA TypeStep == TInv /\ [Next]_vars => TInv'
<1> SUFFICES ASSUME TInv, [Next]_vars PROVE TInv'
  OBVIOUS
<1>0. TypeOK /\ (aggPc # "produce" => produced >= 1)
  BY DEF TInv
<1> USE DEF TInv, TypeOK
<1>1. CASE NewFullNode
  BY <1>0, <1>1 DEF NewFullNode, Services, Phases
<1>2. CASE NewFullNodeFail
  <2>1. PICK k \in 1..Len(ConstructSteps) :
          running' = Prefix(ConstructSteps, k) \cap Runs
    BY <1>2 DEF NewFullNodeFail
  <2>2. running' \subseteq Services
    BY <2>1 DEF Services
  <2>3. QED
    BY <1>0, <1>2, <2>2 DEF NewFullNodeFail, Phases
<1>3. CASE OnStart
  <2>1. loops' \subseteq Loops
    <3>1. (IF Aggregator THEN AggregatorLoops ELSE {}) \subseteq AggregatorLoops
      OBVIOUS
    <3>2. QED
      BY <1>3, <3>1 DEF OnStart, Loops
  <2>2. QED
    BY <1>0, <1>3, <2>1 DEF OnStart, Phases
<1>4. CASE OnStartFail
  BY <1>0, <1>4 DEF OnStartFail, Services, Prefix, Phases
<1>5. CASE Cancel
  BY <1>0, <1>5 DEF Cancel
<1>6. CASE OnStop
  BY <1>0, <1>6 DEF OnStop, Phases
<1>7. CASE AggProduce
  BY <1>0, <1>7 DEF AggProduce
<1>8. CASE AggSendHeader
  <2>1. produced \in 1..MaxBlocks
    BY <1>0, <1>8 DEF AggSendHeader
  <2>2. QED
    BY <1>0, <1>8, <2>1, ChanSend DEF AggSendHeader
<1>9. CASE AggSendBlock
  <2>1. produced \in 1..MaxBlocks
    BY <1>0, <1>9 DEF AggSendBlock
  <2>2. QED
    BY <1>0, <1>9, <2>1, ChanSend DEF AggSendBlock
<1>10. CASE HeaderPublish
  <2>1. /\ Append(hStore, Head(headerCh)) \in Seq(1..MaxBlocks)
        /\ Tail(headerCh) \in Seq(1..MaxBlocks) /\ Len(Tail(headerCh)) = Len(headerCh) - 1
    BY <1>0, <1>10, ChanRecv DEF HeaderPublish
  <2>2. QED
    BY <1>0, <1>10, <2>1 DEF HeaderPublish
<1>11. CASE BlockPublish
  <2>1. /\ Append(bStore, Head(blockCh)) \in Seq(1..MaxBlocks)
        /\ Tail(blockCh) \in Seq(1..MaxBlocks) /\ Len(Tail(blockCh)) = Len(blockCh) - 1
    BY <1>0, <1>11, ChanRecv DEF BlockPublish
  <2>2. QED
    BY <1>0, <1>11, <2>1 DEF BlockPublish
<1>12. CASE HeaderPublishFail
  <2>1. Tail(headerCh) \in Seq(1..MaxBlocks) /\ Len(Tail(headerCh)) = Len(headerCh) - 1
    BY <1>0, <1>12, HeadTailProperties DEF HeaderPublishFail
  <2>2. QED
    BY <1>0, <1>12, <2>1 DEF HeaderPublishFail, Loops
<1>13. CASE BlockPublishFail
  <2>1. Tail(blockCh) \in Seq(1..MaxBlocks) /\ Len(Tail(blockCh)) = Len(blockCh) - 1
    BY <1>0, <1>13, HeadTailProperties DEF BlockPublishFail
  <2>2. QED
    BY <1>0, <1>13, <2>1 DEF BlockPublishFail, Loops
<1>14. CASE HeaderPublishExit \/ BlockPublishExit \/ \E l \in OtherLoops : LoopExit(l)
  BY <1>0, <1>14 DEF HeaderPublishExit, BlockPublishExit, LoopExit
<1>15. CASE UNCHANGED vars
  BY <1>0, <1>15 DEF vars
<1>16. QED
  BY <1>1, <1>2, <1>3, <1>4, <1>5, <1>6, <1>7, <1>8, <1>9, <1>10, <1>11,
     <1>12, <1>13, <1>14, <1>15 DEF Next, Progress

(* Every reachable state of the node shell is well typed, and neither      *)
(* HeaderCh nor BlockCh ever holds more than its capacity: the aggregation *)
(* loop's sends wait for a free slot.                                      *)
THEOREM TypeCorrect == Spec => []TypeOK
<1>1. Init => TInv
  <2>1. << >> \in Seq(1..MaxBlocks) /\ Len(<< >>) = 0
    BY EmptySeq
  <2>2. QED
    BY <2>1 DEF Init, TInv, TypeOK, Phases
<1>2. TInv /\ [Next]_vars => TInv'
  BY TypeStep
<1>3. TInv => TypeOK
  BY DEF TInv
<1>4. QED
  BY <1>1, <1>2, <1>3, PTL DEF Spec

-----------------------------------------------------------------------------
(* The publish loops write in production order.                            *)

(* Heights the aggregation loop has sent on HeaderCh and on BlockCh: it    *)
(* produces a height, then sends its header, then its block.               *)
SentH == IF aggPc = "sendH" THEN produced - 1 ELSE produced
SentB == IF aggPc = "produce" THEN produced ELSE produced - 1

(* A store holds 1, 2, ... in order; while its publish loop runs (on),    *)
(* the channel holds the heights sent after them, in order, none lost.     *)
Flow(st, ch, sent, on) ==
  /\ \A j \in 1..Len(st) : st[j] = j
  /\ on =>
       /\ Len(st) + Len(ch) = sent
       /\ \A j \in 1..Len(ch) : ch[j] = Len(st) + j

(* Before OnStart no loop runs and nothing has been produced or sent.      *)
PreStart ==
  phase \in {"init", "constructed"} =>
    /\ loops = {} /\ produced = 0 /\ aggPc = "produce"
    /\ headerCh = << >> /\ blockCh = << >> /\ hStore = << >> /\ bStore = << >>

(* The inductive invariant of StoresInOrder. *)
SInv ==
  /\ TInv
  /\ PreStart
  /\ Flow(hStore, headerCh, SentH, "headerPublish" \in loops)
  /\ Flow(bStore, blockCh, SentB, "blockPublish" \in loops)

(* A send of the next height keeps a running flow. *)
LEMMA FlowSend ==
  ASSUME NEW st \in Seq(1..MaxBlocks), NEW ch \in Seq(1..MaxBlocks),
         NEW n \in Nat, n + 1 \in 1..MaxBlocks, Len(ch) < ChanCap,
         Flow(st, ch, n, TRUE)
  PROVE  Flow(st, Append(ch, n + 1), n + 1, TRUE)
<1>1. /\ Len(Append(ch, n + 1)) = Len(ch) + 1
      /\ \A j \in 1..Len(ch) : Append(ch, n + 1)[j] = ch[j]
      /\ Append(ch, n + 1)[Len(ch) + 1] = n + 1
  BY ChanSend
<1>2. Len(st) \in Nat /\ Len(ch) \in Nat
  BY LenProperties
<1>3. Len(st) + Len(ch) = n /\ \A j \in 1..Len(ch) : ch[j] = Len(st) + j
  BY DEF Flow
<1>4. Len(st) + Len(Append(ch, n + 1)) = n + 1
  BY <1>1, <1>2, <1>3, SMTT(30)
<1>5. \A j \in 1..Len(Append(ch, n + 1)) : Append(ch, n + 1)[j] = Len(st) + j
  <2> TAKE j \in 1..Len(Append(ch, n + 1))
  <2>1. CASE j \in 1..Len(ch)
    BY <1>1, <1>3, <2>1
  <2>2. CASE j = Len(ch) + 1
    BY <1>1, <1>2, <1>3, <2>2, SMTT(30)
  <2>3. QED
    BY <1>1, <1>2, <2>1, <2>2, SMTT(30)
<1>6. QED
  BY <1>4, <1>5 DEF Flow

(* A receive by the running loop moves the next height to the store. *)
LEMMA FlowRecv ==
  ASSUME NEW st \in Seq(1..MaxBlocks), NEW ch \in Seq(1..MaxBlocks),
         NEW n \in Nat, ch # << >>, Flow(st, ch, n, TRUE)
  PROVE  Flow(Append(st, Head(ch)), Tail(ch), n, TRUE)
<1>1. /\ Len(Append(st, Head(ch))) = Len(st) + 1
      /\ \A j \in 1..Len(st) : Append(st, Head(ch))[j] = st[j]
      /\ Append(st, Head(ch))[Len(st) + 1] = ch[1]
      /\ Len(Tail(ch)) = Len(ch) - 1
      /\ \A j \in 1..Len(Tail(ch)) : Tail(ch)[j] = ch[j + 1]
  BY ChanRecv
<1>2. Len(st) \in Nat /\ Len(ch) \in Nat /\ Len(ch) >= 1
  BY LenProperties, EmptySeq
<1>3. ch[1] = Len(st) + 1
  BY <1>2 DEF Flow
<1>4. \A j \in 1..Len(Append(st, Head(ch))) : Append(st, Head(ch))[j] = j
  <2> TAKE j \in 1..Len(Append(st, Head(ch)))
  <2>1. CASE j \in 1..Len(st)
    BY <1>1, <2>1 DEF Flow
  <2>2. CASE j = Len(st) + 1
    BY <1>1, <1>3, <2>2
  <2>3. QED
    BY <1>1, <1>2, <2>1, <2>2
<1>5. Len(Append(st, Head(ch))) + Len(Tail(ch)) = n
  <2>1. Len(st) + Len(ch) = n
    BY DEF Flow
  <2>2. Len(Append(st, Head(ch))) = Len(st) + 1
    BY <1>1
  <2>3. Len(Tail(ch)) = Len(ch) - 1
    BY <1>1
  <2>4. QED
    BY <1>2, <2>1, <2>2, <2>3, SMTT(30)
<1>6. \A j \in 1..Len(Tail(ch)) : Tail(ch)[j] = Len(Append(st, Head(ch))) + j
  <2> TAKE j \in 1..Len(Tail(ch))
  <2>1. j + 1 \in 1..Len(ch)
    BY <1>1, <1>2
  <2>2. ch[j + 1] = Len(st) + j + 1
    BY <2>1 DEF Flow
  <2>3. QED
    BY <1>1, <2>2
<1>7. QED
  BY <1>4, <1>5, <1>6 DEF Flow

(* A flow stays one when its loop may have stopped running meanwhile. *)
LEMMA FlowOff ==
  ASSUME NEW st, NEW ch, NEW n, NEW on, NEW on2, Flow(st, ch, n, on),
         on2 => on
  PROVE  Flow(st, ch, n, on2)
BY DEF Flow

(* A flow whose loop no longer runs only says the store is in order. *)
LEMMA FlowStopped ==
  ASSUME NEW st, NEW ch, NEW n, NEW on, Flow(st, ch, n, on),
         NEW ch2, NEW n2
  PROVE  Flow(st, ch2, n2, FALSE)
BY DEF Flow

(* Nothing runs or moves before OnStart. *)
LEMMA PreStartStep == TInv /\ PreStart /\ [Next]_vars => PreStart'
<1> SUFFICES ASSUME TInv, PreStart, [Next]_vars,
                    phase' \in {"init", "constructed"}
             PROVE  /\ loops' = {} /\ produced' = 0 /\ aggPc' = "produce"
                    /\ headerCh' = << >> /\ blockCh' = << >>
                    /\ hStore' = << >> /\ bStore' = << >>
  BY DEF PreStart
<1>1. phase \in {"init", "constructed"}
  BY DEF Next, Progress, NewFullNode, NewFullNodeFail, OnStart, OnStartFail,
         Cancel, OnStop, AggProduce, AggSendHeader, AggSendBlock,
         HeaderPublish, HeaderPublishFail, HeaderPublishExit, BlockPublish,
         BlockPublishFail, BlockPublishExit, LoopExit, vars
<1>2. loops = {} /\ produced = 0 /\ aggPc = "produce"
      /\ headerCh = << >> /\ blockCh = << >> /\ hStore = << >> /\ bStore = << >>
  BY <1>1 DEF PreStart
<1>3. QED
  BY <1>2 DEF Next, Progress, NewFullNode, NewFullNodeFail, OnStart,
         OnStartFail, Cancel, OnStop, AggProduce, AggSendHeader, AggSendBlock,
         HeaderPublish, HeaderPublishFail, HeaderPublishExit, BlockPublish,
         BlockPublishFail, BlockPublishExit, LoopExit, vars

(* The header flow is kept by every step: the aggregation loop appends     *)
(* the next height, headerPublishLoop moves the oldest one to the store,    *)
(* and a failed write stops the loop before anything else is stored.       *)
LEMMA FlowHStep ==
  ASSUME TInv, PreStart, Flow(hStore, headerCh, SentH, "headerPublish" \in loops),
         [Next]_vars
  PROVE  Flow(hStore, headerCh, SentH, "headerPublish" \in loops)'
<1>0. TypeOK /\ (aggPc # "produce" => produced >= 1)
  BY DEF TInv
<1>1. CASE UNCHANGED <<loops, aggPc, produced, headerCh, hStore>>
  BY <1>1 DEF SentH
<1>2. CASE OnStart
  <2>1. headerCh = << >> /\ hStore = << >> /\ produced = 0 /\ aggPc = "produce"
    BY <1>2 DEF OnStart, PreStart
  <2>2. headerCh' = << >> /\ hStore' = << >> /\ produced' = 0 /\ aggPc' = "produce"
    BY <1>2, <2>1 DEF OnStart
  <2>3. QED
    BY <2>2 DEF Flow, SentH
<1>3. CASE AggProduce
  <2>1. SentH' = SentH
    BY <1>0, <1>3, SMTT(30) DEF AggProduce, SentH, TypeOK
  <2>2. QED
    BY <1>3, <2>1 DEF AggProduce
<1>4. CASE AggSendHeader
  <2>1. SentH = produced - 1 /\ SentH' = produced
    BY <1>4 DEF AggSendHeader, SentH
  <2>2. produced - 1 \in Nat /\ produced \in 1..MaxBlocks
    BY <1>0, <1>4, SMTT(30) DEF AggSendHeader, TypeOK
  <2>3. UNCHANGED <<loops, hStore>> /\ headerCh' = Append(headerCh, produced)
    BY <1>4 DEF AggSendHeader
  <2>4. CASE "headerPublish" \in loops
    <3>0. Flow(hStore, headerCh, produced - 1, TRUE)
      BY <2>1, <2>4, FlowOff
    <3>2. (produced - 1) + 1 = produced
      BY <2>2, SMTT(30)
    <3>3. /\ hStore \in Seq(1..MaxBlocks) /\ headerCh \in Seq(1..MaxBlocks)
          /\ Len(headerCh) < ChanCap /\ (produced - 1) + 1 \in 1..MaxBlocks
      BY <1>0, <1>4, <2>2, <3>2 DEF AggSendHeader, TypeOK
    <3>1. Flow(hStore, Append(headerCh, (produced - 1) + 1), (produced - 1) + 1, TRUE)
      BY <2>2, <3>0, <3>3, FlowSend, Zenon
    <3>4. QED
      BY <3>1, <3>2, <2>1, <2>3, <2>4
  <2>5. CASE ~("headerPublish" \in loops)
    <3>1. Flow(hStore, headerCh', SentH', FALSE)
      BY FlowStopped
    <3>2. QED
      BY <2>3, <2>5, <3>1 DEF Flow
  <2>6. QED
    BY <2>4, <2>5
<1>5. CASE AggSendBlock
  <2>1. SentH' = SentH
    BY <1>5 DEF AggSendBlock, SentH
  <2>2. QED
    BY <1>5, <2>1 DEF AggSendBlock
<1>6. CASE HeaderPublish
  <2>1. "headerPublish" \in loops /\ headerCh # << >> /\ SentH' = SentH /\ UNCHANGED loops
        /\ hStore' = Append(hStore, Head(headerCh)) /\ headerCh' = Tail(headerCh)
    BY <1>6 DEF HeaderPublish, SentH
  <2>2. Flow(Append(hStore, Head(headerCh)), Tail(headerCh), SentH, TRUE)
    <3>1. SentH \in Nat
      BY <1>0, SMTT(30) DEF SentH, TypeOK
    <3>2. Flow(hStore, headerCh, SentH, TRUE)
      BY <2>1, FlowOff
    <3>3. QED
      BY <1>0, <2>1, <3>1, <3>2, FlowRecv DEF TypeOK
  <2>3. QED
    BY <2>1, <2>2
<1>7. CASE HeaderPublishFail
  <2>1. ~("headerPublish" \in loops') /\ UNCHANGED hStore
    BY <1>7 DEF HeaderPublishFail
  <2>2. Flow(hStore, headerCh', SentH', FALSE)
    BY FlowStopped
  <2>3. QED
    BY <2>1, <2>2 DEF Flow
<1>8. CASE \/ HeaderPublishExit \/ BlockPublishExit \/ BlockPublishFail
           \/ \E l \in OtherLoops : LoopExit(l)
  <2>1. loops' \subseteq loops /\ UNCHANGED <<aggPc, produced, headerCh, hStore>>
    BY <1>8 DEF HeaderPublishExit, BlockPublishExit, BlockPublishFail, LoopExit
  <2>2. SentH' = SentH
    BY <2>1 DEF SentH
  <2>3. QED
    BY <2>1, <2>2, FlowOff
<1>9. QED
  BY <1>1, <1>2, <1>3, <1>4, <1>5, <1>6, <1>7, <1>8
     DEF Next, Progress, vars, NewFullNode, NewFullNodeFail, OnStartFail,
         Cancel, OnStop, BlockPublish

(* The block flow is kept by every step, as the header flow is.            *)
LEMMA FlowBStep ==
  ASSUME TInv, PreStart, Flow(bStore, blockCh, SentB, "blockPublish" \in loops),
         [Next]_vars
  PROVE  Flow(bStore, blockCh, SentB, "blockPublish" \in loops)'
<1>0. TypeOK /\ (aggPc # "produce" => produced >= 1)
  BY DEF TInv
<1>1. CASE UNCHANGED <<loops, aggPc, produced, blockCh, bStore>>
  BY <1>1 DEF SentB
<1>2. CASE OnStart
  <2>1. blockCh = << >> /\ bStore = << >> /\ produced = 0 /\ aggPc = "produce"
    BY <1>2 DEF OnStart, PreStart
  <2>2. blockCh' = << >> /\ bStore' = << >> /\ produced' = 0 /\ aggPc' = "produce"
    BY <1>2, <2>1 DEF OnStart
  <2>3. QED
    BY <2>2 DEF Flow, SentB
<1>3. CASE AggProduce
  <2>1. SentB' = SentB
    BY <1>0, <1>3, SMTT(30) DEF AggProduce, SentB, TypeOK
  <2>2. QED
    BY <1>3, <2>1 DEF AggProduce
<1>4. CASE AggSendHeader
  <2>1. SentB' = SentB
    BY <1>4 DEF AggSendHeader, SentB
  <2>2. QED
    BY <1>4, <2>1 DEF AggSendHeader
<1>5. CASE AggSendBlock
  <2>1. SentB = produced - 1 /\ SentB' = produced
    BY <1>5 DEF AggSendBlock, SentB
  <2>2. produced - 1 \in Nat /\ produced \in 1..MaxBlocks
    BY <1>0, <1>5, SMTT(30) DEF AggSendBlock, TypeOK
  <2>3. UNCHANGED <<loops, bStore>> /\ blockCh' = Append(blockCh, produced)
    BY <1>5 DEF AggSendBlock
  <2>4. CASE "blockPublish" \in loops
    <3>0. Flow(bStore, blockCh, produced - 1, TRUE)
      BY <2>1, <2>4, FlowOff
    <3>2. (produced - 1) + 1 = produced
      BY <2>2, SMTT(30)
    <3>3. /\ bStore \in Seq(1..MaxBlocks) /\ blockCh \in Seq(1..MaxBlocks)
          /\ Len(blockCh) < ChanCap /\ (produced - 1) + 1 \in 1..MaxBlocks
      BY <1>0, <1>5, <2>2, <3>2 DEF AggSendBlock, TypeOK
    <3>1. Flow(bStore, Append(blockCh, (produced - 1) + 1), (produced - 1) + 1, TRUE)
      BY <2>2, <3>0, <3>3, FlowSend, Zenon
    <3>4. QED
      BY <3>1, <3>2, <2>1, <2>3, <2>4
  <2>5. CASE ~("blockPublish" \in loops)
    <3>1. Flow(bStore, blockCh', SentB', FALSE)
      BY FlowStopped
    <3>2. QED
      BY <2>3, <2>5, <3>1 DEF Flow
  <2>6. QED
    BY <2>4, <2>5
<1>6. CASE BlockPublish
  <2>1. "blockPublish" \in loops /\ blockCh # << >> /\ SentB' = SentB
        /\ UNCHANGED loops
        /\ bStore' = Append(bStore, Head(blockCh)) /\ blockCh' = Tail(blockCh)
    BY <1>6 DEF BlockPublish, SentB
  <2>2. Flow(Append(bStore, Head(blockCh)), Tail(blockCh), SentB, TRUE)
    <3>1. SentB \in Nat
      BY <1>0, SMTT(30) DEF SentB, TypeOK
    <3>2. Flow(bStore, blockCh, SentB, TRUE)
      BY <2>1, FlowOff
    <3>3. QED
      BY <1>0, <2>1, <3>1, <3>2, FlowRecv DEF TypeOK
  <2>3. QED
    BY <2>1, <2>2
<1>7. CASE BlockPublishFail
  <2>1. ~("blockPublish" \in loops') /\ UNCHANGED bStore
    BY <1>7 DEF BlockPublishFail
  <2>2. Flow(bStore, blockCh', SentB', FALSE)
    BY FlowStopped
  <2>3. QED
    BY <2>1, <2>2 DEF Flow
<1>8. CASE \/ HeaderPublishExit \/ BlockPublishExit \/ HeaderPublishFail
           \/ \E l \in OtherLoops : LoopExit(l)
  <2>1. loops' \subseteq loops /\ UNCHANGED <<aggPc, produced, blockCh, bStore>>
    BY <1>8 DEF HeaderPublishExit, BlockPublishExit, HeaderPublishFail, LoopExit
  <2>2. SentB' = SentB
    BY <2>1 DEF SentB
  <2>3. QED
    BY <2>1, <2>2, FlowOff
<1>9. QED
  BY <1>1, <1>2, <1>3, <1>4, <1>5, <1>6, <1>7, <1>8
     DEF Next, Progress, vars, NewFullNode, NewFullNodeFail, OnStartFail,
         Cancel, OnStop, HeaderPublish

(* SInv is inductive.                                                      *)
LEMMA SInvStep == SInv /\ [Next]_vars => SInv'
<1> SUFFICES ASSUME SInv, [Next]_vars PROVE SInv'
  OBVIOUS
<1>1. TInv /\ PreStart
      /\ Flow(hStore, headerCh, SentH, "headerPublish" \in loops)
      /\ Flow(bStore, blockCh, SentB, "blockPublish" \in loops)
  BY DEF SInv
<1>2. TInv'
  BY <1>1, TypeStep
<1>3. PreStart'
  BY <1>1, PreStartStep
<1>4. Flow(hStore, headerCh, SentH, "headerPublish" \in loops)'
  BY <1>1, FlowHStep
<1>5. Flow(bStore, blockCh, SentB, "blockPublish" \in loops)'
  BY <1>1, FlowBStep
<1>6. QED
  BY <1>2, <1>3, <1>4, <1>5 DEF SInv

(* The initial state satisfies SInv: nothing runs and everything is empty. *)
LEMMA InitSInv == Init => SInv
<1> SUFFICES ASSUME Init PROVE SInv
  OBVIOUS
<1>1. TInv
  BY EmptySeq, SMTT(30) DEF Init, TInv, TypeOK, Phases, Services
<1>2. PreStart /\ Flow(hStore, headerCh, SentH, "headerPublish" \in loops)
      /\ Flow(bStore, blockCh, SentB, "blockPublish" \in loops)
  BY DEF Init, PreStart, Flow, SentH, SentB
<1>3. QED
  BY <1>1, <1>2 DEF SInv

(* The header store and the block store each hold the heights 1, 2, ...    *)
(* in order, in every reachable state of the node: the publish loops of    *)
(* full.go never store a header or a block out of order or with a gap,     *)
(* even when a write fails and the loop gives up.                          *)
THEOREM StoresInOrderInvariant == Spec => []StoresInOrder
<1>1. Init => SInv
  BY InitSInv
<1>2. SInv => StoresInOrder
  BY DEF SInv, Flow, StoresInOrder
<1>3. QED
  BY <1>1, <1>2, SInvStep, PTL DEF Spec

(* SInv bounds how far the aggregation loop runs ahead of a running       *)
(* publish loop: what it sent is in the store or in the channel.           *)
LEMMA SInvLag == SInv => BoundedLag
<1> SUFFICES ASSUME SInv PROVE BoundedLag
  OBVIOUS
<1>1. TypeOK /\ Len(headerCh) <= ChanCap /\ Len(blockCh) <= ChanCap
      /\ produced \in Nat /\ Len(hStore) \in Nat /\ Len(bStore) \in Nat
      /\ Len(headerCh) \in Nat /\ Len(blockCh) \in Nat
  BY DEF SInv, TInv, TypeOK
<1>2. SentH >= produced - 1 /\ SentB >= produced - 1
  BY <1>1, SMTT(30) DEF SentH, SentB
<1>3. "headerPublish" \in loops => Len(hStore) + Len(headerCh) = SentH
  BY DEF SInv, Flow
<1>4. "blockPublish" \in loops => Len(bStore) + Len(blockCh) = SentB
  BY DEF SInv, Flow
<1>5. QED
  BY <1>1, <1>2, <1>3, <1>4, SMTT(30) DEF BoundedLag

(* However the store writes, the cancellation and the failures of the     *)
(* publish loops interleave with the aggregation loop, a running publish  *)
(* loop of full.go is never more than ChanCap + 1 blocks behind block     *)
(* production: the bounded HeaderCh and BlockCh hold the producer back.   *)
THEOREM BoundedLagInvariant == Spec => []BoundedLag
<1>1. Init => SInv
  BY InitSInv
<1>2. QED
  BY <1>1, SInvLag, SInvStep, PTL DEF Spec

=============================================================================
