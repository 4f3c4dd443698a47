------------------------- MODULE GenesisChunksProofs -------------------------
(***************************************************************************)
(* Proof that initGenesisChunks is correct when nothing runs it twice at   *)
(* once: for every chunk size and every length of the genesis JSON, a      *)
(* single caller of GetGenesisChunks only ever gets back the whole         *)
(* document, cut in order.  GenesisChunks_race shows the same property     *)
(* fails for two concurrent callers.                                       *)
(***************************************************************************)
EXTENDS GenesisChunks, SequenceTheorems, TLAPS

(* One goroutine calls GetGenesisChunks; the chunk size is positive and    *)
(* the JSON has a length.                                                  *)
Hyps ==
  /\ \A c, d \in Callers : c = d
  /\ ChunkSize \in Nat \ {0}
  /\ DataLen \in Nat
  /\ MaxCalls \in Nat

(* Where the loop of initGenesisChunks continues: the offset after the     *)
(* last chunk cut so far.                                                  *)
NextLo(g) == IF Len(g) = 0 THEN 0 ELSE g[Len(g)].lo + ChunkSize

(* g is the chunks the loop has cut so far: each starts before len(data), *)
(* right after the one before it, and is ChunkAt of its start.             *)
Cut(g) ==
  \A j \in 1..Len(g) :
    /\ g[j] = ChunkAt(g[j].lo)
    /\ g[j].lo < DataLen
    /\ j = 1 => g[j].lo = 0
    /\ j > 1 => g[j].lo = g[j - 1].lo + ChunkSize

(* What caller c's place in the code says about the cache and its result. *)
CallerInv(c) ==
  /\ pc[c] \in {"loop", "append"} =>
       Genesis = "doc" /\ Cut(genChunks) /\ i[c] = NextLo(genChunks)
  /\ pc[c] = "append" => local[c] = genChunks /\ i[c] < DataLen
  /\ pc[c] = "ret" /\ Genesis = "doc" => TilesUpTo(genChunks, DataLen)
  /\ pc[c] \in {"idle", "check", "done"} /\ genChunks # << >>
       => TilesUpTo(genChunks, DataLen)
  /\ pc[c] = "done" /\ result[c].err = "nil" /\ Genesis = "doc"
       => TilesUpTo(result[c].chunks, DataLen)

(* The inductive invariant: the cache stays nil without a marshallable     *)
(* genesis, and every caller's CallerInv holds.                            *)
IInv ==
  /\ TypeOK
  /\ Genesis # "doc" => genChunks = << >>
  /\ \A c \in Callers : CallerInv(c)

-----------------------------------------------------------------------------
(* Facts about the chunks the loop cuts.                                   *)

(* The chunk at an offset is a byte range. *)
LEMMA ChunkAtType ==
  ASSUME Hyps, NEW k \in Nat
  PROVE  ChunkAt(k) \in Chunk
BY DEF Hyps, ChunkAt, Chunk

(* Once the loop's offset reaches len(data), what it has cut tiles the *)
(* whole JSON. *)
LEMMA CutTiles ==
  ASSUME Hyps, NEW g \in Seq(Chunk), Cut(g), NextLo(g) >= DataLen
  PROVE  TilesUpTo(g, DataLen)
<1> USE DEF Hyps
<1>0. Len(g) \in Nat /\ \A j \in 1..Len(g) : g[j].lo \in Nat /\ g[j].hi \in Nat
  <2>1. \A j \in 1..Len(g) : g[j] \in Chunk
    BY ElementOfSeq
  <2>2. QED
    BY <2>1, LenProperties DEF Chunk
<1>1. Len(g) = 0 => DataLen = 0
  BY DEF NextLo
<1>2. Len(g) > 0 => g[1].lo = 0 /\ g[Len(g)].hi = DataLen
  <2> SUFFICES ASSUME Len(g) > 0 PROVE g[1].lo = 0 /\ g[Len(g)].hi = DataLen
    OBVIOUS
  <2>1. g[1].lo = 0
    BY DEF Cut
  <2>2. g[Len(g)] = ChunkAt(g[Len(g)].lo) /\ g[Len(g)].lo + ChunkSize >= DataLen
        /\ g[Len(g)].lo < DataLen
    BY <1>0 DEF Cut, NextLo
  <2>3. QED
    BY <2>1, <2>2, <1>0 DEF ChunkAt
<1>3. ASSUME NEW j \in 1..(Len(g) - 1)
      PROVE  g[j].hi = g[j + 1].lo /\ g[j].hi - g[j].lo = ChunkSize
  <2>1. g[j + 1].lo = g[j].lo + ChunkSize /\ g[j + 1].lo < DataLen
    BY DEF Cut
  <2>2. g[j] = ChunkAt(g[j].lo) /\ g[j].lo \in Nat
    BY <1>0 DEF Cut
  <2>3. QED
    BY <2>1, <2>2 DEF ChunkAt
<1>4. ASSUME NEW j \in 1..Len(g)
      PROVE  g[j].lo < g[j].hi /\ g[j].hi - g[j].lo <= ChunkSize
  <2>1. g[j] = ChunkAt(g[j].lo) /\ g[j].lo < DataLen /\ g[j].lo \in Nat
    BY <1>0 DEF Cut
  <2>2. QED
    BY <2>1 DEF ChunkAt
<1>5. QED
  BY <1>1, <1>2, <1>3, <1>4 DEF TilesUpTo

(* The loop body cuts the chunk at NextLo and moves on by ChunkSize. *)
LEMMA CutAppend ==
  ASSUME Hyps, NEW g \in Seq(Chunk), Cut(g), NextLo(g) < DataLen
  PROVE  LET h == Append(g, ChunkAt(NextLo(g)))
         IN  /\ h \in Seq(Chunk)
             /\ Cut(h)
             /\ NextLo(h) = NextLo(g) + ChunkSize
<1> USE DEF Hyps
<1> DEFINE k == NextLo(g)
           h == Append(g, ChunkAt(k))
<1>1. k \in Nat
  <2>1. Len(g) > 0 => g[Len(g)].lo \in Nat
    <3>1. Len(g) > 0 => g[Len(g)] \in Chunk
      BY LenProperties, ElementOfSeq
    <3>2. QED
      BY <3>1 DEF Chunk
  <2>2. QED
    BY <2>1, LenProperties DEF NextLo
<1>2. h \in Seq(Chunk) /\ Len(h) = Len(g) + 1
      /\ h[Len(g) + 1] = ChunkAt(k)
      /\ \A j \in 1..Len(g) : h[j] = g[j]
  BY <1>1, ChunkAtType, AppendProperties
<1>3. ChunkAt(k).lo = k
  BY DEF ChunkAt
<1>4. ASSUME NEW j \in 1..Len(h)
      PROVE  /\ h[j] = ChunkAt(h[j].lo)
             /\ h[j].lo < DataLen
             /\ j = 1 => h[j].lo = 0
             /\ j > 1 => h[j].lo = h[j - 1].lo + ChunkSize
  <2>1. CASE j \in 1..Len(g)
    BY <2>1, <1>2 DEF Cut
  <2>2. CASE j = Len(g) + 1
    BY <2>2, <1>2, <1>3 DEF NextLo
  <2>3. QED
    BY <2>1, <2>2, <1>2
<1>5. NextLo(h) = k + ChunkSize
  BY <1>2, <1>3 DEF NextLo
<1>6. QED
  BY <1>2, <1>4, <1>5 DEF Cut

-----------------------------------------------------------------------------
(* The invariant is inductive for a single caller.                         *)

(* The initial state satisfies the invariant. *)
LEMMA InitIInv ==
  ASSUME Hyps
  PROVE  Init => IInv
BY DEF Hyps, Init, IInv, TypeOK, CallerInv, Ok, Chunk

(* For one caller, the invariant follows from the cache and that caller's *)
(* CallerInv. *)
LEMMA OneCaller ==
  ASSUME Hyps, NEW d \in Callers,
         TypeOK', (Genesis # "doc" => genChunks' = << >>), CallerInv(d)'
  PROVE  IInv'
BY Zenon DEF Hyps, IInv

(* Every step keeps the invariant. *)
LEMMA IInvStep ==
  ASSUME Hyps
  PROVE  IInv /\ [Next]_vars => IInv'
<1> SUFFICES ASSUME IInv, [Next]_vars PROVE IInv'
  OBVIOUS
<1> USE DEF Hyps
<1>0. TypeOK
  BY DEF IInv
<1>1. CASE UNCHANGED vars
  BY <1>1 DEF vars, IInv, TypeOK, CallerInv
<1>2. ASSUME NEW d \in Callers, Call(d) PROVE IInv'
  <2>1. CallerInv(d) BY DEF IInv
  <2>2. TypeOK' BY <1>0, <1>2 DEF Call, TypeOK
  <2>3. CallerInv(d)' BY <1>2, <2>1 DEF Call, CallerInv
  <2>4. QED BY <1>2, <2>2, <2>3, OneCaller DEF Call, IInv
<1>3. ASSUME NEW d \in Callers, InitSkip(d) PROVE IInv'
  <2>1. CallerInv(d) BY DEF IInv
  <2>2. TypeOK' BY <1>0, <1>3 DEF InitSkip, TypeOK
  <2>3. CallerInv(d)' BY <1>3, <2>1 DEF InitSkip, CallerInv
  <2>4. QED BY <1>3, <2>2, <2>3, OneCaller DEF InitSkip, IInv
<1>4. ASSUME NEW d \in Callers, MarshalFail(d) PROVE IInv'
  <2>1. CallerInv(d) BY DEF IInv
  <2>2. TypeOK' BY <1>0, <1>4 DEF MarshalFail, TypeOK, Failed
  <2>3. CallerInv(d)' BY <1>4, <2>1 DEF MarshalFail, CallerInv, Failed
  <2>4. QED BY <1>4, <2>2, <2>3, OneCaller DEF MarshalFail, IInv
<1>5. ASSUME NEW d \in Callers, MarshalOK(d) PROVE IInv'
  <2>1. CallerInv(d) BY DEF IInv
  <2>2. TypeOK' BY <1>0, <1>5 DEF MarshalOK, TypeOK
  <2>3. Cut(<< >>) /\ NextLo(<< >>) = 0
    BY DEF Cut, NextLo
  <2>4. CallerInv(d)' BY <1>0, <1>5, <2>1, <2>3 DEF MarshalOK, CallerInv, TypeOK
  <2>5. QED BY <1>5, <2>2, <2>4, OneCaller DEF MarshalOK, IInv
<1>6. ASSUME NEW d \in Callers, LoadChunks(d) PROVE IInv'
  <2>1. CallerInv(d) BY DEF IInv
  <2>2. TypeOK' BY <1>0, <1>6 DEF LoadChunks, TypeOK
  <2>3. CallerInv(d)' BY <1>0, <1>6, <2>1 DEF LoadChunks, CallerInv, TypeOK
  <2>4. QED BY <1>6, <2>2, <2>3, OneCaller DEF LoadChunks, IInv
<1>7. ASSUME NEW d \in Callers, StoreChunk(d) PROVE IInv'
  <2>1. CallerInv(d) BY DEF IInv
  <2>2. /\ Genesis = "doc" /\ Cut(genChunks) /\ i[d] = NextLo(genChunks)
        /\ local[d] = genChunks /\ i[d] < DataLen
    BY <1>7, <2>1 DEF StoreChunk, CallerInv
  <2>3. /\ genChunks' \in Seq(Chunk) /\ Cut(genChunks')
        /\ NextLo(genChunks') = i[d] + ChunkSize
    BY <1>0, <1>7, <2>2, CutAppend DEF StoreChunk, TypeOK
  <2>4. TypeOK' BY <1>0, <1>7, <2>3 DEF StoreChunk, TypeOK
  <2>5. CallerInv(d)' BY <1>0, <1>7, <2>2, <2>3 DEF StoreChunk, CallerInv, TypeOK
  <2>6. QED BY <1>7, <2>2, <2>4, <2>5, OneCaller
<1>8. ASSUME NEW d \in Callers, LoopEnd(d) PROVE IInv'
  <2>1. CallerInv(d) BY DEF IInv
  <2>2. Genesis = "doc" /\ Cut(genChunks) /\ NextLo(genChunks) >= DataLen
    BY <1>8, <2>1 DEF LoopEnd, CallerInv
  <2>3. TilesUpTo(genChunks, DataLen)
    BY <1>0, <2>2, CutTiles DEF TypeOK
  <2>4. TypeOK' BY <1>0, <1>8 DEF LoopEnd, TypeOK
  <2>5. CallerInv(d)' BY <1>0, <1>8, <2>3 DEF LoopEnd, CallerInv, TypeOK
  <2>6. QED BY <1>8, <2>4, <2>5, OneCaller DEF LoopEnd, IInv
<1>9. ASSUME NEW d \in Callers, Return(d) PROVE IInv'
  <2>1. CallerInv(d) BY DEF IInv
  <2>2. Genesis # "doc" => genChunks = << >>
    BY DEF IInv
  <2>3. TypeOK' BY <1>0, <1>9 DEF Return, TypeOK, Ok
  <2>4. CallerInv(d)' BY <1>0, <1>9, <2>1, <2>2 DEF Return, CallerInv, Ok, TypeOK
  <2>5. QED BY <1>9, <2>3, <2>4, OneCaller DEF Return, IInv
<1>10. QED
  BY <1>1, <1>2, <1>3, <1>4, <1>5, <1>6, <1>7, <1>8, <1>9 DEF Next

(* GetGenesisChunks is correct when a single goroutine calls it: whatever  *)
(* it returns without an error is the whole genesis JSON, cut in order.    *)
THEOREM SingleCallerChunksTile ==
  ASSUME Hyps
  PROVE  Spec => []ChunksTileGenesis
<1>1. Init => IInv
  BY InitIInv
<1>2. IInv /\ [Next]_vars => IInv'
  BY IInvStep
<1>3. IInv => ChunksTileGenesis
  BY DEF IInv, CallerInv, ChunksTileGenesis
<1>4. QED
  BY <1>1, <1>2, <1>3, PTL DEF Spec

=============================================================================
