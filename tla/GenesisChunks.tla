---------------------------- MODULE GenesisChunks ----------------------------
(***************************************************************************)
(* FullNode.GetGenesisChunks and initGenesisChunks (node/full.go): the     *)
(* genesis document is marshalled to JSON once and cut into chunks of at   *)
(* most genesisChunkSize bytes, which are cached in n.genChunks.  Callers   *)
(* are the RPC handlers that serve the chunked genesis; nothing serialises  *)
(* them, and the cache is read and appended to without a lock.             *)
(*                                                                         *)
(* A chunk is the byte range [lo, hi) of the JSON it carries: base64 is    *)
(* injective, so two chunks are equal exactly when their ranges are.  The  *)
(* append to n.genChunks is a load of the slice and a store of the grown   *)
(* slice, two steps; this is one of the outcomes the data race of two      *)
(* concurrent appends can have (lost and repeated chunks).                 *)
(***************************************************************************)
EXTENDS Naturals, Sequences

CONSTANTS
  Callers,      \* goroutines calling GetGenesisChunks
  ChunkSize,    \* genesisChunkSize
  DataLen,      \* len(json.Marshal(n.genesis))
  Genesis,      \* n.genesis: "nil", "doc", or "unmarshalable" (json.Marshal fails)
  MaxCalls      \* calls of GetGenesisChunks per caller

VARIABLES
  genChunks,    \* n.genChunks, a sequence of byte ranges; << >> is nil
  pc,           \* pc[c]: where caller c is
  i,            \* i[c]: the loop index of initGenesisChunks
  local,        \* local[c]: n.genChunks as loaded by the append of caller c
  result,       \* result[c]: what GetGenesisChunks returned to c: chunks and error
  calls         \* calls[c]: calls of caller c so far

vars == <<genChunks, pc, i, local, result, calls>>

Chunk == [lo : Nat, hi : Nat]

(* The two results of GetGenesisChunks: the chunks with a nil error, or    *)
(* nil with the error of json.Marshal.                                     *)
Ok(g) == [err |-> "nil", chunks |-> g]
Failed == [err |-> "marshal", chunks |-> << >>]

(* The chunk the loop cuts at offset k: end := k + genesisChunkSize,        *)
(* clamped to len(data).                                                    *)
ChunkAt(k) == [lo |-> k, hi |-> IF k + ChunkSize > DataLen THEN DataLen ELSE k + ChunkSize]

-----------------------------------------------------------------------------
Init ==
  /\ genChunks = << >>
  /\ pc = [c \in Callers |-> "idle"]
  /\ i = [c \in Callers |-> 0]
  /\ local = [c \in Callers |-> << >>]
  /\ result = [c \in Callers |-> Ok(<< >>)]
  /\ calls = [c \in Callers |-> 0]

(* An RPC handler calls GetGenesisChunks.                                   *)
Call(c) ==
  /\ pc[c] \in {"idle", "done"} /\ calls[c] < MaxCalls
  /\ pc' = [pc EXCEPT ![c] = "check"]
  /\ calls' = [calls EXCEPT ![c] = calls[c] + 1]
  /\ UNCHANGED <<genChunks, i, local, result>>

(* The cache is filled, or there is no genesis: nothing to do.             *)
InitSkip(c) ==
  /\ pc[c] = "check"
  /\ genChunks # << >> \/ Genesis = "nil"
  /\ pc' = [pc EXCEPT ![c] = "ret"]
  /\ UNCHANGED <<genChunks, i, local, result, calls>>

(* json.Marshal fails: GetGenesisChunks returns nil and the error.          *)
MarshalFail(c) ==
  /\ pc[c] = "check"
  /\ genChunks = << >> /\ Genesis = "unmarshalable"
  /\ pc' = [pc EXCEPT ![c] = "done"]
  /\ result' = [result EXCEPT ![c] = Failed]
  /\ UNCHANGED <<genChunks, i, local, calls>>

(* json.Marshal succeeds: the chunking loop starts at i := 0.               *)
MarshalOK(c) ==
  /\ pc[c] = "check"
  /\ genChunks = << >> /\ Genesis = "doc"
  /\ pc' = [pc EXCEPT ![c] = "loop"]
  /\ i' = [i EXCEPT ![c] = 0]
  /\ UNCHANGED <<genChunks, local, result, calls>>

(* i < len(data): append(n.genChunks, ...) loads the cached slice.          *)
LoadChunks(c) ==
  /\ pc[c] = "loop" /\ i[c] < DataLen
  /\ local' = [local EXCEPT ![c] = genChunks]
  /\ pc' = [pc EXCEPT ![c] = "append"]
  /\ UNCHANGED <<genChunks, i, result, calls>>

(* ... and stores it grown by the chunk at i; then i += genesisChunkSize.   *)
StoreChunk(c) ==
  /\ pc[c] = "append"
  /\ genChunks' = Append(local[c], ChunkAt(i[c]))
  /\ i' = [i EXCEPT ![c] = i[c] + ChunkSize]
  /\ pc' = [pc EXCEPT ![c] = "loop"]
  /\ UNCHANGED <<local, result, calls>>

(* i >= len(data): initGenesisChunks returns nil.                           *)
LoopEnd(c) ==
  /\ pc[c] = "loop" /\ i[c] >= DataLen
  /\ pc' = [pc EXCEPT ![c] = "ret"]
  /\ UNCHANGED <<genChunks, i, local, result, calls>>

(* GetGenesisChunks returns n.genChunks as it reads it now.                 *)
Return(c) ==
  /\ pc[c] = "ret"
  /\ result' = [result EXCEPT ![c] = Ok(genChunks)]
  /\ pc' = [pc EXCEPT ![c] = "done"]
  /\ UNCHANGED <<genChunks, i, local, calls>>

Next ==
  \E c \in Callers :
    \/ Call(c) \/ InitSkip(c) \/ MarshalFail(c) \/ MarshalOK(c)
    \/ LoadChunks(c) \/ StoreChunk(c) \/ LoopEnd(c) \/ Return(c)

Spec == Init /\ [][Next]_vars

-----------------------------------------------------------------------------
(* The chunks g cut the bytes [0, m) into consecutive, non-empty ranges,   *)
(* each of genesisChunkSize bytes but the last, which may be shorter.       *)
TilesUpTo(g, m) ==
  /\ Len(g) = 0 => m = 0
  /\ Len(g) > 0 => g[1].lo = 0 /\ g[Len(g)].hi = m
  /\ \A j \in 1..(Len(g) - 1) : g[j].hi = g[j + 1].lo /\ g[j].hi - g[j].lo = ChunkSize
  /\ \A j \in 1..Len(g) : g[j].lo < g[j].hi /\ g[j].hi - g[j].lo <= ChunkSize

(* Every variable has its type.                                             *)
TypeOK ==
  /\ genChunks \in Seq(Chunk)
  /\ pc \in [Callers -> {"idle", "check", "loop", "append", "ret", "done"}]
  /\ i \in [Callers -> Nat]
  /\ local \in [Callers -> Seq(Chunk)]
  /\ result \in [Callers -> [err : {"nil", "marshal"}, chunks : Seq(Chunk)]]
  /\ calls \in [Callers -> 0..MaxCalls]

(* Whatever GetGenesisChunks returns without an error is the whole genesis  *)
(* document, cut in order into chunks of genesisChunkSize bytes (the last   *)
(* one shorter), each exactly once: the chunked genesis API serves a        *)
(* document that reassembles to the genesis.                                *)
ChunksTileGenesis ==
  \A c \in Callers :
    pc[c] = "done" /\ result[c].err = "nil" /\ Genesis = "doc"
      => TilesUpTo(result[c].chunks, DataLen)

=============================================================================
