\* Two RPC handlers calling GetGenesisChunks at once on a fresh node; the
\* genesis JSON is three bytes and a chunk two.
CONSTANTS
  Callers = {h1, h2}
  ChunkSize = 2
  DataLen = 3
  Genesis = "doc"
  MaxCalls = 1
SPECIFICATION Spec
INVARIANT ChunksTileGenesis
