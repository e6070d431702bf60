--------------------------- MODULE MCProcessMemory --------------------------
(* ProcessMemory on a small address space: every chunk, and every pair.     *)
EXTENDS ProcessMemory

AllChunks == {c \in MemChunk : c.low <= c.high}
MCChunkLists == {<<c>> : c \in AllChunks} \cup (AllChunks \X AllChunks)
=============================================================================
