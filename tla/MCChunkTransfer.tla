---- MODULE MCChunkTransfer ----
(* Instances of ChunkTransfer for TLC. *)
EXTENDS ChunkTransfer

\* A chunk of more than two buffers, and ones that fit beside the header or do not.
TwoChunks == {<<9, 2>>}

\* The same around a chunk of one byte; chunks without bytes first, between others and
\* two in a row (the last two of a file of 4 bytes on 4 servers are, Partition);
\* and only chunks that go out with their header in one batch.
SomeChunks == {<<9, 1, 2>>, <<2, 0, 1>>, <<0, 5, 0, 0, 4>>, <<1, 1, 1>>}
====
