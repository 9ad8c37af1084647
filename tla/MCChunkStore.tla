---- MODULE MCChunkStore ----
(* Instances of ChunkStore for TLC: puts are small numbers, gets model values. *)
EXTENDS ChunkStore

\* Every chunk of every file has bytes.
AllFilled == [p \in Puts \cup Earlier |-> N]

\* The file of the put named 2 is a short one, whose last chunk has no bytes.
SecondShort == [p \in Puts \cup Earlier |-> IF p = 2 THEN N - 1 ELSE N]
====
