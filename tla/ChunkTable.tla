----------------------------- MODULE ChunkTable -----------------------------
(***************************************************************************)
(* The client's table of the chunks of one file (chunk-record.c): a        *)
(* function from stamp and chunk to the server that reported it.           *)
(* chunk_table_create is the empty function.                               *)
(***************************************************************************)
EXTENDS Placement, Sequences, FiniteSetsExt

CONSTANT None    \* no chunk, no set of chunks

\* chunk_table_add, for all the chunks of one answer: the last server that
\* reports a chunk is the one that will be asked for it.
AddToTable(t, files, s) ==
  [f \in DOMAIN t \cup files |-> IF f \in files THEN s ELSE t[f]]

MutantValidSets(t) == {f[1] : f \in {e \in DOMAIN t : \E c \in Chunks : <<e[1], c>> \in DOMAIN t}}

\* The stamps of which the table has all the chunks.
ValidSets(t) == {f[1] : f \in {e \in DOMAIN t : \A c \in Chunks : <<e[1], c>> \in DOMAIN t}}

MutantFindLatestValidSet(t) ==
  IF ValidSets(t) = {} THEN None ELSE Min(ValidSets(t))

\* The sets are sorted by stamp, the highest first; the first valid one is taken.
FindLatestValidSet(t) ==
  IF ValidSets(t) = {} THEN None ELSE Max(ValidSets(t))

=============================================================================
