------------------------------ MODULE Partition ------------------------------
(***************************************************************************)
(* How put_file cuts a file into one temporary file per server (client.c,  *)
(* utils.c): each of them takes the next length / SERVERS + 1 bytes, read  *)
(* by copy_bytes_to_file piece by piece, until the original runs out.  A   *)
(* chunk is the interval of the original it holds.                         *)
(*                                                                         *)
(* A piece has any number of bytes that are left, so what is said here     *)
(* does not depend on COM_BUFFER_SIZE.                                     *)
(***************************************************************************)
EXTENDS Placement

VARIABLES
  state,    \* open, copy, refused, done
  length,   \* get_file_length of the original
  pos,      \* the read position in the original
  i,        \* the chunk that is being written
  start,    \* per chunk, the position its first byte was read from
  copied    \* per chunk, the bytes written to it

vars == <<state, length, pos, i, start, copied>>

\* What is asked for per chunk.
ChunkOffset(len) == (len \div N) + 1

Init ==
  /\ state = "open"
  /\ length \in Nat
  /\ pos = 0
  /\ i = 0
  /\ start = [c \in Chunks |-> 0]
  /\ copied = [c \in Chunks |-> 0]

\* A file with fewer bytes than there are servers is refused.
Refuse ==
  /\ state = "open"
  /\ length < N
  /\ state' = "refused"
  /\ UNCHANGED <<length, pos, i, start, copied>>

Open ==
  /\ state = "open"
  /\ length >= N
  /\ state' = "copy"
  /\ UNCHANGED <<length, pos, i, start, copied>>

\* What copy_bytes_to_file still has to copy for the current chunk.
ToCopy == ChunkOffset(length) - copied[i]

\* One turn of its loop that reads something.
CopyBatch ==
  /\ state = "copy"
  /\ \E n \in 1..ToCopy :
       /\ pos + n <= length
       /\ pos' = pos + n
       /\ copied' = [copied EXCEPT ![i] = @ + n]
  /\ UNCHANGED <<state, length, i, start>>

\* The chunk has all it asked for, or the original has run out.
NextChunk ==
  /\ state = "copy"
  /\ ToCopy = 0 \/ pos = length
  /\ IF i + 1 < N
     THEN /\ i' = i + 1
          /\ start' = [start EXCEPT ![i + 1] = pos]
          /\ UNCHANGED state
     ELSE /\ state' = "done"
          /\ UNCHANGED <<i, start>>
  /\ UNCHANGED <<length, pos, copied>>

Next == Refuse \/ Open \/ CopyBatch \/ NextChunk

Spec == Init /\ [][Next]_vars

-----------------------------------------------------------------------------
(* Properties                                                              *)

\* The variables of put_file's loop have the values the code can give them.
TypeOK ==
  /\ state \in {"open", "copy", "refused", "done"}
  /\ length \in Nat
  /\ pos \in 0..length
  /\ i \in Chunks
  /\ start \in [Chunks -> 0..length]
  /\ copied \in [Chunks -> 0..length]

\* The chunks, one after the other, are the whole file: none lacks bytes at its
\* end, none overlaps the next, nothing is left over after the last one.
FileCovered ==
  state = "done" =>
    /\ start[0] = 0
    /\ \A c \in Chunks :
         start[c] + copied[c] = IF c + 1 < N THEN start[c + 1] ELSE length

\* The chunks that put_file leaves without bytes are its last ones, never the first;
\* and there are some exactly for the lengths whose quotient and remainder by SERVERS
\* add up to less than SERVERS (of the lengths that are accepted, with 4 servers: 4,
\* 5, 6, 8, 9 and 12).
EmptyChunksLast ==
  state = "done" =>
    \E filled \in 1..N :
      /\ \A c \in Chunks : copied[c] > 0 <=> c < filled
      /\ filled < N <=> (length \div N) + (length % N) < N

=============================================================================
