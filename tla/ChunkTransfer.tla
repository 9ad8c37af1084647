---------------------------- MODULE ChunkTransfer ----------------------------
(***************************************************************************)
(* Chunks on one TCP connection: send_file_data at one end (utils.c), at   *)
(* the other receive_chunk behind the worker's peek (server.c, an upload)  *)
(* or the reading half of get_file (client.c, a download).                 *)
(*                                                                         *)
(* A message is a header and the bytes of a chunk file.  The header is cut *)
(* into the places a short read can tell apart: the message header, the    *)
(* fields of chunk_info up to the length, and the padding after it.  The   *)
(* wire is a stream: it keeps order, and gives a reader what is there.     *)
(***************************************************************************)
EXTENDS Integers, Sequences

CONSTANTS
  Sources,       \* what may be sent: the bytes of each chunk file, in their order
  Buffer,        \* COM_BUFFER_SIZE
  Wire,          \* what fits between a send and the recv that takes it
  Directions,    \* TRUE for an upload, FALSE for a download
  SplitHeaders,  \* whether a download may deliver a header in pieces
  Faults         \* which of the faults below may happen

FaultKinds == {"sender_dies", "save_fails", "late_data"}

HeaderSize == 3     \* message_header, chunk_info up to its length, padding

ASSUME TransferAssumption ==
  /\ Sources \subseteq Seq(Nat) \ {<<>>}
  /\ Buffer \in Nat /\ Buffer > HeaderSize
  /\ Wire \in Nat /\ Wire >= HeaderSize
  /\ Directions \subseteq BOOLEAN /\ SplitHeaders \in BOOLEAN
  /\ Faults \subseteq FaultKinds

VARIABLES
  upload,    \* whether the receiver is a server
  lengths,   \* the bytes of each chunk file
  sstate,    \* sender: idle, read, copy, send_full, send_rest, dead
  k,         \* the message it sends
  haveSent,  \* have_sent_file
  pending,   \* the bytes of file_buffer not yet copied
  com,       \* com_buffer up to its tail
  toSend,    \* what is left of the current try_send_in_chunks
  wire,      \* bytes sent and not yet received
  rstate,    \* receiver: ask, header, data, done, failed, invalid, undefined
  asked,     \* download: the chunks asked for so far
  expected,  \* the length the header gave
  got,       \* the bytes written to the file since that header
  files,     \* the chunks received, in order: the message they are stored as and their bytes
  refused    \* whether a server has answered an upload with an error

setup == <<upload, lengths>>
senderVars == <<sstate, k, haveSent, pending, com, toSend>>
receiverVars == <<rstate, asked, expected, got, files, refused>>
vars == <<setup, senderVars, wire, receiverVars>>

Messages == DOMAIN lengths

Header(m) == [j \in 1..HeaderSize |-> <<m, "header", j>>]
Data(m) == [j \in 1..lengths[m] |-> <<m, "data", j>>]

Init ==
  /\ upload \in Directions
  /\ lengths \in Sources
  /\ sstate = "idle"
  /\ k = 1
  /\ haveSent = 0
  /\ pending = <<>> /\ com = <<>> /\ toSend = <<>> /\ wire = <<>>
  /\ rstate = IF upload THEN "header" ELSE "ask"
  /\ asked = 0
  /\ expected = 0
  /\ got = <<>>
  /\ files = <<>>
  /\ refused = FALSE

First(seq, n) == SubSeq(seq, 1, n)
Rest(seq, n) == SubSeq(seq, n + 1, Len(seq))
Smaller(a, b) == IF a < b THEN a ELSE b

-----------------------------------------------------------------------------
(* send_file_data                                                          *)

\* The header goes to the buffer; nothing is sent before the loop, which an empty
\* file does not enter.  put sends the next chunk at once, a server when asked.
BeginSend ==
  /\ sstate = "idle"
  /\ k \in Messages
  /\ upload \/ asked >= k
  /\ haveSent' = 0
  /\ IF lengths[k] = 0
     THEN k' = k + 1 /\ UNCHANGED <<sstate, com>>
     ELSE com' = Header(k) /\ sstate' = "read" /\ UNCHANGED k
  /\ UNCHANGED <<pending, toSend, wire, receiverVars>>

MutantReadFile ==
  LET n == Smaller(Buffer, lengths[k] - haveSent)
  IN /\ sstate = "read"
     /\ pending' = SubSeq(Data(k), haveSent + 1, haveSent + n)
     /\ haveSent' = haveSent + Buffer
     /\ sstate' = "copy"
     /\ UNCHANGED <<k, com, toSend, wire, receiverVars>>

\* The next piece of the file, as much as file_buffer holds.
ReadFile ==
  LET n == Smaller(Buffer, lengths[k] - haveSent)
  IN /\ sstate = "read"
     /\ pending' = SubSeq(Data(k), haveSent + 1, haveSent + n)
     /\ haveSent' = haveSent + n
     /\ sstate' = "copy"
     /\ UNCHANGED <<k, com, toSend, wire, receiverVars>>

MutantCopyOrSend ==
  LET room == Buffer - Len(com)
  IN /\ sstate = "copy"
     /\ IF Len(pending) > room
        THEN /\ toSend' = com \o First(pending, room)
             /\ com' = toSend'
             /\ sstate' = "send_full"
             /\ UNCHANGED pending
        ELSE /\ toSend' = com \o pending
             /\ com' = toSend'
             /\ pending' = <<>>
             /\ sstate' = "send_rest"
     /\ UNCHANGED <<k, haveSent, wire, receiverVars>>

MutantCopyForgetsTail ==
  LET room == Buffer
  IN /\ sstate = "copy"
     /\ IF Len(pending) > room
        THEN /\ toSend' = com \o First(pending, room)
             /\ com' = toSend'
             /\ pending' = Rest(pending, room)
             /\ sstate' = "send_full"
        ELSE /\ toSend' = com \o pending
             /\ com' = toSend'
             /\ pending' = <<>>
             /\ sstate' = "send_rest"
     /\ UNCHANGED <<k, haveSent, wire, receiverVars>>

\* One turn of copy_into_buffer_or_send: a full buffer is sent and filled again,
\* one that holds all the bytes is left to send_file_data.
CopyOrSend ==
  LET room == Buffer - Len(com)
  IN /\ sstate = "copy"
     /\ IF Len(pending) > room
        THEN /\ toSend' = com \o First(pending, room)
             /\ com' = toSend'
             /\ pending' = Rest(pending, room)
             /\ sstate' = "send_full"
        ELSE /\ toSend' = com \o pending
             /\ com' = toSend'
             /\ pending' = <<>>
             /\ sstate' = "send_rest"
     /\ UNCHANGED <<k, haveSent, wire, receiverVars>>

MutantSent(n) ==
  IF Len(toSend) > n
  THEN UNCHANGED <<sstate, k, com>>
  ELSE /\ UNCHANGED com
       /\ \/ sstate = "send_full" /\ sstate' = "copy" /\ UNCHANGED k
          \/ sstate = "send_rest" /\ haveSent < lengths[k] /\ sstate' = "read" /\ UNCHANGED k
          \/ sstate = "send_rest" /\ haveSent >= lengths[k] /\ sstate' = "idle" /\ k' = k + 1

\* try_send_in_chunks returns when all is sent, and the buffer's tail goes to 0.
Sent(n) ==
  IF Len(toSend) > n
  THEN UNCHANGED <<sstate, k, com>>
  ELSE /\ com' = <<>>
       /\ \/ sstate = "send_full" /\ sstate' = "copy" /\ UNCHANGED k
          \/ sstate = "send_rest" /\ haveSent < lengths[k] /\ sstate' = "read" /\ UNCHANGED k
          \/ sstate = "send_rest" /\ haveSent >= lengths[k] /\ sstate' = "idle" /\ k' = k + 1

Sending == sstate \in {"send_full", "send_rest"}

MutantSendSome ==
  /\ Sending
  /\ \E n \in 1..Len(toSend) :
       /\ Len(wire) + n <= Wire
       /\ upload \/ SplitHeaders \/ Head(toSend)[2] = "data" \/ n >= HeaderSize
       /\ Sent(Len(toSend))
       /\ wire' = wire \o First(toSend, n)
       /\ toSend' = <<>>
  /\ UNCHANGED <<haveSent, pending, receiverVars>>

\* One send: it takes a part of what it is given when the wire is nearly full.
\* Where headers are not split, the first send of a chunk takes its header.
SendSome ==
  /\ Sending
  /\ \E n \in 1..Len(toSend) :
       /\ Len(wire) + n <= Wire
       /\ upload \/ SplitHeaders \/ Head(toSend)[2] = "data" \/ n >= HeaderSize
       /\ Sent(n)
       /\ wire' = wire \o First(toSend, n)
       /\ toSend' = Rest(toSend, n)
  /\ UNCHANGED <<haveSent, pending, receiverVars>>

\* The process is killed; what it sent still arrives, and then the end of file.
SenderDies ==
  /\ "sender_dies" \in Faults
  /\ sstate # "dead"
  /\ sstate' = "dead"
  /\ UNCHANGED <<k, haveSent, pending, com, toSend, wire, receiverVars>>

-----------------------------------------------------------------------------
(* The receiver                                                            *)

\* The chunk is complete: it is moved to the name its header gave, or get goes on
\* with the next one.
Finishes(m, bytes) ==
  /\ files' = Append(files, [message |-> m, bytes |-> bytes])
  /\ got' = <<>>
  /\ rstate' = IF upload THEN "header"
               ELSE IF asked < Len(lengths) THEN "ask" ELSE "done"

MutantServerHeader ==
  /\ upload /\ rstate = "header"
  /\ wire # <<>>
  /\ LET n == Smaller(HeaderSize, Len(wire))
     IN /\ wire' = Rest(wire, n)
        /\ IF Head(wire)[2] = "header" /\ Head(wire)[3] = 1
           THEN /\ asked' = Head(wire)[1]
                /\ expected' = IF n >= 2 THEN lengths[Head(wire)[1]] ELSE 0
                /\ rstate' = "data"
           ELSE rstate' = "invalid" /\ UNCHANGED <<asked, expected>>
  /\ UNCHANGED <<senderVars, got, files, refused>>

\* The worker peeks until the whole header is there, so the recv that follows it
\* gets all of it.  When the file's directory or the temp file cannot be made,
\* receive_chunk answers with an error and leaves the data where it is.
ServerHeader ==
  /\ upload /\ rstate = "header"
  /\ Len(wire) >= HeaderSize
  /\ wire' = Rest(wire, HeaderSize)
  /\ IF First(wire, HeaderSize) = Header(Head(wire)[1])
     THEN \/ /\ asked' = Head(wire)[1]
             /\ expected' = lengths[Head(wire)[1]]
             /\ rstate' = "data"
             /\ UNCHANGED refused
          \/ /\ "save_fails" \in Faults
             /\ refused' = TRUE
             /\ UNCHANGED <<rstate, asked, expected>>
     ELSE rstate' = "invalid" /\ UNCHANGED <<asked, expected, refused>>
  /\ UNCHANGED <<senderVars, got, files>>

\* get_file's request for the next chunk.
Ask ==
  /\ rstate = "ask"
  /\ asked' = asked + 1
  /\ rstate' = "header"
  /\ UNCHANGED <<senderVars, wire, expected, got, files, refused>>

\* get_file reads the header with one recv: bytes that are no message header make it
\* fail, and so does one that comes in part (not whole), but not a chunk_info that is
\* cut.  The buffer was cleared, so a length that has not arrived reads as 0.
ClientHeader ==
  LET n == Smaller(HeaderSize, Len(wire))
  IN /\ ~upload /\ rstate = "header"
     /\ n > 0
     /\ wire' = Rest(wire, n)
     /\ \E whole \in {TRUE, ~SplitHeaders} :
          IF whole /\ Head(wire)[2] = "header" /\ Head(wire)[3] = 1
          THEN /\ expected' = IF n >= 2 THEN lengths[Head(wire)[1]] ELSE 0
               /\ rstate' = "data"
          ELSE rstate' = "failed" /\ UNCHANGED expected
     /\ UNCHANGED <<senderVars, asked, got, files, refused>>

MutantReceiveData ==
  LET n == Smaller(Smaller(Buffer, expected), Len(wire))
  IN /\ rstate = "data"
     /\ expected > Len(got)
     /\ n > 0
     /\ got' = got \o First(wire, n)
     /\ wire' = Rest(wire, n)
     /\ UNCHANGED <<senderVars, rstate, asked, expected, files, refused>>

\* One recv of receive_file_data, of what is there.
ReceiveData ==
  LET n == Smaller(Smaller(Buffer, expected - Len(got)), Len(wire))
  IN /\ rstate = "data"
     /\ n > 0
     /\ got' = got \o First(wire, n)
     /\ wire' = Rest(wire, n)
     /\ UNCHANGED <<senderVars, rstate, asked, expected, files, refused>>

\* All expected bytes are there.
DataComplete ==
  /\ rstate = "data"
  /\ Len(got) >= expected
  /\ Finishes(asked, got)
  /\ UNCHANGED <<senderVars, wire, asked, expected, refused>>

\* The end of file: receive_chunk goes on as if the data were complete, get fails.
EndOfFile ==
  /\ sstate = "dead" /\ wire = <<>>
  /\ \/ /\ upload /\ rstate = "data" /\ Len(got) < expected
        /\ Finishes(asked, got)
     \/ /\ ~upload /\ rstate \in {"header", "data"}
        /\ rstate = "data" => Len(got) < expected
        /\ rstate' = "failed"
        /\ UNCHANGED <<got, files>>
  /\ UNCHANGED <<senderVars, wire, asked, expected, refused>>

MutantTimeOut ==
  /\ ~upload /\ wire = <<>>
  /\ "late_data" \in Faults
  /\ rstate = "data" /\ Len(got) < expected /\ rstate' = "undefined"
  /\ UNCHANGED <<senderVars, wire, asked, expected, got, files, refused>>

\* The client's recv gives up after a second.  For the header that is a failure;
\* receive_file_data takes the -1 for a number of bytes and writes that many.
TimeOut ==
  /\ ~upload /\ wire = <<>>
  /\ \/ rstate = "header" /\ rstate' = "failed"
     \/ /\ "late_data" \in Faults
        /\ rstate = "data" /\ Len(got) < expected /\ rstate' = "undefined"
  /\ UNCHANGED <<senderVars, wire, asked, expected, got, files, refused>>

SenderStep == BeginSend \/ ReadFile \/ CopyOrSend \/ SendSome
ReceiverStep ==
  \/ ServerHeader \/ Ask \/ ClientHeader \/ ReceiveData \/ DataComplete \/ EndOfFile

Next == (SenderStep \/ ReceiverStep \/ SenderDies \/ TimeOut) /\ UNCHANGED setup

Spec == Init /\ [][Next]_vars

\* Both processes run on: a send that waits for room and a recv that waits for
\* bytes go on when there are some, and a client's recv returns after a second.
FairSpec ==
  /\ Spec
  /\ WF_vars(SenderStep /\ UNCHANGED setup)
  /\ WF_vars(ReceiverStep /\ UNCHANGED setup)
  /\ WF_vars(TimeOut /\ UNCHANGED setup)

-----------------------------------------------------------------------------
(* Properties                                                              *)

Units == UNION {{Header(m)[j] : j \in 1..HeaderSize} \cup {Data(m)[j] : j \in 1..lengths[m]} :
                m \in Messages}

\* Buffers, wire and files hold bytes of the messages; the local variables of both
\* ends have values their loops can give them.
TypeOK ==
  /\ sstate \in {"idle", "read", "copy", "send_full", "send_rest", "dead"}
  /\ k \in 1..(Len(lengths) + 1)
  /\ haveSent \in Nat
  /\ sstate \in {"read", "copy", "send_full", "send_rest"} => haveSent <= lengths[k]
  /\ {pending, com, toSend, wire, got} \subseteq Seq(Units)
  /\ Len(wire) <= Wire
  /\ rstate \in {"ask", "header", "data", "done", "failed", "invalid", "undefined"}
  /\ asked \in 0..Len(lengths)
  /\ expected \in Nat
  /\ files \in Seq([message : Messages, bytes : Seq(Units)])

\* com_buffer never overflows, though it holds the header when the first bytes of
\* the file, as many as the buffer is long, are added to it.
BufferFits == Len(com) <= Buffer

\* After a chunk the server finds the next header, whatever the sizes of the sends
\* and receives: a worker takes data for a header only after an upload that it has
\* refused, whose data nobody reads.
Framed == rstate = "invalid" => refused

\* send_file_data sends nothing of a chunk file without bytes, not even a header.
NotEmpty == {m \in Messages : lengths[m] > 0}

Stored == {files[j].message : j \in DOMAIN files}

\* A stored chunk has the sender's bytes under the sender's name, all of them
\* unless it is the last one and the sender died; and nothing is stored behind a
\* chunk that is missing, even when that one was refused.
StoredExact ==
  upload => \A j \in 1..Len(files) :
    LET m == files[j].message
    IN /\ files[j].bytes = First(Data(m), Len(files[j].bytes))
       /\ files[j].bytes # Data(m) => sstate = "dead" /\ j = Len(files)
       /\ {files[l].message : l \in 1..(j - 1)} = {n \in NotEmpty : n < m}

\* No byte is left behind, and none is waited for that nobody will send: with
\* nothing on the wire and the sender between chunks, a reader of data has all of its
\* chunk, and a server has stored, or has in hand, every chunk that was sent.
AllHandedOver ==
  sstate = "idle" /\ wire = <<>> /\ ~refused =>
    /\ rstate = "data" => got = Data(asked)
    /\ upload => Stored \cup {m \in {asked} : rstate = "data"} = {m \in NotEmpty : m < k}

\* A get that reports success has exactly the chunks' bytes, in their order.
GotExact ==
  rstate = "done" => files = [j \in Messages |-> [message |-> j, bytes |-> Data(j)]]

\* Unless put dies or the server refuses a chunk, exactly the chunks that have bytes
\* are stored in the end.  put counts one without bytes as sent too, but it never
\* comes to be stored, and its file is never whole: the run store_small_file.
OnlyEmptyLost ==
  <>[](upload => sstate = "dead" \/ refused \/ \A m \in Messages : m \in Stored <=> lengths[m] > 0)

\* A get comes to a result of its own, even when the server dies or its answer does not
\* come because the chunk has no bytes.  That it does when the data of a chunk stops
\* for a second (late_data) is not claimed: the code then writes (size_t) -1 bytes.
GetReturns == <>(~upload => rstate \in {"done", "failed"})

=============================================================================
