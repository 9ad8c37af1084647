--------------------------- MODULE Session_proofs ---------------------------
(***************************************************************************)
(* Proofs about Session, for any servers' disks, names and commands.       *)
(*                                                                         *)
(* TypeInv: the types of all variables, and what each step needs of them.  *)
(* AnswersTrue: an answer tells what its server has on disk.               *)
(* InStep: inductive given these.                                          *)
(* AsksMet: chunks are asked for only of names the loop has come to.       *)
(* OrderInv: on a connection no data comes after a chunk list or a query   *)
(*   that is not read, and a file's list is asked for once.                *)
(* SourceInv: at the servers the table names, the only data to come is     *)
(*   the chunk asked for last; where a list is unread, the table's entries *)
(*   are of another file than the one being fetched.                       *)
(* LocalInv: the local file is the first chunks of what was chosen.        *)
(* ErrorTrue, NamesInv, ChunksInv: what the answers that were not late     *)
(*   have brought, server by server.                                       *)
(* Nearer: the order in which every step of the client goes down.          *)
(***************************************************************************)
EXTENDS Session, ChunkTable_proofs, FiniteSetTheorems, SequenceTheorems, TLAPS

Records == (0..MaxStamp) \X Chunks

RequestSet ==
  [kind : {"name_query", "chunk_query", "chunk_list", "spoilt"}, file : FileNames \cup {None},
   record : Records \cup {None}]

AnswerSet ==
  [kind : {"name_list", "chunk_list", "chunk_data", "error", "rest"},
   file : FileNames \cup {None}, body : SUBSET (Names \cup Records)]

-----------------------------------------------------------------------------
(* Data                                                                    *)

\* A request and an answer are what their fields say.
LEMMA MessageFields ==
  /\ \A kind, f, x :
       /\ Request(kind, f, x).kind = kind /\ Request(kind, f, x).file = f
       /\ Request(kind, f, x).record = x
       /\ Answer(kind, f, x).kind = kind /\ Answer(kind, f, x).file = f
       /\ Answer(kind, f, x).body = x
  /\ \A kind \in {"name_query", "chunk_query", "chunk_list", "spoilt"}, f \in FileNames \cup {None},
        x \in Records \cup {None} : Request(kind, f, x) \in RequestSet
  /\ \A kind \in {"name_list", "chunk_list", "chunk_data", "error", "rest"},
        f \in FileNames \cup {None}, x \in SUBSET (Names \cup Records) :
          Answer(kind, f, x) \in AnswerSet
  /\ Error \in AnswerSet /\ Rest \in AnswerSet
  /\ Error.kind = "error" /\ Rest.kind = "rest"
  /\ Spoilt \in RequestSet /\ Spoilt.kind = "spoilt"
BY DEF Request, Answer, RequestSet, AnswerSet, Error, Rest, Spoilt

\* What is on the disks are records of chunks.
LEMMA RecordsOnType ==
  ASSUME disk \in Layouts, NEW s \in Servers, NEW f
  PROVE  /\ RecordsOn(s, f) \subseteq Records
         /\ f \notin Names => RecordsOn(s, f) = {}
         /\ f \in DOMAIN disk[s] => f \in Names /\ RecordsOn(s, f) = disk[s][f]
BY LayoutAssumption DEF RecordsOn, Records

\* v is w with its beginning read, the last message read maybe in part.
Shortened(w, v) ==
  \E k \in 0..Len(w) :
    /\ Len(v) = Len(w) - k
    /\ \A q \in 1..Len(v) : v[q] = Rest \/ v[q] = w[q + k]

\* A recv that finds what it did not expect leaves a part.
LEMMA LeftoversShorten ==
  ASSUME NEW w \in Seq(AnswerSet), NEW v \in Leftovers(w)
  PROVE  v \in Seq(AnswerSet) /\ Shortened(w, v)
<1> DEFINE after(n) == SubSeq(w, n + 1, Len(w))
<1>1. PICK n \in 1..Len(w) : v = after(n) \/ v = <<Rest>> \o after(n)
  BY DEF Leftovers
<1>2. /\ after(n) \in Seq(AnswerSet) /\ Len(after(n)) = Len(w) - n
      /\ \A q \in 1..(Len(w) - n) : after(n)[q] = w[q + n]
  BY <1>1
<1>3. CASE v = after(n)
  BY <1>1, <1>2, <1>3 DEF Shortened
<1>4. CASE v = <<Rest>> \o after(n)
  <2> HIDE DEF after
  <2>1. <<Rest>> \in Seq(AnswerSet) /\ Len(<<Rest>>) = 1 /\ <<Rest>>[1] = Rest
    BY MessageFields
  <2>2. v \in Seq(AnswerSet) /\ Len(v) = 1 + Len(w) - n
    BY <1>2, <1>4, <2>1
  <2>3. \A q \in 1..Len(v) : v[q] = Rest \/ v[q] = w[q + (n - 1)]
    <3> TAKE q \in 1..Len(v)
    <3>1. CASE q = 1
      BY <1>2, <1>4, <2>1, <3>1
    <3>2. CASE q # 1
      <4>1. q - 1 \in 1..(Len(w) - n) /\ v[q] = after(n)[q - 1]
        BY <1>1, <1>2, <1>4, <2>1, <2>2, <3>2
      <4>2. (q - 1) + n = q + (n - 1)
        BY <1>1
      <4>3. after(n)[q - 1] = w[(q - 1) + n]
        BY <1>2, <4>1
      <4> QED  BY <4>1, <4>2, <4>3
    <3> QED  BY <3>1, <3>2
  <2>4. n - 1 \in 0..Len(w) /\ Len(v) = Len(w) - (n - 1)
    BY <1>1, <2>2
  <2> QED  BY <2>2, <2>3, <2>4 DEF Shortened
<1> QED  BY <1>1, <1>3, <1>4

\* So does reading the first message to its end, or in part.
LEMMA TailShortens ==
  ASSUME NEW w \in Seq(AnswerSet), w # <<>>
  PROVE  /\ Tail(w) \in Seq(AnswerSet) /\ Shortened(w, Tail(w))
         /\ <<Rest>> \o Tail(w) \in Seq(AnswerSet) /\ Shortened(w, <<Rest>> \o Tail(w))
         /\ <<>> \in Seq(AnswerSet) /\ Shortened(w, <<>>)
<1>1. Tail(w) = SubSeq(w, 1 + 1, Len(w)) /\ 1 \in 1..Len(w)
  OBVIOUS
<1>2. Tail(w) \in Leftovers(w) /\ <<Rest>> \o Tail(w) \in Leftovers(w)
  BY <1>1 DEF Leftovers
<1>3. Shortened(w, <<>>)
  <2>1. Len(w) \in 0..Len(w) /\ Len(<<>>) = Len(w) - Len(w)
    OBVIOUS
  <2> QED  BY <2>1 DEF Shortened
<1>4. <<>> \in Seq(AnswerSet)
  OBVIOUS
<1> QED  BY <1>2, <1>3, <1>4, LeftoversShorten

\* u is r without its first n requests, and maybe one spoilt.
LeftOf(r, u, n) ==
  /\ u \in Seq(RequestSet)
  /\ Len(u) = Len(r) - n
  /\ \A q \in 1..Len(u) : u[q] = Spoilt \/ u[q] = r[q + n]

\* The rest of the requests is left.
LEMMA TailLeft ==
  ASSUME NEW r \in Seq(RequestSet), r # <<>>
  PROVE  1 \in 1..Len(r) /\ LeftOf(r, Tail(r), 1)
BY DEF LeftOf

\* A recv of handle_name_query takes at least one request, maybe in part if it was
\* not the first.
LEMMA UnreadLeft ==
  ASSUME NEW r \in Seq(RequestSet), NEW u \in Unread(r)
  PROVE  \E n \in 1..Len(r) : LeftOf(r, u, n)
<1> DEFINE after(n) == SubSeq(r, n + 1, Len(r))
<1>1. \/ \E n \in 1..Len(r) : u = after(n)
      \/ \E n \in 2..Len(r) : u = <<Spoilt>> \o after(n)
  BY DEF Unread
<1>2. ASSUME NEW n \in 1..Len(r)
      PROVE  /\ after(n) \in Seq(RequestSet) /\ Len(after(n)) = Len(r) - n
             /\ \A q \in 1..(Len(r) - n) : after(n)[q] = r[q + n]
  OBVIOUS
<1>3. CASE \E n \in 1..Len(r) : u = after(n)
  BY <1>2, <1>3 DEF LeftOf
<1>4. CASE \E n \in 2..Len(r) : u = <<Spoilt>> \o after(n)
  <2>1. PICK n \in 2..Len(r) : u = <<Spoilt>> \o after(n)
    BY <1>4
  <2>2. /\ after(n) \in Seq(RequestSet) /\ Len(after(n)) = Len(r) - n
        /\ \A q \in 1..(Len(r) - n) : after(n)[q] = r[q + n]
    BY <1>2
  <2> HIDE DEF after
  <2>3. <<Spoilt>> \in Seq(RequestSet) /\ Len(<<Spoilt>>) = 1 /\ <<Spoilt>>[1] = Spoilt
    BY MessageFields
  <2>4. u \in Seq(RequestSet) /\ Len(u) = 1 + Len(r) - n
    BY <2>1, <2>2, <2>3
  <2>5. \A q \in 1..Len(u) : u[q] = Spoilt \/ u[q] = r[q + (n - 1)]
    <3> TAKE q \in 1..Len(u)
    <3>1. CASE q = 1
      BY <2>1, <2>2, <2>3, <3>1
    <3>2. CASE q # 1
      <4>1. q - 1 \in 1..(Len(r) - n) /\ u[q] = after(n)[q - 1]
        BY <2>1, <2>2, <2>3, <2>4, <3>2
      <4>2. (q - 1) + n = q + (n - 1)
        BY <2>1
      <4>3. after(n)[q - 1] = r[(q - 1) + n]
        BY <2>2, <4>1
      <4> QED  BY <4>1, <4>2, <4>3
    <3> QED  BY <3>1, <3>2
  <2>6. n - 1 \in 1..Len(r) /\ Len(u) = Len(r) - (n - 1)
    BY <2>1, <2>4
  <2> QED  BY <2>4, <2>5, <2>6 DEF LeftOf
<1> QED  BY <1>1, <1>3, <1>4

\* The names of a set, one after the other.
LEMMA SetToSeqsType ==
  ASSUME NEW S, IsFiniteSet(S), NEW q \in SetToSeqs(S)
  PROVE  q \in Seq(S) /\ \A j, l \in DOMAIN q : q[j] = q[l] => j = l
<1>1. Cardinality(S) \in Nat
  BY FS_CardinalityType
<1> QED  BY <1>1 DEF SetToSeqs

-----------------------------------------------------------------------------
(* Types                                                                   *)

TypeInv ==
  /\ disk \in Layouts /\ known \subseteq Servers
  /\ linked \subseteq known /\ late \subseteq linked
  /\ requests \in [Servers -> Seq(RequestSet)]
  /\ wire \in [Servers -> Seq(AnswerSet)]
  /\ cstate \in {"idle", "names", "next", "chunks", "choose", "fetch", "done"}
  /\ i \in 0..(N - 1) /\ awaiting \in BOOLEAN
  /\ awaiting => cstate \in {"names", "chunks", "fetch"} /\ Peer \in linked
  /\ todo \in Seq(FileNames) /\ \A j, l \in DOMAIN todo : todo[j] = todo[l] => j = l
  /\ cstate \in {"chunks", "choose", "fetch"} => todo # <<>>
  /\ DOMAIN table \subseteq Records /\ table \in [DOMAIN table -> linked]
  /\ cstate = "fetch" => chosen \in 0..MaxStamp /\ \A c \in Chunks : <<chosen, c>> \in DOMAIN table
  /\ verdict \in [FileNames -> {"none", "complete", "incomplete", "ok", "failed"}]

\* What the answers on the wire say.
AnswersTrue ==
  \A s \in Servers : \A j \in 1..Len(wire[s]) :
    /\ wire[s][j].kind = "name_list" => wire[s][j].body \subseteq Names
    /\ wire[s][j].kind = "chunk_list" => wire[s][j].body = RecordsOn(s, wire[s][j].file)
    /\ wire[s][j].kind = "chunk_data" =>
         \E r \in RecordsOn(s, wire[s][j].file) : wire[s][j].body = {r}

\* The server has the chunk a request is for.
Opens(s, r) == r.kind = "chunk_list" /\ r.record \in RecordsOn(s, r.file)

\* The server that is talked to is one, and has a socket when it has been asked.
LEMMA PeerType ==
  ASSUME TypeInv
  PROVE  /\ Peer \in Servers
         /\ cstate # "fetch" => Peer = i
         /\ cstate = "fetch" => Peer = table[<<chosen, i>>] /\ <<chosen, i>> \in DOMAIN table
                                /\ <<chosen, i>> \in Records /\ Peer \in linked
<1>1. i \in Servers /\ i \in Chunks /\ linked \subseteq Servers
  BY DEF TypeInv, Servers, Chunks
<1>2. CASE cstate = "fetch"
  BY <1>1, <1>2 DEF TypeInv, Peer
<1>3. CASE cstate # "fetch"
  BY <1>1, <1>3 DEF Peer
<1> QED  BY <1>2, <1>3

\* The disks do not change.
LEMMA DiskStays ==
  ASSUME [Next]_vars
  PROVE  disk' = disk /\ \A s, f : RecordsOn(s, f)' = RecordsOn(s, f)
<1>1. disk' = disk
  BY DEF Next, ClientStep, ServerStep, Begin, SkipServer, TimeOut, ReadWrong, AskNames, ReadNames,
    NextName, AskChunks, ReadChunks, ListVerdict, GetNothing, OpenLocal, AskChunk, ReadChunk,
    HandleNameQuery, HandleChunkQuery, SendChunk, Fails, Send, Reply, vars, serverVars
<1> QED  BY <1>1 DEF RecordsOn

\* A connection stays as it was.
SameChannel(s) == requests'[s] = requests[s] /\ wire'[s] = wire[s]

\* What a client's step that reads does: some of what is on the wire is gone.
ClientReads ==
  /\ awaiting
  /\ requests' = requests
  /\ wire' = [wire EXCEPT ![Peer] = wire'[Peer]]
  /\ wire'[Peer] \in Seq(AnswerSet) /\ Shortened(wire[Peer], wire'[Peer])

\* A step that asks.
ClientAsks(r) ==
  /\ Peer \in linked /\ ~awaiting
  /\ cstate \in {"names", "chunks", "fetch"}
  /\ r \in RequestSet /\ r = LastRequest
  /\ Send(Peer, r)

\* Any other step of the client.
ClientThinks ==
  /\ ~awaiting /\ UNCHANGED <<awaiting, late>>
  /\ UNCHANGED serverVars

\* An empty sequence has no beginning to read.
LEMMA NothingRead == ASSUME NEW w \in Seq(AnswerSet) PROVE Shortened(w, w)
<1>1. 0 \in 0..Len(w) /\ Len(w) = Len(w) - 0 /\ \A q \in 1..Len(w) : w[q] = w[q + 0]
  OBVIOUS
<1> QED  BY <1>1 DEF Shortened

\* Every read of the client shortens what is on the wire.
LEMMA ReadsShorten ==
  ASSUME TypeInv, TimeOut \/ ReadWrong \/ ReadNames \/ ReadChunks \/ ReadChunk
  PROVE  ClientReads /\ awaiting' = FALSE
<1> DEFINE w == wire[Peer]
<1>1. Peer \in Servers /\ w \in Seq(AnswerSet)
  BY PeerType DEF TypeInv
<1>2. CASE TimeOut
  <2>1. wire' = wire /\ requests' = requests /\ awaiting /\ awaiting' = FALSE
    BY <1>2 DEF TimeOut, Fails
  <2>2. wire = [wire EXCEPT ![Peer] = w]
    BY DEF TypeInv
  <2> QED  BY <1>1, <2>1, <2>2, NothingRead DEF ClientReads
<1>3. CASE ReadWrong
  <2>1. requests' = requests /\ awaiting /\ awaiting' = FALSE /\ w # <<>>
    BY <1>3 DEF ReadWrong, Fails
  <2>2. CASE wire' = [wire EXCEPT ![Peer] = <<>>]
    <3>1. wire'[Peer] = <<>>
      BY <1>1, <2>2 DEF TypeInv
    <3> QED  BY <1>1, <2>1, <2>2, <3>1, TailShortens DEF ClientReads
  <2>3. CASE \E v \in Leftovers(w) : wire' = [wire EXCEPT ![Peer] = v]
    <3>1. PICK v \in Leftovers(w) : wire' = [wire EXCEPT ![Peer] = v]
      BY <2>3
    <3>2. wire'[Peer] = v
      BY <1>1, <3>1 DEF TypeInv
    <3> QED  BY <1>1, <2>1, <3>1, <3>2, LeftoversShorten DEF ClientReads
  <2> QED  BY <1>3, <2>2, <2>3 DEF ReadWrong
<1>4. CASE ReadNames \/ ReadChunks \/ ReadChunk
  <2>1. requests' = requests /\ awaiting /\ awaiting' = FALSE /\ w # <<>>
    BY <1>4 DEF ReadNames, ReadChunks, ReadChunk, Finds
  <2>2. ReadNames \/ ReadChunks => Peer = i
    BY DEF ReadNames, ReadChunks, Peer
  <2>3. \/ wire' = [wire EXCEPT ![Peer] = Tail(@)]
        \/ wire' = [wire EXCEPT ![Peer] = <<Rest>> \o Tail(@)]
    BY <1>4, <2>2 DEF ReadNames, ReadChunks, ReadChunk, Takes, TakesPart
  <2>4. \/ wire' = [wire EXCEPT ![Peer] = Tail(w)] /\ wire'[Peer] = Tail(w)
        \/ wire' = [wire EXCEPT ![Peer] = <<Rest>> \o Tail(w)] /\ wire'[Peer] = <<Rest>> \o Tail(w)
    BY <1>1, <2>3 DEF TypeInv
  <2> QED  BY <1>1, <2>1, <2>4, TailShortens DEF ClientReads
<1> QED  BY <1>2, <1>3, <1>4

\* Every question of the client is its last request.
LEMMA AsksLast ==
  ASSUME TypeInv, AskNames \/ AskChunks \/ AskChunk
  PROVE  ClientAsks(LastRequest)
<1>1. todo # <<>> => Current \in FileNames
  BY DEF TypeInv, Current
<1>2. CASE AskNames
  <2>1. Peer = i /\ LastRequest = Request("name_query", None, None)
    BY <1>2 DEF AskNames, Peer, LastRequest
  <2> QED  BY <1>2, <2>1, MessageFields DEF AskNames, ClientAsks
<1>3. CASE AskChunks
  <2>1. Peer = i /\ LastRequest = Request("chunk_query", Current, None) /\ todo # <<>>
    BY <1>3 DEF AskChunks, Peer, LastRequest, TypeInv
  <2> QED  BY <1>1, <1>3, <2>1, MessageFields DEF AskChunks, ClientAsks
<1>4. CASE AskChunk
  <2>1. LastRequest = Request("chunk_list", Current, <<chosen, i>>) /\ todo # <<>>
    BY <1>4 DEF AskChunk, LastRequest, TypeInv
  <2>2. Peer \in linked /\ <<chosen, i>> \in Records
    BY <1>4, PeerType DEF AskChunk
  <2> QED  BY <1>1, <1>4, <2>1, <2>2, MessageFields DEF AskChunk, ClientAsks
<1> QED  BY <1>2, <1>3, <1>4

\* What a server's step does.
LEMMA ServersAnswer ==
  ASSUME TypeInv, NEW s \in Servers, ServerStep(s)
  PROVE  \E n \in 1..Len(requests[s]), u \in Seq(RequestSet), a \in AnswerSet :
           /\ Reply(s, u, a) /\ LeftOf(requests[s], u, n)
           /\ \/ /\ requests[s][1].kind \in {"name_query", "spoilt"}
                 /\ requests[s][1].kind = "spoilt" => Len(requests[s]) > 1
                 /\ a = Error \/ a = Answer("name_list", None, Listed(s))
              \/ /\ requests[s][1].kind = "chunk_query" /\ n = 1
                 /\ \/ a = Error
                    \/ a = Answer("chunk_list", requests[s][1].file, RecordsOn(s, requests[s][1].file))
              \/ /\ requests[s][1].kind = "chunk_list" /\ n = 1
                 /\ \/ a = Error
                    \/ /\ Opens(s, requests[s][1])
                       /\ a = Answer("chunk_data", requests[s][1].file, {requests[s][1].record})
<1> DEFINE r == Head(requests[s])
<1>1. requests[s] \in Seq(RequestSet) /\ disk \in Layouts
  BY DEF TypeInv
<1>2. requests[s] # <<>>
  BY DEF ServerStep, HandleNameQuery, HandleChunkQuery, SendChunk, Asked
<1>3. /\ r = requests[s][1] /\ r \in RequestSet /\ 1 \in 1..Len(requests[s])
      /\ LeftOf(requests[s], Tail(requests[s]), 1) /\ Tail(requests[s]) \in Seq(RequestSet)
  BY <1>1, <1>2, TailLeft DEF LeftOf
<1>4. CASE HandleNameQuery(s)
  <2>1. PICK u \in Unread(requests[s]) :
          \/ Reply(s, u, Answer("name_list", None, Listed(s)))
          \/ Reply(s, u, Error)
    BY <1>4 DEF HandleNameQuery
  <2>2. Listed(s) \in SUBSET (Names \cup Records)
    BY <1>1, LayoutAssumption DEF Listed
  <2>3. /\ r.kind \in {"name_query", "spoilt"}
        /\ r.kind = "spoilt" => Len(requests[s]) > 1
    BY <1>4 DEF HandleNameQuery, Asked
  <2>4. Answer("name_list", None, Listed(s)) \in AnswerSet /\ Error \in AnswerSet
    BY <2>2, MessageFields
  <2>5. u \in Seq(RequestSet) /\ \E n \in 1..Len(requests[s]) : LeftOf(requests[s], u, n)
    BY <1>1, UnreadLeft DEF LeftOf
  <2> QED  BY <1>3, <2>1, <2>3, <2>4, <2>5
<1>5. CASE HandleChunkQuery(s)
  <2>1. r.kind = "chunk_query" /\ r.file \in FileNames \cup {None}
    BY <1>3, <1>5 DEF HandleChunkQuery, Asked, RequestSet
  <2>2. \/ Reply(s, Tail(requests[s]), Error)
        \/ Reply(s, Tail(requests[s]), Answer("chunk_list", r.file, RecordsOn(s, r.file)))
    BY <1>1, <1>5, RecordsOnType DEF HandleChunkQuery
  <2>3. RecordsOn(s, r.file) \in SUBSET (Names \cup Records)
    BY <1>1, RecordsOnType
  <2>4. Answer("chunk_list", r.file, RecordsOn(s, r.file)) \in AnswerSet /\ Error \in AnswerSet
    BY <2>1, <2>3, MessageFields
  <2> QED  BY <1>3, <2>1, <2>2, <2>4
<1>6. CASE SendChunk(s)
  <2>1. r.kind = "chunk_list" /\ r.file \in FileNames \cup {None}
    BY <1>3, <1>6 DEF SendChunk, Asked, RequestSet
  <2>2. \/ Reply(s, Tail(requests[s]), Error)
        \/ /\ r.file \in DOMAIN disk[s] /\ r.record \in disk[s][r.file]
           /\ Reply(s, Tail(requests[s]), Answer("chunk_data", r.file, {r.record}))
    BY <1>6 DEF SendChunk
  <2>3. Error \in AnswerSet
    BY MessageFields
  <2>4. CASE Reply(s, Tail(requests[s]), Error)
    BY <1>3, <2>1, <2>3, <2>4
  <2>5. CASE /\ r.file \in DOMAIN disk[s] /\ r.record \in disk[s][r.file]
             /\ Reply(s, Tail(requests[s]), Answer("chunk_data", r.file, {r.record}))
    <3>1. Opens(s, r) /\ r.record \in Records
      BY <1>1, <2>1, <2>5, RecordsOnType DEF Opens
    <3>2. Answer("chunk_data", r.file, {r.record}) \in AnswerSet
      BY <2>1, <3>1, MessageFields
    <3> QED  BY <1>3, <2>1, <2>5, <3>1, <3>2
  <2> QED  BY <2>2, <2>4, <2>5
<1> QED  BY <1>4, <1>5, <1>6 DEF ServerStep

\* The step of the client that is neither reading nor asking.
LEMMA Thinks ==
  ASSUME TypeInv, Begin \/ SkipServer \/ NextName \/ ListVerdict \/ GetNothing \/ OpenLocal
  PROVE  ClientThinks
BY DEF Begin, SkipServer, NextName, ListVerdict, GetNothing, OpenLocal, ClientThinks, TypeInv

\* A read leaves sequences of answers, a question sequences of requests.
LEMMA ChannelTypes ==
  ASSUME TypeInv, Next
  PROVE  /\ requests' \in [Servers -> Seq(RequestSet)] /\ wire' \in [Servers -> Seq(AnswerSet)]
         /\ disk' = disk
<1>1. requests \in [Servers -> Seq(RequestSet)] /\ wire \in [Servers -> Seq(AnswerSet)] /\ Peer \in Servers
  BY PeerType DEF TypeInv
<1>2. disk' = disk
  BY DiskStays DEF Next
<1>3. CASE ClientThinks
  BY <1>1, <1>2, <1>3 DEF ClientThinks, serverVars
<1>4. CASE ClientReads
  BY <1>1, <1>2, <1>4 DEF ClientReads
<1>5. CASE ClientAsks(LastRequest)
  <2>1. Append(requests[Peer], LastRequest) \in Seq(RequestSet)
    BY <1>1, <1>5 DEF ClientAsks
  <2> QED  BY <1>1, <1>2, <1>5, <2>1 DEF ClientAsks, Send
<1>6. ASSUME NEW s \in Servers, ServerStep(s)
      PROVE  requests' \in [Servers -> Seq(RequestSet)] /\ wire' \in [Servers -> Seq(AnswerSet)]
  <2>1. PICK u \in Seq(RequestSet), a \in AnswerSet : Reply(s, u, a)
    BY <1>6, ServersAnswer
  <2>2. Append(wire[s], a) \in Seq(AnswerSet)
    BY <1>1
  <2> QED  BY <1>1, <2>1, <2>2 DEF Reply
<1> QED  BY <1>2, <1>3, <1>4, <1>5, <1>6, Thinks, ReadsShorten, AsksLast DEF Next, ClientStep

\* The loops over the servers and over the names.
LEMMA LoopTypes ==
  /\ TypeInv /\ NextServer /\ cstate \in {"names", "chunks"} =>
       /\ i' \in 0..(N - 1)
       /\ \/ cstate' = cstate /\ i' = i + 1
          \/ cstate' = "next" /\ cstate = "names" /\ i' = 0
          \/ cstate' = "choose" /\ cstate = "chunks" /\ i' = 0
  /\ \A v \in {"complete", "incomplete", "ok", "failed"} :
       TypeInv /\ Conclude(v) /\ todo # <<>> =>
         /\ todo' \in Seq(FileNames) /\ \A j, l \in DOMAIN todo' : todo'[j] = todo'[l] => j = l
         /\ verdict' \in [FileNames -> {"none", "complete", "incomplete", "ok", "failed"}]
         /\ cstate' = "next" /\ i' \in 0..(N - 1)
<1>1. N \in Nat /\ N >= 2
  BY PlacementAssumption
<1>2. TypeInv /\ NextServer /\ cstate \in {"names", "chunks"} =>
        /\ i' \in 0..(N - 1)
        /\ \/ cstate' = cstate /\ i' = i + 1
           \/ cstate' = "next" /\ cstate = "names" /\ i' = 0
           \/ cstate' = "choose" /\ cstate = "chunks" /\ i' = 0
  BY <1>1 DEF TypeInv, NextServer
<1>3. ASSUME NEW v \in {"complete", "incomplete", "ok", "failed"}, TypeInv, Conclude(v), todo # <<>>
      PROVE  /\ todo' \in Seq(FileNames) /\ \A j, l \in DOMAIN todo' : todo'[j] = todo'[l] => j = l
             /\ verdict' \in [FileNames -> {"none", "complete", "incomplete", "ok", "failed"}]
             /\ cstate' = "next" /\ i' \in 0..(N - 1)
  <2>1. todo' = Tail(todo) /\ todo \in Seq(FileNames) /\ todo # <<>>
        /\ \A j, l \in DOMAIN todo : todo[j] = todo[l] => j = l
    BY <1>3 DEF Conclude, TypeInv
  <2>2. todo' \in Seq(FileNames) /\ \A j \in DOMAIN todo' : j + 1 \in DOMAIN todo /\ todo'[j] = todo[j + 1]
    BY <2>1, HeadTailSeq
  <2>3. \A j, l \in DOMAIN todo' : todo'[j] = todo'[l] => j = l
    <3> TAKE j, l \in DOMAIN todo'
    <3> HAVE todo'[j] = todo'[l]
    <3>1. todo[j + 1] = todo[l + 1] /\ j + 1 \in DOMAIN todo /\ l + 1 \in DOMAIN todo
      BY <2>2
    <3>2. j + 1 = l + 1 /\ j \in Nat /\ l \in Nat
      BY <2>1, <2>2, <3>1
    <3> QED  BY <3>2
  <2>4. /\ verdict' = [verdict EXCEPT ![Current] = v] /\ cstate' = "next" /\ i' = 0
        /\ verdict \in [FileNames -> {"none", "complete", "incomplete", "ok", "failed"}]
    BY <1>3 DEF Conclude, TypeInv
  <2>5. verdict' \in [FileNames -> {"none", "complete", "incomplete", "ok", "failed"}]
    BY <2>4
  <2> QED  BY <1>1, <2>2, <2>3, <2>4, <2>5
<1> QED  BY <1>2, <1>3

\* New names go behind those there are, none twice.
LEMMA AddNamesTypes ==
  ASSUME TypeInv, NEW found, found \subseteq FileNames, AddNames(found)
  PROVE  todo' \in Seq(FileNames) /\ \A j, l \in DOMAIN todo' : todo'[j] = todo'[l] => j = l
<1> DEFINE S == found \ ToSet(todo)
<1>1. PICK new \in SetToSeqs(S) : todo' = todo \o new
  BY DEF AddNames
<1>2. IsFiniteSet(S)
  <2>1. IsFiniteSet(FileNames)
    BY SessionAssumption, FS_AddElement DEF FileNames
  <2> QED  BY <2>1, FS_Subset
<1>3. new \in Seq(S) /\ \A j, l \in DOMAIN new : new[j] = new[l] => j = l
  BY <1>1, <1>2, SetToSeqsType
<1>4. todo \in Seq(FileNames) /\ \A j, l \in DOMAIN todo : todo[j] = todo[l] => j = l
  BY DEF TypeInv
<1>5. new \in Seq(FileNames) /\ \A j \in DOMAIN new : new[j] \notin ToSet(todo)
  BY <1>3
<1>6. \A j \in DOMAIN todo : todo[j] \in ToSet(todo)
  BY DEF ToSet
<1> HIDE DEF S
<1>7. /\ todo' \in Seq(FileNames) /\ Len(todo') = Len(todo) + Len(new)
      /\ \A j \in 1..Len(todo') : todo'[j] = IF j <= Len(todo) THEN todo[j] ELSE new[j - Len(todo)]
  BY <1>1, <1>4, <1>5
<1>8. \A j, l \in DOMAIN todo' : todo'[j] = todo'[l] => j = l
  <2> TAKE j, l \in DOMAIN todo'
  <2> HAVE todo'[j] = todo'[l]
  <2>1. j \in 1..Len(todo') /\ l \in 1..Len(todo') /\ Len(todo) \in Nat /\ Len(new) \in Nat
    BY <1>4, <1>5, <1>7
  <2>2. CASE j <= Len(todo) /\ l <= Len(todo)
    BY <1>4, <1>7, <2>1, <2>2
  <2>3. CASE ~(j <= Len(todo)) /\ ~(l <= Len(todo))
    <3>1. j - Len(todo) \in DOMAIN new /\ l - Len(todo) \in DOMAIN new
      BY <1>5, <1>7, <2>1, <2>3
    <3>2. new[j - Len(todo)] = new[l - Len(todo)]
      BY <1>7, <2>1, <2>3
    <3>3. j - Len(todo) = l - Len(todo)
      BY <1>3, <3>1, <3>2
    <3> QED  BY <2>1, <3>3
  <2>4. CASE j <= Len(todo) /\ ~(l <= Len(todo))
    <3>1. j \in DOMAIN todo /\ l - Len(todo) \in DOMAIN new /\ todo[j] = new[l - Len(todo)]
      BY <1>4, <1>5, <1>7, <2>1, <2>4
    <3> QED  BY <1>5, <1>6, <3>1
  <2>5. CASE ~(j <= Len(todo)) /\ l <= Len(todo)
    <3>1. l \in DOMAIN todo /\ j - Len(todo) \in DOMAIN new /\ todo[l] = new[j - Len(todo)]
      BY <1>4, <1>5, <1>7, <2>1, <2>5
    <3> QED  BY <1>5, <1>6, <3>1
  <2> QED  BY <2>2, <2>3, <2>4, <2>5
<1> QED  BY <1>7, <1>8

\* What is left on the wire was there, in this order; what is new is one answer.
LEMMA WireStep ==
  ASSUME TypeInv, Next, NEW s \in Servers
  PROVE  \/ requests'[s] = requests[s] /\ Shortened(wire[s], wire'[s])
         \/ /\ wire'[s] = wire[s]
            /\ s = Peer /\ ClientAsks(LastRequest)
            /\ requests'[s] = Append(requests[s], LastRequest)
         \/ \E n \in 1..Len(requests[s]), a \in AnswerSet :
              /\ ServerStep(s) /\ LeftOf(requests[s], requests'[s], n)
              /\ wire'[s] = Append(wire[s], a)
              /\ a.kind = "name_list" => a.body \subseteq Names
              /\ a.kind = "chunk_list" =>
                   /\ n = 1 /\ requests[s][1].kind = "chunk_query" /\ a.file = requests[s][1].file
                   /\ a.body = RecordsOn(s, a.file)
              /\ a.kind = "chunk_data" =>
                   /\ n = 1 /\ Opens(s, requests[s][1]) /\ a.file = requests[s][1].file
                   /\ a.body = {requests[s][1].record}
<1>1. requests \in [Servers -> Seq(RequestSet)] /\ wire \in [Servers -> Seq(AnswerSet)] /\ Peer \in Servers
  BY PeerType DEF TypeInv
<1>2. Shortened(wire[s], wire[s])
  BY <1>1, NothingRead
<1>3. CASE ClientThinks
  BY <1>2, <1>3 DEF ClientThinks, serverVars
<1>4. CASE ClientReads
  <2>1. s # Peer => wire'[s] = wire[s]
    BY <1>1, <1>4 DEF ClientReads
  <2> QED  BY <1>2, <1>4, <2>1 DEF ClientReads
<1>5. CASE ClientAsks(LastRequest)
  BY <1>1, <1>2, <1>5 DEF ClientAsks, Send
<1>6. ASSUME NEW r \in Servers, ServerStep(r), r # s
      PROVE  requests'[s] = requests[s] /\ wire'[s] = wire[s]
  <2>1. PICK u \in Seq(RequestSet), a \in AnswerSet : Reply(r, u, a)
    BY <1>6, ServersAnswer
  <2> QED  BY <1>1, <1>6, <2>1 DEF Reply
<1>7. CASE ServerStep(s)
  <2>1. PICK n \in 1..Len(requests[s]), u \in Seq(RequestSet), a \in AnswerSet :
           /\ Reply(s, u, a) /\ LeftOf(requests[s], u, n)
           /\ \/ /\ requests[s][1].kind \in {"name_query", "spoilt"}
                 /\ requests[s][1].kind = "spoilt" => Len(requests[s]) > 1
                 /\ a = Error \/ a = Answer("name_list", None, Listed(s))
              \/ /\ requests[s][1].kind = "chunk_query" /\ n = 1
                 /\ \/ a = Error
                    \/ a = Answer("chunk_list", requests[s][1].file, RecordsOn(s, requests[s][1].file))
              \/ /\ requests[s][1].kind = "chunk_list" /\ n = 1
                 /\ \/ a = Error
                    \/ /\ Opens(s, requests[s][1])
                       /\ a = Answer("chunk_data", requests[s][1].file, {requests[s][1].record})
    BY <1>7, ServersAnswer
  <2>2. /\ requests'[s] = u /\ LeftOf(requests[s], requests'[s], n)
        /\ wire'[s] = Append(wire[s], a)
    BY <1>1, <2>1 DEF Reply
  <2>3. disk \in Layouts /\ DOMAIN disk[s] \subseteq Names
    BY LayoutAssumption DEF TypeInv
  <2>4. CASE a = Error
    BY <1>7, <2>1, <2>2, <2>4, MessageFields
  <2>5. CASE a = Answer("name_list", None, Listed(s))
    <3>1. a.kind = "name_list" /\ a.body \subseteq Names
      BY <2>3, <2>5, MessageFields DEF Listed
    <3> QED  BY <1>7, <2>1, <2>2, <3>1
  <2>6. CASE /\ requests[s][1].kind = "chunk_query" /\ n = 1
             /\ a = Answer("chunk_list", requests[s][1].file, RecordsOn(s, requests[s][1].file))
    <3>1. a.kind = "chunk_list" /\ a.file = requests[s][1].file /\ a.body = RecordsOn(s, a.file)
      BY <2>6, MessageFields
    <3> QED  BY <1>7, <2>1, <2>2, <2>6, <3>1
  <2>7. CASE /\ requests[s][1].kind = "chunk_list" /\ n = 1 /\ Opens(s, requests[s][1])
             /\ a = Answer("chunk_data", requests[s][1].file, {requests[s][1].record})
    <3>1. a.kind = "chunk_data" /\ a.file = requests[s][1].file /\ a.body = {requests[s][1].record}
      BY <2>7, MessageFields
    <3> QED  BY <1>7, <2>1, <2>2, <2>7, <3>1
  <2> QED  BY <2>1, <2>4, <2>5, <2>6, <2>7
<1> QED  BY <1>2, <1>3, <1>4, <1>5, <1>6, <1>7, Thinks, ReadsShorten, AsksLast DEF Next, ClientStep

\* Answers are true: they are sent true, and the disks stay as they are.
LEMMA AnswersTrueStep ==
  ASSUME TypeInv, AnswersTrue, Next
  PROVE  AnswersTrue'
<1> DEFINE True(s, m) ==
      /\ m.kind = "name_list" => m.body \subseteq Names
      /\ m.kind = "chunk_list" => m.body = RecordsOn(s, m.file)
      /\ m.kind = "chunk_data" => \E r \in RecordsOn(s, m.file) : m.body = {r}
<1>1. ASSUME NEW s \in Servers, NEW j \in 1..Len(wire'[s])
      PROVE  True(s, wire'[s][j])
  <2>1. wire[s] \in Seq(AnswerSet) /\ wire'[s] \in Seq(AnswerSet)
    BY ChannelTypes DEF TypeInv
  <2>2. \A q \in 1..Len(wire[s]) : True(s, wire[s][q])
    BY DEF AnswersTrue
  <2>3. CASE Shortened(wire[s], wire'[s])
    <3>1. PICK k \in 0..Len(wire[s]) :
            /\ Len(wire'[s]) = Len(wire[s]) - k
            /\ \A q \in 1..Len(wire'[s]) : wire'[s][q] = Rest \/ wire'[s][q] = wire[s][q + k]
      BY <2>3 DEF Shortened
    <3>2. j + k \in 1..Len(wire[s])
      BY <2>1, <3>1
    <3>3. True(s, wire[s][j + k])
      BY <2>2, <3>2
    <3>4. True(s, Rest)
      BY MessageFields
    <3> QED  BY <3>1, <3>3, <3>4
  <2>4. CASE wire'[s] = wire[s]
    BY <2>2, <2>4
  <2>5. ASSUME NEW a \in AnswerSet, wire'[s] = Append(wire[s], a), True(s, a)
        PROVE  True(s, wire'[s][j])
    <3> HIDE DEF True
    <3>1. j \in 1..(Len(wire[s]) + 1) /\ wire'[s][j] = IF j <= Len(wire[s]) THEN wire[s][j] ELSE a
      BY <2>1, <2>5, AppendSeq
    <3>2. j <= Len(wire[s]) => j \in 1..Len(wire[s])
      BY <2>1, <3>1
    <3> QED  BY <2>2, <2>5, <3>1, <3>2
  <2>6. ASSUME NEW n \in 1..Len(requests[s]), NEW a \in AnswerSet,
               wire'[s] = Append(wire[s], a),
               a.kind = "name_list" => a.body \subseteq Names,
               a.kind = "chunk_list" => a.body = RecordsOn(s, a.file),
               a.kind = "chunk_data" => /\ Opens(s, requests[s][1]) /\ a.file = requests[s][1].file
                                        /\ a.body = {requests[s][1].record}
        PROVE  True(s, wire'[s][j])
    <3>1. True(s, a)
      BY <2>6 DEF Opens
    <3> HIDE DEF True
    <3> QED  BY <2>5, <2>6, <3>1
  <2> QED  BY <2>3, <2>4, <2>6, WireStep
<1> QED  BY <1>1, DiskStays DEF AnswersTrue

\* A chunk list added to the table.
LEMMA AddToTableType ==
  ASSUME NEW t, DOMAIN t \subseteq Records, NEW S, t \in [DOMAIN t -> S],
         NEW files, files \subseteq Records, NEW s \in S
  PROVE  /\ DOMAIN AddToTable(t, files, s) = DOMAIN t \cup files
         /\ DOMAIN AddToTable(t, files, s) \subseteq Records
         /\ AddToTable(t, files, s) \in [DOMAIN AddToTable(t, files, s) -> S]
         /\ \A e \in DOMAIN t \cup files :
              AddToTable(t, files, s)[e] = IF e \in files THEN s ELSE t[e]
BY DEF AddToTable

\* What the variables of the client are.
ClientTypes ==
  /\ known \subseteq Servers /\ linked \subseteq known /\ late \subseteq linked
  /\ cstate \in {"idle", "names", "next", "chunks", "choose", "fetch", "done"}
  /\ i \in 0..(N - 1) /\ awaiting \in BOOLEAN
  /\ awaiting => cstate \in {"names", "chunks", "fetch"} /\ Peer \in linked
  /\ todo \in Seq(FileNames) /\ \A j, l \in DOMAIN todo : todo[j] = todo[l] => j = l
  /\ cstate \in {"chunks", "choose", "fetch"} => todo # <<>>
  /\ DOMAIN table \subseteq Records /\ table \in [DOMAIN table -> linked]
  /\ cstate = "fetch" => chosen \in 0..MaxStamp /\ \A c \in Chunks : <<chosen, c>> \in DOMAIN table
  /\ verdict \in [FileNames -> {"none", "complete", "incomplete", "ok", "failed"}]

\* A step that gives up on an answer.
LEMMA FailsTypes ==
  ASSUME TypeInv, awaiting, Fails, late' \subseteq late \cup {Peer}
  PROVE  ClientTypes'
<1>1. Peer \in linked /\ cstate \in {"names", "chunks", "fetch"}
  BY DEF TypeInv
<1>2. UNCHANGED <<disk, known, linked, requests, command, table, chosen, local>> /\ awaiting' = FALSE
  BY DEF Fails
<1>3. CASE cstate = "fetch"
  <2>1. Conclude("failed") /\ todo # <<>>
    BY <1>3 DEF Fails, TypeInv
  <2>2. /\ todo' \in Seq(FileNames) /\ \A j, l \in DOMAIN todo' : todo'[j] = todo'[l] => j = l
        /\ verdict' \in [FileNames -> {"none", "complete", "incomplete", "ok", "failed"}]
        /\ cstate' = "next" /\ i' \in 0..(N - 1)
    BY <2>1, LoopTypes
  <2> QED  BY <1>1, <1>2, <2>2 DEF TypeInv, ClientTypes
<1>4. CASE cstate # "fetch"
  <2>1. NextServer /\ UNCHANGED <<todo, verdict>>
    BY <1>4 DEF Fails
  <2>2. /\ i' \in 0..(N - 1)
        /\ cstate' \in {cstate, "next", "choose"} /\ cstate' # "fetch"
        /\ cstate' \in {"chunks", "choose"} => cstate = "chunks"
    BY <1>1, <1>4, <2>1, LoopTypes
  <2> QED  BY <1>1, <1>2, <2>1, <2>2 DEF TypeInv, ClientTypes
<1> QED  BY <1>3, <1>4

\* The steps that ask nothing and read nothing.
LEMMA ThinkTypes ==
  ASSUME TypeInv, Begin \/ SkipServer \/ NextName \/ ListVerdict \/ GetNothing \/ OpenLocal
  PROVE  ClientTypes'
<1>1. awaiting = FALSE /\ awaiting' = FALSE
  BY Thinks DEF ClientThinks, TypeInv
<1>2. CASE Begin
  <2>1. linked' \subseteq known /\ linked \subseteq linked'
    BY <1>2 DEF Begin, Connect, TypeInv
  <2>2. todo' \in Seq(FileNames) /\ \A j, l \in DOMAIN todo' : todo'[j] = todo'[l] => j = l
    <3>1. CASE todo' = todo
      BY <3>1 DEF TypeInv
    <3>2. CASE \E args \in SUBSET Arguments : todo' \in SetToSeqs(args)
      <4>1. PICK args \in SUBSET Arguments : todo' \in SetToSeqs(args)
        BY <3>2
      <4>2. args \subseteq FileNames /\ IsFiniteSet(args)
        BY <4>1, SessionAssumption, FS_Subset DEF FileNames
      <4>3. todo' \in Seq(args) /\ \A j, l \in DOMAIN todo' : todo'[j] = todo'[l] => j = l
        BY <4>1, <4>2, SetToSeqsType
      <4> QED  BY <4>2, <4>3
    <3> QED  BY <1>2, <3>1, <3>2 DEF Begin
  <2>3. cstate' \in {"names", "next"} /\ UNCHANGED <<known, late, i, table, verdict>>
    BY <1>2 DEF Begin
  <2> QED  BY <1>1, <2>1, <2>2, <2>3 DEF TypeInv, ClientTypes
<1>3. CASE SkipServer
  <2>1. NextServer /\ cstate \in {"names", "chunks"}
    BY <1>3 DEF SkipServer
  <2>2. UNCHANGED <<known, linked, late, todo, table, chosen, verdict>>
    BY <1>3 DEF SkipServer, fileVars
  <2>3. /\ i' \in 0..(N - 1) /\ cstate' \in {cstate, "next", "choose"} /\ cstate' # "fetch"
        /\ cstate' \in {"chunks", "choose"} => cstate = "chunks"
    BY <2>1, LoopTypes
  <2> QED  BY <1>1, <2>2, <2>3 DEF TypeInv, ClientTypes
<1>4. CASE NextName
  <2>1. linked' \subseteq known /\ linked \subseteq linked'
    BY <1>4 DEF NextName, Connect, TypeInv
  <2>2. UNCHANGED <<known, late, i, todo, verdict>> /\ cstate' \in {"done", "chunks"}
        /\ (cstate' = "chunks" => todo # <<>>)
    BY <1>4 DEF NextName
  <2>3. table' = table \/ table' = <<>>
    BY <1>4 DEF NextName
  <2>4. DOMAIN table' \subseteq Records /\ table' \in [DOMAIN table' -> linked']
    <3>1. CASE table' = <<>>
      BY <3>1
    <3>2. CASE table' = table
      BY <2>1, <3>2 DEF TypeInv
    <3> QED  BY <2>3, <3>1, <3>2
  <2> QED  BY <1>1, <2>1, <2>2, <2>4 DEF TypeInv, ClientTypes
<1>5. CASE ListVerdict \/ GetNothing
  <2>1. PICK v \in {"complete", "incomplete", "failed"} : Conclude(v)
    BY <1>5 DEF ListVerdict, GetNothing
  <2>2. todo # <<>> /\ UNCHANGED <<known, linked, late, table, chosen>>
    BY <1>5 DEF ListVerdict, GetNothing, TypeInv
  <2>3. /\ todo' \in Seq(FileNames) /\ \A j, l \in DOMAIN todo' : todo'[j] = todo'[l] => j = l
        /\ verdict' \in [FileNames -> {"none", "complete", "incomplete", "ok", "failed"}]
        /\ cstate' = "next" /\ i' \in 0..(N - 1)
    BY <2>1, <2>2, LoopTypes
  <2> QED  BY <1>1, <2>2, <2>3 DEF TypeInv, ClientTypes
<1>6. CASE OpenLocal
  <2>1. DOMAIN table \subseteq (0..MaxStamp) \X Chunks /\ MaxStamp \in Nat
    BY SessionAssumption DEF TypeInv, Records
  <2>2. chosen' = FindLatestValidSet(table) /\ chosen' # None
    BY <1>6 DEF OpenLocal
  <2>3. chosen' \in 0..MaxStamp /\ \A c \in Chunks : <<chosen', c>> \in DOMAIN table
    BY <2>1, <2>2, LatestValidSet
  <2>4. cstate = "choose" /\ cstate' = "fetch" /\ UNCHANGED <<known, linked, late, i, todo, table, verdict>>
    BY <1>6 DEF OpenLocal
  <2> QED  BY <1>1, <2>3, <2>4 DEF TypeInv, ClientTypes
<1> QED  BY <1>2, <1>3, <1>4, <1>5, <1>6

\* The steps that read what was expected.
LEMMA ReadTypes ==
  ASSUME TypeInv, AnswersTrue, ReadNames \/ ReadChunks \/ ReadChunk
  PROVE  ClientTypes'
<1>1. awaiting /\ awaiting' = FALSE /\ Peer \in linked /\ Peer \in Servers /\ linked \subseteq Servers
  BY ReadsShorten DEF ClientReads, TypeInv
<1>2. wire[Peer] \in Seq(AnswerSet) /\ wire[Peer] # <<>>
  BY <1>1 DEF TypeInv, ReadNames, ReadChunks, ReadChunk, Finds
<1>3. Head(wire[Peer]) = wire[Peer][1] /\ 1 \in 1..Len(wire[Peer])
  BY <1>2
<1>4. CASE ReadNames
  <2>1. Peer = i /\ cstate = "names" /\ Head(wire[i]).kind = "name_list"
    BY <1>4 DEF ReadNames, Finds, Peer
  <2>2. Head(wire[i]).body \subseteq Names
    BY <1>1, <1>3, <2>1 DEF AnswersTrue
  <2>3. \E found : found \subseteq FileNames /\ AddNames(found)
    BY <1>4, <2>2 DEF ReadNames, FileNames
  <2>4. todo' \in Seq(FileNames) /\ \A j, l \in DOMAIN todo' : todo'[j] = todo'[l] => j = l
    BY <2>3, AddNamesTypes
  <2>5. NextServer /\ UNCHANGED <<known, linked, table, chosen, verdict>> /\ late' \subseteq late \cup {i}
    BY <1>4 DEF ReadNames, Takes, TakesPart
  <2>6. i' \in 0..(N - 1) /\ cstate' \in {"names", "next"}
    BY <2>1, <2>5, LoopTypes
  <2> QED  BY <1>1, <2>1, <2>4, <2>5, <2>6 DEF TypeInv, ClientTypes
<1>5. CASE ReadChunks
  <2>1. Peer = i /\ cstate = "chunks" /\ Head(wire[i]).kind = "chunk_list"
    BY <1>5 DEF ReadChunks, Finds, Peer
  <2>2. Head(wire[i]).body = RecordsOn(i, Head(wire[i]).file)
    BY <1>1, <1>3, <2>1 DEF AnswersTrue
  <2>3. Head(wire[i]).body \subseteq Records
    BY <1>1, <2>1, <2>2, RecordsOnType DEF TypeInv
  <2>4. PICK files : files \subseteq Records /\ table' = AddToTable(table, files, i)
    BY <1>5, <2>3 DEF ReadChunks
  <2>5. DOMAIN table' \subseteq Records /\ table' \in [DOMAIN table' -> linked]
    BY <1>1, <2>1, <2>4, AddToTableType DEF TypeInv
  <2>6. NextServer /\ UNCHANGED <<known, linked, todo, chosen, verdict>> /\ late' \subseteq late \cup {i}
    BY <1>5 DEF ReadChunks, Takes, TakesPart
  <2>7. i' \in 0..(N - 1) /\ cstate' \in {"chunks", "choose"}
    BY <2>1, <2>6, LoopTypes
  <2> QED  BY <1>1, <2>1, <2>5, <2>6, <2>7 DEF TypeInv, ClientTypes
<1>6. CASE ReadChunk
  <2>1. cstate = "fetch" /\ late' = late /\ UNCHANGED <<known, linked, table, chosen>>
    BY <1>6 DEF ReadChunk, Takes
  <2>2. CASE i + 1 < N
    <3>1. i' = i + 1 /\ UNCHANGED <<todo, verdict, cstate>>
      BY <1>6, <2>2 DEF ReadChunk
    <3>2. i' \in 0..(N - 1)
      BY <2>2, <3>1, PlacementAssumption DEF TypeInv
    <3> QED  BY <1>1, <2>1, <3>1, <3>2 DEF TypeInv, ClientTypes
  <2>3. CASE ~(i + 1 < N)
    <3>1. Conclude("ok") /\ todo # <<>>
      BY <1>6, <2>3 DEF ReadChunk, TypeInv
    <3>2. /\ todo' \in Seq(FileNames) /\ \A j, l \in DOMAIN todo' : todo'[j] = todo'[l] => j = l
          /\ verdict' \in [FileNames -> {"none", "complete", "incomplete", "ok", "failed"}]
          /\ cstate' = "next" /\ i' \in 0..(N - 1)
      BY <3>1, LoopTypes
    <3> QED  BY <1>1, <2>1, <3>2 DEF TypeInv, ClientTypes
  <2> QED  BY <2>2, <2>3
<1> QED  BY <1>4, <1>5, <1>6

\* The variables of the client have their types after every step.
LEMMA ClientTypesStep ==
  ASSUME TypeInv, AnswersTrue, Next
  PROVE  ClientTypes'
<1>1. CASE TimeOut \/ ReadWrong
  <2>1. awaiting /\ Fails /\ late' \subseteq late \cup {Peer}
    BY <1>1 DEF TimeOut, ReadWrong
  <2> QED  BY <2>1, FailsTypes
<1>2. CASE ClientAsks(LastRequest)
  <2>1. /\ UNCHANGED <<known, linked, cstate, i, todo, table, chosen, verdict, late>>
        /\ awaiting' = TRUE /\ Peer \in linked /\ cstate \in {"names", "chunks", "fetch"}
    BY <1>2 DEF ClientAsks, Send, fileVars
  <2>2. Peer' = Peer
    BY <2>1 DEF Peer
  <2> QED  BY <2>1, <2>2 DEF TypeInv, ClientTypes
<1>3. ASSUME NEW s \in Servers, ServerStep(s)
      PROVE  ClientTypes'
  <2>1. PICK u \in Seq(RequestSet), a \in AnswerSet : Reply(s, u, a)
    BY <1>3, ServersAnswer
  <2>2. UNCHANGED <<known, linked, cstate, i, todo, table, chosen, verdict, late, awaiting>>
    BY <2>1 DEF Reply, fileVars
  <2>3. Peer' = Peer
    BY <2>2 DEF Peer
  <2> QED  BY <2>2, <2>3 DEF TypeInv, ClientTypes
<1> QED  BY <1>1, <1>2, <1>3, ThinkTypes, ReadTypes, AsksLast DEF Next, ClientStep

\* Together: the types, and the truth of the answers, are kept by every step.
LEMMA TypeInvStep ==
  ASSUME TypeInv, AnswersTrue, [Next]_vars
  PROVE  TypeInv' /\ AnswersTrue'
<1>1. CASE Next
  <2>1. TypeInv'
    BY <1>1, ClientTypesStep, ChannelTypes DEF TypeInv, ClientTypes
  <2> QED  BY <1>1, <2>1, AnswersTrueStep
<1>2. CASE UNCHANGED vars
  <2>1. Peer' = Peer
    BY <1>2 DEF vars, fileVars, Peer
  <2>2. TypeInv'
    BY <1>2, <2>1 DEF TypeInv, vars, serverVars, fileVars
  <2>3. AnswersTrue'
    BY <1>2, DiskStays DEF AnswersTrue, vars, serverVars
  <2> QED  BY <2>2, <2>3
<1> QED  BY <1>1, <1>2

\* They hold at the start: there is nothing on the connections.
LEMMA TypeInvInit == Init => TypeInv /\ AnswersTrue
<1> SUFFICES ASSUME Init PROVE TypeInv /\ AnswersTrue
  OBVIOUS
<1>1. 0 \in 0..(N - 1)
  BY PlacementAssumption
<1>2. requests \in [Servers -> Seq(RequestSet)] /\ wire \in [Servers -> Seq(AnswerSet)]
  BY DEF Init
<1>3. DOMAIN table \subseteq Records /\ table \in [DOMAIN table -> linked]
  BY DEF Init
<1>4. verdict \in [FileNames -> {"none", "complete", "incomplete", "ok", "failed"}]
  BY DEF Init, FileNames
<1>5. TypeInv
  <2>1. todo \in Seq(FileNames) /\ \A j, l \in DOMAIN todo : todo[j] = todo[l] => j = l
    BY DEF Init
  <2>2. /\ disk \in Layouts /\ known \subseteq Servers /\ linked = {} /\ late = {}
        /\ cstate = "idle" /\ i = 0 /\ awaiting = FALSE
    BY DEF Init
  <2> QED  BY <1>1, <1>2, <1>3, <1>4, <2>1, <2>2 DEF TypeInv
<1>6. AnswersTrue
  BY DEF Init, AnswersTrue
<1> QED  BY <1>5, <1>6

\* The types, and the truth of the answers, in every reachable state.
THEOREM SessionTypeInv == Spec => [](TypeInv /\ AnswersTrue)
<1>1. TypeInv /\ AnswersTrue /\ [Next]_vars => (TypeInv /\ AnswersTrue)'
  BY TypeInvStep
<1> QED  BY <1>1, TypeInvInit, PTL DEF Spec

\* Every variable has the values the code gives it, and the name table has no name
\* twice.
THEOREM SessionTypeOK == Spec => []TypeOK
<1>1. TypeInv => TypeOK
  <2> SUFFICES ASSUME TypeInv PROVE TypeOK
    OBVIOUS
  <2>1. ASSUME NEW s \in Servers, NEW j \in DOMAIN requests[s]
        PROVE  /\ requests[s][j].kind \in {"name_query", "chunk_query", "chunk_list", "spoilt"}
               /\ requests[s][j].file \in FileNames \cup {None}
    <3>1. requests[s][j] \in RequestSet
      BY DEF TypeInv
    <3> QED  BY <3>1 DEF RequestSet
  <2>2. ASSUME NEW s \in Servers, NEW j \in DOMAIN wire[s]
        PROVE  wire[s][j].kind \in {"name_list", "chunk_list", "chunk_data", "error", "rest"}
    <3>1. wire[s][j] \in AnswerSet
      BY DEF TypeInv
    <3> QED  BY <3>1 DEF AnswerSet
  <2>3. \A j, l \in DOMAIN todo : todo[j] \in FileNames /\ (todo[j] = todo[l] => j = l)
    BY DEF TypeInv
  <2> QED  BY <2>1, <2>2, <2>3 DEF TypeInv, TypeOK
<1> QED  BY <1>1, SessionTypeInv, PTL

-----------------------------------------------------------------------------
(* Requests and answers in step                                            *)

\* Where a read does not make the connection late, it empties one that was in step.
LEMMA ReadsAll ==
  ASSUME TypeInv, InStep, TimeOut \/ ReadWrong \/ ReadNames \/ ReadChunks \/ ReadChunk
  PROVE  /\ late \subseteq late'
         /\ Peer \notin late' =>
              /\ requests[Peer] = <<>> /\ wire'[Peer] = <<>>
              /\ \E a \in MayAnswer(Peer, LastRequest) : wire[Peer] = <<a>>
<1>1. Peer \in Servers /\ awaiting /\ wire[Peer] \in Seq(AnswerSet)
  BY PeerType, ReadsShorten DEF ClientReads, TypeInv
<1>2. late \subseteq late'
  BY DEF TimeOut, ReadWrong, ReadNames, ReadChunks, ReadChunk, Takes, TakesPart
<1>3. ASSUME Peer \notin late'
      PROVE  /\ wire[Peer] # <<>>
             /\ \/ wire' = [wire EXCEPT ![Peer] = <<>>]
                \/ wire' = [wire EXCEPT ![Peer] = Tail(@)]
  <2>1. ~TimeOut
    BY <1>3 DEF TimeOut
  <2>2. CASE ReadWrong
    BY <1>3, <2>2 DEF ReadWrong
  <2>3. CASE ReadNames \/ ReadChunks
    <3>1. Peer = i
      BY <2>3 DEF ReadNames, ReadChunks, Peer
    <3> QED  BY <1>3, <2>3, <3>1 DEF ReadNames, ReadChunks, Finds, Takes, TakesPart
  <2>4. CASE ReadChunk
    BY <2>4 DEF ReadChunk, Finds, Takes
  <2> QED  BY <2>1, <2>2, <2>3, <2>4
<1>4. ASSUME Peer \notin late'
      PROVE  /\ requests[Peer] = <<>> /\ wire'[Peer] = <<>>
             /\ \E a \in MayAnswer(Peer, LastRequest) : wire[Peer] = <<a>>
  <2>1. Peer \in Servers \ late /\ wire[Peer] # <<>>
    BY <1>1, <1>2, <1>3, <1>4
  <2>2. requests[Peer] = <<>> /\ \E a \in MayAnswer(Peer, LastRequest) : wire[Peer] = <<a>>
    BY <1>1, <2>1 DEF InStep
  <2>3. Tail(wire[Peer]) = <<>>
    BY <2>2
  <2>4. wire'[Peer] = <<>>
    BY <1>1, <1>3, <1>4, <2>3 DEF TypeInv
  <2> QED  BY <2>2, <2>4
<1> QED  BY <1>2, <1>4

\* What was asked last stays what was asked last.
LEMMA LastRequestStays ==
  ASSUME UNCHANGED <<cstate, i, todo, table, chosen>>
  PROVE  Peer' = Peer /\ LastRequest' = LastRequest
BY DEF Peer, LastRequest, Current

\* The answer of a server to the one request it has.
LEMMA AnswersInStep ==
  ASSUME TypeInv, NEW s \in Servers, ServerStep(s), NEW r, requests[s] = <<r>>, wire[s] = <<>>
  PROVE  /\ requests'[s] = <<>> /\ \E a \in MayAnswer(s, r) : wire'[s] = <<a>>
         /\ \A q \in Servers : q # s => SameChannel(q)
         /\ UNCHANGED <<awaiting, cstate, i, todo, table, chosen, late>>
<1>1. PICK n \in 1..Len(requests[s]), u \in Seq(RequestSet), a \in AnswerSet :
           /\ Reply(s, u, a) /\ LeftOf(requests[s], u, n)
           /\ \/ /\ requests[s][1].kind \in {"name_query", "spoilt"}
                 /\ requests[s][1].kind = "spoilt" => Len(requests[s]) > 1
                 /\ a = Error \/ a = Answer("name_list", None, Listed(s))
              \/ /\ requests[s][1].kind = "chunk_query" /\ n = 1
                 /\ \/ a = Error
                    \/ a = Answer("chunk_list", requests[s][1].file, RecordsOn(s, requests[s][1].file))
              \/ /\ requests[s][1].kind = "chunk_list" /\ n = 1
                 /\ \/ a = Error
                    \/ /\ Opens(s, requests[s][1])
                       /\ a = Answer("chunk_data", requests[s][1].file, {requests[s][1].record})
  BY ServersAnswer
<1>2. requests[s][1] = r /\ Len(requests[s]) = 1 /\ n = 1
  OBVIOUS
<1>3. u = <<>> /\ Append(wire[s], a) = <<a>>
  BY <1>1, <1>2 DEF LeftOf
<1>4. requests'[s] = <<>> /\ wire'[s] = <<a>>
  BY <1>1, <1>3 DEF Reply, TypeInv
<1>5. \A q \in Servers : q # s => SameChannel(q)
  BY <1>1 DEF Reply, TypeInv, SameChannel
<1>6. a \in MayAnswer(s, r)
  BY <1>1, <1>2 DEF MayAnswer
<1>7. UNCHANGED <<awaiting, cstate, i, todo, table, chosen, late>>
  BY <1>1 DEF Reply, fileVars
<1> QED  BY <1>4, <1>5, <1>6, <1>7

\* InStep is inductive: the client asks once, and reads the whole answer or counts
\* the connection among the late ones.
LEMMA InStepStep ==
  ASSUME TypeInv, InStep, [Next]_vars
  PROVE  InStep'
<1>1. requests \in [Servers -> Seq(RequestSet)] /\ wire \in [Servers -> Seq(AnswerSet)] /\ Peer \in Servers
  BY PeerType DEF TypeInv
<1>2. \A s, r : MayAnswer(s, r)' = MayAnswer(s, r)
  BY DiskStays DEF MayAnswer, Listed
<1>3. CASE ClientThinks
  <2>1. \A s \in Servers \ late' : requests'[s] = <<>> /\ wire'[s] = <<>> /\ ~awaiting'
    BY <1>3 DEF ClientThinks, serverVars, InStep
  <2> QED  BY <2>1 DEF InStep
<1>4. CASE TimeOut \/ ReadWrong \/ ReadNames \/ ReadChunks \/ ReadChunk
  <2>1. awaiting' = FALSE /\ ClientReads
    BY <1>4, ReadsShorten
  <2>2. ASSUME NEW s \in Servers \ late'
        PROVE  requests'[s] = <<>> /\ wire'[s] = <<>>
    <3>1. CASE s = Peer
      BY <1>4, <2>1, <2>2, <3>1, ReadsAll DEF ClientReads
    <3>2. CASE s # Peer
      <4>1. s \notin late
        BY <1>4, <2>2, ReadsAll
      <4>2. requests[s] = <<>> /\ wire[s] = <<>>
        BY <2>1, <3>2, <4>1 DEF InStep, ClientReads
      <4> QED  BY <1>1, <2>1, <3>2, <4>2 DEF ClientReads
    <3> QED  BY <3>1, <3>2
  <2> QED  BY <2>1, <2>2 DEF InStep
<1>5. CASE ClientAsks(LastRequest)
  <2>1. /\ requests' = [requests EXCEPT ![Peer] = Append(@, LastRequest)] /\ awaiting' = TRUE
        /\ UNCHANGED <<wire, cstate, i, todo, table, chosen, late>> /\ ~awaiting
    BY <1>5 DEF ClientAsks, Send, fileVars
  <2>2. Peer' = Peer /\ LastRequest' = LastRequest
    BY <2>1, LastRequestStays
  <2>3. \A s \in Servers \ late : requests[s] = <<>> /\ wire[s] = <<>>
    BY <2>1 DEF InStep
  <2>4. Append(<<>>, LastRequest) = <<LastRequest>>
    OBVIOUS
  <2>5. \A s \in Servers \ late' :
           /\ wire'[s] = <<>>
           /\ requests'[s] = IF s = Peer THEN <<LastRequest>> ELSE <<>>
    BY <1>1, <2>1, <2>3, <2>4
  <2> QED  BY <2>1, <2>2, <2>5 DEF InStep
<1>6. ASSUME NEW r \in Servers, ServerStep(r)
      PROVE  InStep'
  <2>1. PICK u \in Seq(RequestSet), a \in AnswerSet : Reply(r, u, a)
    BY <1>6, ServersAnswer
  <2>2. UNCHANGED <<awaiting, cstate, i, todo, table, chosen, late>>
    BY <2>1 DEF Reply, fileVars
  <2>3. Peer' = Peer /\ LastRequest' = LastRequest
    BY <2>2, LastRequestStays
  <2>4. \A q \in Servers : q # r => requests'[q] = requests[q] /\ wire'[q] = wire[q]
    BY <1>1, <2>1 DEF Reply
  <2>5. ASSUME r \notin late
        PROVE  /\ awaiting /\ r = Peer /\ requests'[r] = <<>>
               /\ \E x \in MayAnswer(r, LastRequest) : wire'[r] = <<x>>
    <3>1. requests[r] # <<>>
      BY <1>6 DEF ServerStep, HandleNameQuery, HandleChunkQuery, SendChunk, Asked
    <3>2. awaiting /\ r = Peer /\ requests[r] = <<LastRequest>> /\ wire[r] = <<>>
      BY <2>5, <3>1 DEF InStep
    <3> QED  BY <1>6, <3>2, AnswersInStep
  <2> QED  BY <1>2, <2>2, <2>3, <2>4, <2>5 DEF InStep
<1>7. CASE UNCHANGED vars
  <2>1. UNCHANGED <<requests, wire, awaiting, cstate, i, todo, table, chosen, late>>
    BY <1>7 DEF vars, serverVars, fileVars
  <2>2. Peer' = Peer /\ LastRequest' = LastRequest
    BY <2>1, LastRequestStays
  <2> QED  BY <1>2, <2>1, <2>2 DEF InStep
<1> QED  BY <1>3, <1>4, <1>5, <1>6, <1>7, Thinks, AsksLast DEF Next, ClientStep

\* Requests and answers stay in step on every connection where no answer was late or
\* cut.
THEOREM SessionInStep == Spec => []InStep
<1>1. Init => InStep
  BY DEF Init, InStep
<1>2. (TypeInv /\ AnswersTrue) /\ InStep /\ [Next]_vars => InStep'
  BY InStepStep
<1> QED  BY <1>1, <1>2, SessionTypeInv, PTL DEF Spec

-----------------------------------------------------------------------------
(* What the chunk table tells                                              *)

Round == cstate \in {"chunks", "choose", "fetch"}

\* Files that the command has not been through and is not at.
Unmet == {f \in Names : verdict[f] = "none" /\ ~(Round /\ f = Current)}

\* Chunks are asked for of such files only.
AsksMet ==
  \A s \in Servers :
    /\ \A p \in 1..Len(wire[s]) : wire[s][p].kind = "chunk_list" => wire[s][p].file \notin Unmet
    /\ \A p \in 1..Len(requests[s]) : requests[s][p].kind = "chunk_query" =>
         requests[s][p].file \notin Unmet

\* How a step of the client moves on: it stays with the current name, or is done with
\* it, or goes to the next one; and in which cases the table changes.
LEMMA RoundStep ==
  ASSUME TypeInv, [Next]_vars
  PROVE  \/ /\ UNCHANGED <<todo, verdict>> /\ (Round' <=> Round)
            /\ Round => UNCHANGED table \/ ReadChunks
         \/ /\ Round /\ ~Round'
            /\ \E v \in {"complete", "incomplete", "ok", "failed"} : Conclude(v)
         \/ /\ cstate = "next" /\ Round' /\ UNCHANGED <<todo, verdict>> /\ table' = <<>>
         \/ /\ cstate \in {"idle", "names", "next"} /\ ~Round' /\ UNCHANGED verdict
<1> USE DEF Round
<1>1. CASE Begin \/ NextName
  BY <1>1 DEF Begin, NextName
<1>2. CASE ListVerdict \/ GetNothing
  BY <1>2 DEF ListVerdict, GetNothing, Conclude
<1>3. CASE OpenLocal
  BY <1>3 DEF OpenLocal
<1>4. CASE SkipServer
  <2>1. NextServer /\ cstate \in {"names", "chunks"} /\ UNCHANGED <<todo, verdict, table>>
    BY <1>4 DEF SkipServer, fileVars
  <2> QED  BY <2>1, LoopTypes
<1>5. CASE TimeOut \/ ReadWrong
  <2>1. awaiting /\ Fails
    BY <1>5 DEF TimeOut, ReadWrong
  <2>2. CASE cstate = "fetch"
    BY <2>1, <2>2 DEF Fails, Conclude
  <2>3. CASE cstate # "fetch"
    <3>1. NextServer /\ cstate \in {"names", "chunks"} /\ UNCHANGED <<todo, verdict, table>>
      BY <2>1, <2>3 DEF Fails, TypeInv
    <3> QED  BY <3>1, LoopTypes
  <2> QED  BY <2>2, <2>3
<1>6. CASE ReadNames
  <2>1. NextServer /\ cstate = "names" /\ UNCHANGED verdict
    BY <1>6 DEF ReadNames
  <2> QED  BY <2>1, LoopTypes
<1>7. CASE ReadChunks
  <2>1. NextServer /\ cstate = "chunks" /\ UNCHANGED <<todo, verdict>>
    BY <1>7 DEF ReadChunks
  <2> QED  BY <1>7, <2>1, LoopTypes
<1>8. CASE ReadChunk
  BY <1>8 DEF ReadChunk, Conclude
<1>9. CASE ClientAsks(LastRequest)
  BY <1>9 DEF ClientAsks, Send, fileVars
<1>10. ASSUME NEW s \in Servers, ServerStep(s)
       PROVE  UNCHANGED <<todo, verdict, cstate, table>>
  <2>1. PICK u \in Seq(RequestSet), a \in AnswerSet : Reply(s, u, a)
    BY <1>10, ServersAnswer
  <2> QED  BY <2>1 DEF Reply, fileVars
<1>11. CASE UNCHANGED vars
  BY <1>11 DEF vars, fileVars
<1> QED  BY <1>1, <1>2, <1>3, <1>4, <1>5, <1>6, <1>7, <1>8, <1>9, <1>10, <1>11, AsksLast
         DEF Next, ClientStep

\* What was met stays met: the current name gets its verdict before the next one is
\* current.
LEMMA MetStays ==
  ASSUME TypeInv, [Next]_vars
  PROVE  Unmet' \subseteq Unmet
<1>1. CASE UNCHANGED <<todo, verdict>> /\ (Round' <=> Round)
  BY <1>1 DEF Unmet, Current
<1>2. CASE Round /\ \E v \in {"complete", "incomplete", "ok", "failed"} : Conclude(v)
  <2>1. PICK v \in {"complete", "incomplete", "ok", "failed"} : Conclude(v)
    BY <1>2
  <2>2. Current \in FileNames
    BY <1>2 DEF TypeInv, Round, Current
  <2>3. verdict' = [verdict EXCEPT ![Current] = v] /\ v # "none"
    BY <2>1 DEF Conclude
  <2>4. \A f : f \in Names => f \in FileNames
    BY DEF FileNames
  <2>5. \A f \in FileNames : verdict'[f] = IF f = Current THEN v ELSE verdict[f]
    BY <2>2, <2>3 DEF TypeInv
  <2> QED  BY <2>3, <2>4, <2>5 DEF Unmet
<1>3. CASE cstate \in {"idle", "names", "next"} /\ UNCHANGED verdict
  BY <1>3 DEF Unmet, Round
<1> QED  BY <1>1, <1>2, <1>3, RoundStep

\* No list is asked for, or answered, of a name the loop has not come to.
LEMMA AsksMetStep ==
  ASSUME TypeInv, AsksMet, [Next]_vars
  PROVE  AsksMet'
<1>1. CASE UNCHANGED vars
  <2>1. UNCHANGED <<wire, requests>>
    BY <1>1 DEF vars, serverVars
  <2> QED  BY <2>1, MetStays DEF AsksMet
<1>2. ASSUME Next, NEW s \in Servers
      PROVE  /\ \A p \in 1..Len(wire'[s]) : wire'[s][p].kind = "chunk_list" => wire'[s][p].file \notin Unmet'
             /\ \A p \in 1..Len(requests'[s]) :
                  requests'[s][p].kind = "chunk_query" => requests'[s][p].file \notin Unmet'
  <2>1. /\ \A p \in 1..Len(wire[s]) : wire[s][p].kind = "chunk_list" => wire[s][p].file \notin Unmet'
        /\ \A p \in 1..Len(requests[s]) : requests[s][p].kind = "chunk_query" => requests[s][p].file \notin Unmet'
    BY MetStays DEF AsksMet
  <2>2. wire[s] \in Seq(AnswerSet) /\ requests[s] \in Seq(RequestSet)
    BY DEF TypeInv
  <2>3. ClientAsks(LastRequest) /\ LastRequest.kind = "chunk_query" => LastRequest.file \notin Unmet'
    <3> SUFFICES ASSUME ClientAsks(LastRequest), LastRequest.kind = "chunk_query"
                 PROVE  LastRequest.file \notin Unmet'
      OBVIOUS
    <3>1. UNCHANGED <<cstate, todo>> /\ cstate \in {"names", "chunks", "fetch"}
      BY DEF ClientAsks, Send, fileVars
    <3>2. cstate = "chunks" /\ LastRequest.file = Current
      BY <3>1, MessageFields DEF LastRequest
    <3> QED  BY <3>1, <3>2 DEF Unmet, Round, Current
  <2>4. CASE requests'[s] = requests[s] /\ Shortened(wire[s], wire'[s])
    <3>1. PICK k \in 0..Len(wire[s]) :
            /\ Len(wire'[s]) = Len(wire[s]) - k
            /\ \A q \in 1..Len(wire'[s]) : wire'[s][q] = Rest \/ wire'[s][q] = wire[s][q + k]
      BY <2>4 DEF Shortened
    <3>2. ASSUME NEW p \in 1..Len(wire'[s]), wire'[s][p].kind = "chunk_list"
          PROVE  wire'[s][p].file \notin Unmet'
      <4>1. p + k \in 1..Len(wire[s])
        BY <2>2, <3>1
      <4>2. wire'[s][p] # Rest
        BY <3>2, MessageFields
      <4> QED  BY <2>1, <3>1, <3>2, <4>1, <4>2
    <3> QED  BY <2>1, <2>4, <3>2
  <2>5. CASE /\ wire'[s] = wire[s] /\ s = Peer /\ ClientAsks(LastRequest)
             /\ requests'[s] = Append(requests[s], LastRequest)
    <3>1. LastRequest \in RequestSet
      BY <2>5 DEF ClientAsks
    <3>2. ASSUME NEW p \in 1..Len(requests'[s]), requests'[s][p].kind = "chunk_query"
          PROVE  requests'[s][p].file \notin Unmet'
      <4>1. /\ p \in 1..(Len(requests[s]) + 1)
            /\ requests'[s][p] = IF p <= Len(requests[s]) THEN requests[s][p] ELSE LastRequest
        BY <2>2, <2>5, <3>1, AppendSeq
      <4>2. p <= Len(requests[s]) => p \in 1..Len(requests[s])
        BY <2>2, <4>1
      <4> QED  BY <2>1, <2>3, <2>5, <3>2, <4>1, <4>2
    <3> QED  BY <2>1, <2>5, <3>2
  <2>6. ASSUME NEW n \in 1..Len(requests[s]), NEW a \in AnswerSet,
               LeftOf(requests[s], requests'[s], n),
               wire'[s] = Append(wire[s], a),
               a.kind = "chunk_list" => /\ requests[s][1].kind = "chunk_query"
                                        /\ a.file = requests[s][1].file
        PROVE  /\ \A p \in 1..Len(wire'[s]) : wire'[s][p].kind = "chunk_list" => wire'[s][p].file \notin Unmet'
               /\ \A p \in 1..Len(requests'[s]) :
                    requests'[s][p].kind = "chunk_query" => requests'[s][p].file \notin Unmet'
    <3>1. a.kind = "chunk_list" => a.file \notin Unmet'
      <4>1. 1 \in 1..Len(requests[s])
        BY <2>2, <2>6
      <4> QED  BY <2>1, <2>6, <4>1
    <3>2. ASSUME NEW p \in 1..Len(wire'[s]), wire'[s][p].kind = "chunk_list"
          PROVE  wire'[s][p].file \notin Unmet'
      <4>1. p \in 1..(Len(wire[s]) + 1) /\ wire'[s][p] = IF p <= Len(wire[s]) THEN wire[s][p] ELSE a
        BY <2>2, <2>6, AppendSeq
      <4>2. p <= Len(wire[s]) => p \in 1..Len(wire[s])
        BY <2>2, <4>1
      <4> QED  BY <2>1, <3>1, <3>2, <4>1, <4>2
    <3>3. ASSUME NEW p \in 1..Len(requests'[s]), requests'[s][p].kind = "chunk_query"
          PROVE  requests'[s][p].file \notin Unmet'
      <4>1. /\ p + n \in 1..Len(requests[s])
            /\ requests'[s][p] = Spoilt \/ requests'[s][p] = requests[s][p + n]
        BY <2>2, <2>6 DEF LeftOf
      <4>2. requests'[s][p] # Spoilt
        BY <3>3, MessageFields
      <4> QED  BY <2>1, <3>3, <4>1, <4>2
    <3> QED  BY <3>2, <3>3
  <2> QED  BY <1>2, <2>4, <2>5, <2>6, WireStep
<1> QED  BY <1>1, <1>2 DEF AsksMet

\* What the table tells stays true: it takes records from lists of files that have
\* been met, and, on a connection in step, from the list of the current file.
LEMMA TableTrueStep ==
  ASSUME TypeInv, AnswersTrue, InStep, AsksMet, TableTrue, [Next]_vars
  PROVE  TableTrue'
<1>1. late \subseteq late'
  BY DEF Next, ClientStep, ServerStep, Begin, SkipServer, TimeOut, ReadWrong, AskNames, ReadNames,
    NextName, AskChunks, ReadChunks, ListVerdict, GetNothing, OpenLocal, AskChunk, ReadChunk,
    HandleNameQuery, HandleChunkQuery, SendChunk, Takes, TakesPart, Send, Reply, vars
<1> DEFINE About(e, s, f) == e \in RecordsOn(s, f) /\ (s \notin late' => f = Current)
           Seen == {Current} \cup {g \in Names : verdict[g] # "none"}
<1>2. CASE /\ Round /\ UNCHANGED <<todo, verdict, table>>
  <2>1. \A e \in DOMAIN table : \E f \in Seen : e \in RecordsOn(table[e], f)
                                               /\ (table[e] \notin late => f = Current)
    BY <1>2 DEF Round, TableTrue
  <2>2. Current' = Current
    BY <1>2 DEF Current
  <2> QED  BY <1>2, <2>1, <2>2, <1>1, DiskStays DEF TableTrue
<1>3. CASE ReadChunks
  <2>1. /\ cstate = "chunks" /\ Peer = i /\ i \in Servers /\ awaiting
        /\ wire[i] # <<>> /\ Head(wire[i]).kind = "chunk_list" /\ UNCHANGED <<todo, verdict>>
    BY <1>3, PeerType DEF ReadChunks, Finds, Peer
  <2>2. Head(wire[i]) = wire[i][1] /\ 1 \in 1..Len(wire[i])
    BY <2>1 DEF TypeInv
  <2> DEFINE g == Head(wire[i]).file
  <2>3. Head(wire[i]).body = RecordsOn(i, g) /\ g \notin Unmet
    BY <2>1, <2>2 DEF AnswersTrue, AsksMet
  <2>4. i \notin late' => g = Current
    <3> SUFFICES ASSUME i \notin late' PROVE g = Current
      OBVIOUS
    <3>1. PICK a \in MayAnswer(i, LastRequest) : wire[i] = <<a>>
      BY <1>3, <2>1, ReadsAll
    <3>2. a.kind = "chunk_list"
      BY <2>1, <3>1
    <3>3. LastRequest = Request("chunk_query", Current, None)
      BY <2>1 DEF LastRequest
    <3>4. a = Answer("chunk_list", Current, RecordsOn(i, Current))
      BY <3>1, <3>2, <3>3, MessageFields DEF MayAnswer
    <3> QED  BY <3>1, <3>4, MessageFields
  <2>5. PICK files : files \subseteq RecordsOn(i, g) /\ table' = AddToTable(table, files, i)
    BY <1>3, <2>3 DEF ReadChunks
  <2>6. files \subseteq Records
    BY <2>1, <2>5, RecordsOnType DEF TypeInv
  <2>7. /\ DOMAIN table' = DOMAIN table \cup files
        /\ \A e \in DOMAIN table \cup files : table'[e] = IF e \in files THEN i ELSE table[e]
    BY <2>5 DEF AddToTable
  <2>8. ASSUME NEW e \in DOMAIN table'
        PROVE  \E f \in Seen : About(e, table'[e], f)
    <3>1. CASE e \in files
      <4>1. table'[e] = i /\ e \in RecordsOn(i, g)
        BY <2>5, <2>7, <3>1
      <4>2. g \in Names
        BY <2>1, <4>1, RecordsOnType DEF TypeInv
      <4>3. g \in Seen
        BY <2>3, <4>2 DEF Unmet
      <4> QED  BY <2>4, <4>1, <4>3
    <3>2. CASE e \notin files
      <4>1. e \in DOMAIN table /\ table'[e] = table[e]
        BY <2>7, <3>2
      <4>2. \E f \in Seen : e \in RecordsOn(table[e], f) /\ (table[e] \notin late => f = Current)
        BY <2>1, <4>1 DEF TableTrue
      <4> QED  BY <1>1, <4>1, <4>2
    <3> QED  BY <3>1, <3>2
  <2>9. Current' = Current /\ verdict' = verdict
    BY <2>1 DEF Current
  <2> QED  BY <2>8, <2>9, DiskStays DEF TableTrue
<1>4. CASE table' = <<>>
  BY <1>4 DEF TableTrue
<1>5. CASE ~Round'
  BY <1>5 DEF TableTrue, Round
<1> QED  BY <1>2, <1>3, <1>4, <1>5, RoundStep

\* The chunk table tells of the current file, except where an answer was late or cut:
\* there it may tell of a file that the command has been through.
THEOREM SessionTableTrue == Spec => []TableTrue
<1>1. Init => AsksMet /\ TableTrue
  BY DEF Init, AsksMet, TableTrue
<1>2. (TypeInv /\ AnswersTrue) /\ InStep /\ (AsksMet /\ TableTrue) /\ [Next]_vars => (AsksMet /\ TableTrue)'
  BY AsksMetStep, TableTrueStep
<1> QED  BY <1>1, <1>2, SessionTypeInv, SessionInStep, PTL DEF Spec

-----------------------------------------------------------------------------
(* What get writes: the order of lists and data on a connection            *)

\* A request that brings data, when the server has the records of has.
Wanted(r, has) == r.kind = "chunk_list" /\ <<r.file, r.record>> \in has

\* The files and records a server has.
Has(s) == {x \in Names \X Records : x[2] \in RecordsOn(s, x[1])}

\* Somewhere in the answers w and the requests r is a chunk list, or a query for one.
Listing(w, r) ==
  \/ \E p \in 1..Len(w) : w[p].kind = "chunk_list"
  \/ \E p \in 1..Len(r) : r[p].kind = "chunk_query"

\* No data, and no request that brings any, comes after a chunk list or a query for
\* one: a list that is not read spoils all that is asked later.
DataFirst(w, r, has) ==
  /\ \A p, q \in 1..Len(w) : p < q /\ w[p].kind = "chunk_list" => w[q].kind # "chunk_data"
  /\ \A p \in 1..Len(w), q \in 1..Len(r) : w[p].kind = "chunk_list" => ~Wanted(r[q], has)
  /\ \A p, q \in 1..Len(r) : p < q /\ r[p].kind = "chunk_query" => ~Wanted(r[q], has)

\* No list is of a file of ahead, and one of a file of now is the last.
AskedOnce(w, r, ahead, now) ==
  /\ \A p \in 1..Len(w) : w[p].kind = "chunk_list" =>
       /\ w[p].file \notin ahead
       /\ w[p].file \in now =>
            /\ \A q \in 1..Len(w) : p < q => w[q].kind # "chunk_list"
            /\ \A q \in 1..Len(r) : r[q].kind # "chunk_query"
  /\ \A p \in 1..Len(r) : r[p].kind = "chunk_query" =>
       /\ r[p].file \notin ahead
       /\ r[p].file \in now => \A q \in 1..Len(r) : p < q => r[q].kind # "chunk_query"

\* The only data there is or will be is what is pending, and nothing is behind it.
OnlyPending(w, r, has, pending) ==
  /\ \A p \in 1..Len(w) : w[p].kind = "chunk_data" =>
       /\ p = Len(w) /\ r = <<>>
       /\ \E x \in pending : w[p] = Answer("chunk_data", x[1], {x[2]})
  /\ \A p \in 1..Len(r) : Wanted(r[p], has) =>
       /\ p = Len(r)
       /\ \E x \in pending : r[p] = Request("chunk_list", x[1], x[2])

\* Reading from a connection keeps all of these.
LEMMA ReadKeeps ==
  ASSUME NEW w \in Seq(AnswerSet), NEW v \in Seq(AnswerSet), Shortened(w, v),
         NEW r \in Seq(RequestSet), NEW has, NEW ahead, NEW now, NEW pending
  PROVE  /\ Listing(v, r) => Listing(w, r)
         /\ DataFirst(w, r, has) => DataFirst(v, r, has)
         /\ AskedOnce(w, r, ahead, now) => AskedOnce(v, r, ahead, now)
         /\ OnlyPending(w, r, has, pending) => OnlyPending(v, r, has, pending)
<1>1. PICK k \in 0..Len(w) :
        /\ Len(v) = Len(w) - k
        /\ \A q \in 1..Len(v) : v[q] = Rest \/ v[q] = w[q + k]
  BY DEF Shortened
<1>2. Len(w) \in Nat /\ Len(v) \in Nat /\ k \in Nat
  BY <1>1
<1>3. \A q \in 1..Len(v) : q + k \in 1..Len(w) /\ q \in Nat
  BY <1>1, <1>2
<1>4. \A p, q \in 1..Len(v) : p < q => p + k < q + k
  BY <1>2
<1>5. \A q \in 1..Len(v) : v[q].kind # "rest" => v[q] = w[q + k]
  BY <1>1, MessageFields
<1>6. Listing(v, r) => Listing(w, r)
  BY <1>3, <1>5 DEF Listing
<1>7. DataFirst(w, r, has) => DataFirst(v, r, has)
  <2> HAVE DataFirst(w, r, has)
  <2>1. ASSUME NEW p \in 1..Len(v), NEW q \in 1..Len(v), p < q, v[p].kind = "chunk_list"
        PROVE  v[q].kind # "chunk_data"
    <3>1. v[p] = w[p + k] /\ p + k \in 1..Len(w) /\ q + k \in 1..Len(w) /\ p + k < q + k
      BY <1>3, <1>4, <1>5, <2>1
    <3>2. w[q + k].kind # "chunk_data"
      BY <2>1, <3>1 DEF DataFirst
    <3> QED  BY <1>5, <3>2
  <2>2. ASSUME NEW p \in 1..Len(v), NEW q \in 1..Len(r), v[p].kind = "chunk_list"
        PROVE  ~Wanted(r[q], has)
    <3>1. v[p] = w[p + k] /\ p + k \in 1..Len(w)
      BY <1>3, <1>5, <2>2
    <3> QED  BY <2>2, <3>1 DEF DataFirst
  <2> QED  BY <2>1, <2>2 DEF DataFirst
<1>8. AskedOnce(w, r, ahead, now) => AskedOnce(v, r, ahead, now)
  <2> HAVE AskedOnce(w, r, ahead, now)
  <2>1. ASSUME NEW p \in 1..Len(v), v[p].kind = "chunk_list"
        PROVE  /\ v[p].file \notin ahead
               /\ v[p].file \in now =>
                    /\ \A q \in 1..Len(v) : p < q => v[q].kind # "chunk_list"
                    /\ \A q \in 1..Len(r) : r[q].kind # "chunk_query"
    <3>1. v[p] = w[p + k] /\ p + k \in 1..Len(w)
      BY <1>3, <1>5, <2>1
    <3>2. /\ v[p].file \notin ahead
          /\ v[p].file \in now =>
               /\ \A q \in 1..Len(w) : p + k < q => w[q].kind # "chunk_list"
               /\ \A q \in 1..Len(r) : r[q].kind # "chunk_query"
      BY <2>1, <3>1 DEF AskedOnce
    <3>3. \A q \in 1..Len(v) : p < q /\ v[q].kind = "chunk_list" =>
             v[q] = w[q + k] /\ q + k \in 1..Len(w) /\ p + k < q + k
      BY <1>3, <1>4, <1>5
    <3> QED  BY <3>2, <3>3
  <2> QED  BY <2>1 DEF AskedOnce
<1>9. OnlyPending(w, r, has, pending) => OnlyPending(v, r, has, pending)
  <2> HAVE OnlyPending(w, r, has, pending)
  <2>1. ASSUME NEW p \in 1..Len(v), v[p].kind = "chunk_data"
        PROVE  /\ p = Len(v) /\ r = <<>>
               /\ \E x \in pending : v[p] = Answer("chunk_data", x[1], {x[2]})
    <3>1. v[p] = w[p + k] /\ p + k \in 1..Len(w)
      BY <1>3, <1>5, <2>1
    <3>2. /\ p + k = Len(w) /\ r = <<>>
          /\ \E x \in pending : w[p + k] = Answer("chunk_data", x[1], {x[2]})
      BY <2>1, <3>1 DEF OnlyPending
    <3>3. p = Len(v)
      <4>1. Len(v) = Len(w) - k /\ p + k = Len(w)
        BY <1>1, <3>2
      <4>2. p \in Nat
        OBVIOUS
      <4> QED  BY <1>2, <4>1, <4>2
    <3> QED  BY <3>1, <3>2, <3>3
  <2> QED  BY <2>1 DEF OnlyPending
<1> QED  BY <1>6, <1>7, <1>8, <1>9

\* What a request more does.
LEMMA AskKeeps ==
  ASSUME NEW w \in Seq(AnswerSet), NEW r \in Seq(RequestSet), NEW x \in RequestSet,
         NEW has, NEW ahead, NEW less, NEW now, NEW pending
  PROVE  /\ x.kind # "chunk_query" /\ Listing(w, Append(r, x)) => Listing(w, r)
         /\ DataFirst(w, r, has) /\ (Wanted(x, has) => ~Listing(w, r)) =>
              DataFirst(w, Append(r, x), has)
         /\ (/\ AskedOnce(w, r, ahead, now) /\ less \subseteq ahead
             /\ x.kind = "chunk_query" => now \subseteq ahead /\ x.file \notin less)
            => AskedOnce(w, Append(r, x), less, now)
         /\ (/\ OnlyPending(w, r, has, {})
             /\ Wanted(x, has) => \E y \in pending : x = Request("chunk_list", y[1], y[2]))
            => OnlyPending(w, Append(r, x), has, pending)
<1> DEFINE v == Append(r, x)
<1>1. /\ Len(v) = Len(r) + 1 /\ Len(r) \in Nat
      /\ \A q \in 1..Len(v) : q \in Nat /\ v[q] = IF q <= Len(r) THEN r[q] ELSE x
  BY AppendSeq
<1>2. \A q \in 1..Len(v) : (q \in 1..Len(r) /\ v[q] = r[q]) \/ (q = Len(v) /\ v[q] = x)
  BY <1>1
<1>3. \A q \in 1..Len(r) : q < Len(v)
  BY <1>1
<1> HIDE DEF v
<1>4. x.kind # "chunk_query" /\ Listing(w, v) => Listing(w, r)
  BY <1>2 DEF Listing
<1>5. DataFirst(w, r, has) /\ (Wanted(x, has) => ~Listing(w, r)) => DataFirst(w, v, has)
  <2> SUFFICES ASSUME DataFirst(w, r, has), Wanted(x, has) => ~Listing(w, r)
               PROVE  DataFirst(w, v, has)
    OBVIOUS
  <2>1. ASSUME NEW p \in 1..Len(w), NEW q \in 1..Len(v), w[p].kind = "chunk_list"
        PROVE  ~Wanted(v[q], has)
    BY <1>2, <2>1 DEF DataFirst, Listing
  <2>2. ASSUME NEW p \in 1..Len(v), NEW q \in 1..Len(v), p < q, v[p].kind = "chunk_query"
        PROVE  ~Wanted(v[q], has)
    <3>1. p \in 1..Len(r) /\ v[p] = r[p]
      BY <1>1, <1>2, <2>2
    <3> QED  BY <1>2, <2>2, <3>1 DEF DataFirst, Listing
  <2> QED  BY <2>1, <2>2 DEF DataFirst
<1>6. ASSUME AskedOnce(w, r, ahead, now), less \subseteq ahead,
             x.kind = "chunk_query" => now \subseteq ahead /\ x.file \notin less
      PROVE  AskedOnce(w, v, less, now)
  <2>1. ASSUME NEW p \in 1..Len(w), w[p].kind = "chunk_list"
        PROVE  /\ w[p].file \notin less
               /\ w[p].file \in now =>
                    /\ \A q \in 1..Len(w) : p < q => w[q].kind # "chunk_list"
                    /\ \A q \in 1..Len(v) : v[q].kind # "chunk_query"
    <3>1. /\ w[p].file \notin ahead
          /\ w[p].file \in now =>
               /\ \A q \in 1..Len(w) : p < q => w[q].kind # "chunk_list"
               /\ \A q \in 1..Len(r) : r[q].kind # "chunk_query"
      BY <1>6, <2>1 DEF AskedOnce
    <3> QED  BY <1>2, <1>6, <3>1
  <2>2. ASSUME NEW p \in 1..Len(v), v[p].kind = "chunk_query"
        PROVE  /\ v[p].file \notin less
               /\ v[p].file \in now => \A q \in 1..Len(v) : p < q => v[q].kind # "chunk_query"
    <3>1. CASE p \in 1..Len(r) /\ v[p] = r[p]
      <4>1. /\ v[p].file \notin ahead
            /\ v[p].file \in now => \A q \in 1..Len(r) : p < q => r[q].kind # "chunk_query"
        BY <1>6, <2>2, <3>1 DEF AskedOnce
      <4> QED  BY <1>2, <1>6, <4>1
    <3>2. CASE p = Len(v) /\ v[p] = x
      <4>1. \A q \in 1..Len(v) : ~(p < q)
        BY <1>1, <3>2
      <4> QED  BY <1>6, <2>2, <3>2, <4>1
    <3> QED  BY <1>2, <3>1, <3>2
  <2> QED  BY <2>1, <2>2 DEF AskedOnce
<1>7. ASSUME OnlyPending(w, r, has, {}),
             Wanted(x, has) => \E y \in pending : x = Request("chunk_list", y[1], y[2])
      PROVE  OnlyPending(w, v, has, pending)
  <2>1. \A p \in 1..Len(w) : w[p].kind # "chunk_data"
    BY <1>7 DEF OnlyPending
  <2>2. \A p \in 1..Len(r) : ~Wanted(r[p], has)
    BY <1>7 DEF OnlyPending
  <2>3. \A p \in 1..Len(v) : Wanted(v[p], has) => p = Len(v) /\ v[p] = x
    BY <1>2, <2>2
  <2> QED  BY <1>7, <2>1, <2>3 DEF OnlyPending
<1> QED  BY <1>4, <1>5, <1>6, <1>7 DEF v

\* What an answer does: it takes the place of the first n requests.
LEMMA AnswerKeeps ==
  ASSUME NEW w \in Seq(AnswerSet), NEW r \in Seq(RequestSet), NEW a \in AnswerSet,
         NEW n \in 1..Len(r), NEW u, LeftOf(r, u, n),
         NEW has, NEW ahead, NEW now, NEW pending,
         a.kind = "chunk_list" => n = 1 /\ r[1].kind = "chunk_query" /\ a.file = r[1].file,
         a.kind = "chunk_data" => /\ n = 1 /\ Wanted(r[1], has)
                                  /\ a = Answer("chunk_data", r[1].file, {r[1].record})
  PROVE  LET v == Append(w, a)
         IN /\ Listing(v, u) => Listing(w, r)
            /\ DataFirst(w, r, has) => DataFirst(v, u, has)
            /\ AskedOnce(w, r, ahead, now) => AskedOnce(v, u, ahead, now)
            /\ OnlyPending(w, r, has, pending) => OnlyPending(v, u, has, pending)
<1> DEFINE v == Append(w, a)
<1>1. /\ Len(v) = Len(w) + 1 /\ Len(w) \in Nat
      /\ \A q \in 1..Len(v) : q \in Nat /\ v[q] = IF q <= Len(w) THEN w[q] ELSE a
  BY AppendSeq
<1>2. \A q \in 1..Len(v) : (q \in 1..Len(w) /\ v[q] = w[q]) \/ (q = Len(v) /\ v[q] = a)
  BY <1>1
<1>3. /\ u \in Seq(RequestSet) /\ Len(u) = Len(r) - n
      /\ Len(u) \in Nat /\ Len(r) \in Nat /\ n \in Nat
      /\ \A q \in 1..Len(u) : q \in Nat /\ (u[q] = Spoilt \/ u[q] = r[q + n])
  <2>1. /\ u \in Seq(RequestSet) /\ Len(u) = Len(r) - n
        /\ \A q \in 1..Len(u) : u[q] = Spoilt \/ u[q] = r[q + n]
    BY DEF LeftOf
  <2>2. Len(r) \in Nat /\ Len(u) \in Nat /\ n \in Nat
    BY <2>1
  <2> QED  BY <2>1, <2>2
<1>6. \A q \in 1..Len(u) : u[q].kind = "chunk_query" \/ Wanted(u[q], has) => u[q] = r[q + n]
  BY <1>3, MessageFields DEF Wanted
<1>4. /\ 1 \in 1..Len(r)
      /\ \A q \in 1..Len(u) : q + n \in 1..Len(r) /\ 1 < q + n
  BY <1>3
<1>5. \A p, q \in 1..Len(u) : p < q => p + n < q + n
  BY <1>3
<1>7. \A p, q \in 1..Len(v) : p < q => p \in 1..Len(w) /\ v[p] = w[p]
  BY <1>1
<1> HIDE DEF v
<1>8. Listing(v, u) => Listing(w, r)
  <2>1. a.kind = "chunk_list" => r[1].kind = "chunk_query"
    OBVIOUS
  <2> QED  BY <1>2, <1>4, <1>6, <2>1 DEF Listing
<1>9. ASSUME DataFirst(w, r, has)
      PROVE  DataFirst(v, u, has)
  <2>1. ASSUME NEW p \in 1..Len(v), NEW q \in 1..Len(v), p < q, v[p].kind = "chunk_list"
        PROVE  v[q].kind # "chunk_data"
    <3>1. p \in 1..Len(w) /\ v[p] = w[p]
      BY <1>7, <2>1
    <3>2. CASE q \in 1..Len(w) /\ v[q] = w[q]
      BY <1>9, <2>1, <3>1, <3>2 DEF DataFirst
    <3>3. CASE v[q] = a
      BY <1>4, <1>9, <2>1, <3>1, <3>3 DEF DataFirst
    <3> QED  BY <1>2, <3>2, <3>3
  <2>2. ASSUME NEW p \in 1..Len(v), NEW q \in 1..Len(u), v[p].kind = "chunk_list"
        PROVE  ~Wanted(u[q], has)
    <3>1. /\ Wanted(u[q], has) => u[q] = r[q + n]
          /\ q + n \in 1..Len(r) /\ 1 < q + n
      BY <1>4, <1>6
    <3>2. CASE p \in 1..Len(w) /\ v[p] = w[p]
      BY <1>9, <2>2, <3>1, <3>2 DEF DataFirst
    <3>3. CASE v[p] = a
      BY <1>4, <1>9, <2>2, <3>1, <3>3 DEF DataFirst
    <3> QED  BY <1>2, <3>2, <3>3
  <2>3. ASSUME NEW p \in 1..Len(u), NEW q \in 1..Len(u), p < q, u[p].kind = "chunk_query"
        PROVE  ~Wanted(u[q], has)
    <3>1. /\ u[p] = r[p + n] /\ p + n \in 1..Len(r)
          /\ Wanted(u[q], has) => u[q] = r[q + n]
          /\ q + n \in 1..Len(r) /\ p + n < q + n
      BY <1>4, <1>5, <1>6, <2>3
    <3> QED  BY <1>9, <2>3, <3>1 DEF DataFirst
  <2> QED  BY <2>1, <2>2, <2>3 DEF DataFirst
<1>10. ASSUME AskedOnce(w, r, ahead, now)
       PROVE  AskedOnce(v, u, ahead, now)
  <2>1. ASSUME NEW p \in 1..Len(v), v[p].kind = "chunk_list"
        PROVE  /\ v[p].file \notin ahead
               /\ v[p].file \in now =>
                    /\ \A q \in 1..Len(v) : p < q => v[q].kind # "chunk_list"
                    /\ \A q \in 1..Len(u) : u[q].kind # "chunk_query"
    <3>1. CASE p \in 1..Len(w) /\ v[p] = w[p]
      <4>1. /\ v[p].file \notin ahead
            /\ v[p].file \in now =>
                 /\ \A q \in 1..Len(w) : p < q => w[q].kind # "chunk_list"
                 /\ \A q \in 1..Len(r) : r[q].kind # "chunk_query"
        BY <1>10, <2>1, <3>1 DEF AskedOnce
      <4> QED  BY <1>2, <1>4, <1>6, <4>1
    <3>2. CASE p = Len(v) /\ v[p] = a
      <4>1. /\ v[p].file \notin ahead
            /\ v[p].file \in now => \A q \in 1..Len(r) : 1 < q => r[q].kind # "chunk_query"
        BY <1>4, <1>10, <2>1, <3>2 DEF AskedOnce
      <4>2. \A q \in 1..Len(v) : ~(p < q)
        BY <1>1, <3>2
      <4> QED  BY <1>4, <1>6, <4>1, <4>2
    <3> QED  BY <1>2, <3>1, <3>2
  <2>2. ASSUME NEW p \in 1..Len(u), u[p].kind = "chunk_query"
        PROVE  /\ u[p].file \notin ahead
               /\ u[p].file \in now => \A q \in 1..Len(u) : p < q => u[q].kind # "chunk_query"
    <3>1. u[p] = r[p + n] /\ p + n \in 1..Len(r)
      BY <1>4, <1>6, <2>2
    <3>2. /\ u[p].file \notin ahead
          /\ u[p].file \in now => \A q \in 1..Len(r) : p + n < q => r[q].kind # "chunk_query"
      BY <1>10, <2>2, <3>1 DEF AskedOnce
    <3> QED  BY <1>4, <1>5, <1>6, <3>2
  <2> QED  BY <2>1, <2>2 DEF AskedOnce
<1>11. ASSUME OnlyPending(w, r, has, pending)
       PROVE  OnlyPending(v, u, has, pending)
  <2>1. \A p \in 1..Len(w) : w[p].kind # "chunk_data"
    <3>1. r # <<>>
      BY <1>4
    <3> QED  BY <1>11, <3>1 DEF OnlyPending
  <2>2. ASSUME NEW p \in 1..Len(v), v[p].kind = "chunk_data"
        PROVE  /\ p = Len(v) /\ u = <<>>
               /\ \E x \in pending : v[p] = Answer("chunk_data", x[1], {x[2]})
    <3>1. p = Len(v) /\ v[p] = a
      BY <1>2, <2>1, <2>2
    <3>2. n = 1 /\ Wanted(r[1], has) /\ a = Answer("chunk_data", r[1].file, {r[1].record})
      BY <2>2, <3>1
    <3>3. 1 = Len(r) /\ \E x \in pending : r[1] = Request("chunk_list", x[1], x[2])
      BY <1>4, <1>11, <3>2 DEF OnlyPending
    <3>4. u = <<>>
      BY <1>3, <3>2, <3>3
    <3>5. PICK x \in pending : r[1] = Request("chunk_list", x[1], x[2])
      BY <3>3
    <3>6. r[1].file = x[1] /\ r[1].record = x[2]
      BY <3>5, MessageFields
    <3> QED  BY <3>1, <3>2, <3>4, <3>6
  <2>3. ASSUME NEW p \in 1..Len(u), Wanted(u[p], has)
        PROVE  p = Len(u) /\ \E x \in pending : u[p] = Request("chunk_list", x[1], x[2])
    <3>1. u[p] = r[p + n] /\ p + n \in 1..Len(r)
      BY <1>4, <1>6, <2>3
    <3>2. p + n = Len(r) /\ \E x \in pending : r[p + n] = Request("chunk_list", x[1], x[2])
      BY <1>11, <2>3, <3>1 DEF OnlyPending
    <3>3. p = Len(u)
      <4>1. p \in Nat /\ n \in Nat /\ Len(r) \in Nat /\ p + n = Len(r) /\ Len(u) = Len(r) - n
        BY <1>3, <3>2
      <4> QED  BY <4>1
    <3> QED  BY <3>1, <3>2, <3>3
  <2> QED  BY <2>2, <2>3 DEF OnlyPending
<1> QED  BY <1>8, <1>9, <1>10, <1>11 DEF v

\* The files whose chunks the command has not asked server s for.
Ahead(s) ==
  IF cstate \in {"idle", "names"} THEN FileNames
  ELSE IF cstate = "next" \/ (cstate = "chunks" /\ (i < s \/ (i = s /\ ~awaiting))) THEN ToSet(todo)
  ELSE IF Round THEN ToSet(Tail(todo))
  ELSE {}

Now == IF Round THEN {Current} ELSE {}

\* The chunk that the client waits for from s.
Pending(s) == IF cstate = "fetch" /\ awaiting /\ s = Peer THEN {<<Current, <<chosen, i>>>>} ELSE {}

\* The connections with respect to lists and data.
OrderInv ==
  \A s \in Servers :
    /\ DataFirst(wire[s], requests[s], Has(s))
    /\ AskedOnce(wire[s], requests[s], Ahead(s), Now)

\* What the table has of a server was told by its last answer of this round: there is
\* no data of earlier rounds behind that, and if there are lists, the table's are of
\* another file.
SourceInv ==
  Round => \A e \in DOMAIN table :
    /\ cstate = "chunks" => table[e] < i
    /\ OnlyPending(wire[table[e]], requests[table[e]], Has(table[e]), Pending(table[e]))
    /\ Listing(wire[table[e]], requests[table[e]]) => <<Current, e>> \notin Has(table[e])

\* The current name is the first of those that are left, and not among the others.
LEMMA CurrentFirst ==
  ASSUME TypeInv, todo # <<>>
  PROVE  /\ Current \in ToSet(todo) /\ Current \in FileNames
         /\ ToSet(Tail(todo)) \subseteq ToSet(todo) /\ Current \notin ToSet(Tail(todo))
         /\ ToSet(todo) \subseteq FileNames
<1>1. todo \in Seq(FileNames) /\ \A j, l \in DOMAIN todo : todo[j] = todo[l] => j = l
  BY DEF TypeInv
<1>2. /\ Current = todo[1] /\ 1 \in DOMAIN todo /\ Tail(todo) \in Seq(FileNames)
      /\ \A j \in DOMAIN Tail(todo) : j + 1 \in DOMAIN todo /\ Tail(todo)[j] = todo[j + 1] /\ j + 1 # 1
  <2>1. /\ Current = todo[1] /\ 1 \in DOMAIN todo /\ Tail(todo) \in Seq(FileNames)
        /\ \A j \in DOMAIN Tail(todo) : j + 1 \in DOMAIN todo /\ Tail(todo)[j] = todo[j + 1]
    BY <1>1, HeadTailSeq DEF Current
  <2>2. \A j \in DOMAIN Tail(todo) : j + 1 # 1
    BY <2>1
  <2> QED  BY <2>1, <2>2
<1> QED  BY <1>1, <1>2 DEF ToSet

\* No file is asked for again: what is ahead only shrinks, and what becomes current was
\* ahead.
LEMMA AheadStep ==
  ASSUME TypeInv, AnswersTrue, [Next]_vars, NEW s \in Servers
  PROVE  Ahead(s)' \subseteq Ahead(s) /\ Now' \subseteq Now \cup Ahead(s)
<1>1. N \in Nat /\ N >= 2 /\ i \in 0..(N - 1) /\ s \in 0..(N - 1)
  BY PlacementAssumption DEF TypeInv, Servers
<1>2. todo # <<>> => /\ Current \in ToSet(todo) /\ ToSet(Tail(todo)) \subseteq ToSet(todo)
                     /\ ToSet(todo) \subseteq FileNames
  BY CurrentFirst
<1>3. todo = <<>> => ToSet(todo) = {}
  BY DEF ToSet
<1>4. Round => todo # <<>>
  BY DEF TypeInv, Round
<1>5. CASE ClientAsks(LastRequest)
  <2>1. UNCHANGED <<cstate, i, todo>> /\ ~awaiting /\ cstate \in {"names", "chunks", "fetch"}
    BY <1>5 DEF ClientAsks, Send, fileVars
  <2> QED  BY <1>2, <1>4, <2>1 DEF Ahead, Now, Round, Current
<1>6. CASE UNCHANGED <<cstate, i, todo, awaiting>>
  BY <1>6 DEF Ahead, Now, Round, Current
<1>7. CASE Begin
  <2>1. cstate = "idle" /\ cstate' \in {"names", "next"} /\ Ahead(s) = FileNames
    BY <1>7 DEF Begin, Ahead
  <2>2. todo' \in Seq(FileNames)
    BY TypeInvStep DEF TypeInv
  <2>3. ToSet(todo') \subseteq FileNames
    BY <2>2 DEF ToSet
  <2>4. Ahead(s)' \subseteq FileNames
    BY <2>1, <2>3 DEF Ahead
  <2>5. Now' = {}
    BY <2>1 DEF Now, Round
  <2> QED  BY <2>1, <2>4, <2>5
<1>8. CASE NextName
  <2>1. cstate = "next" /\ cstate' \in {"chunks", "done"} /\ UNCHANGED <<i, todo, awaiting>>
        /\ (cstate' = "chunks" => todo # <<>>)
    BY <1>8 DEF NextName
  <2> QED  BY <1>2, <1>3, <2>1 DEF Ahead, Now, Round, Current
<1>9. CASE \E v : Round /\ Conclude(v)
  <2>1. todo' = Tail(todo) /\ cstate' = "next" /\ Round
    BY <1>9 DEF Conclude
  <2> QED  BY <1>2, <1>4, <2>1 DEF Ahead, Now, Round
<1>10. CASE OpenLocal
  <2>1. cstate = "choose" /\ cstate' = "fetch" /\ UNCHANGED <<i, todo, awaiting>>
    BY <1>10 DEF OpenLocal
  <2> QED  BY <2>1 DEF Ahead, Now, Round, Current
<1>11. CASE NextServer /\ cstate = "chunks" /\ UNCHANGED todo
  <2>1. \/ cstate' = "chunks" /\ i' = i + 1
        \/ cstate' = "choose" /\ i' = 0
    BY <1>11, LoopTypes
  <2>2. i' = i + 1 /\ (i' < s \/ i' = s) => i < s
    BY <1>1
  <2> QED  BY <1>2, <1>4, <1>11, <2>1, <2>2 DEF Ahead, Now, Round, Current
<1>12. CASE NextServer /\ cstate = "names"
  <2>1. cstate' \in {"names", "next"} /\ Ahead(s) = FileNames
    BY <1>12, LoopTypes DEF Ahead
  <2>2. todo' \in Seq(FileNames)
    BY TypeInvStep DEF TypeInv
  <2>3. ToSet(todo') \subseteq FileNames
    BY <2>2 DEF ToSet
  <2> QED  BY <2>1, <2>3 DEF Ahead, Now, Round
<1>13. CASE cstate = "fetch" /\ UNCHANGED <<cstate, todo>>
  BY <1>13 DEF Ahead, Now, Round, Current
<1>14. CASE TimeOut \/ ReadWrong
  <2>1. awaiting /\ Fails
    BY <1>14 DEF TimeOut, ReadWrong
  <2>2. CASE cstate = "fetch"
    BY <1>9, <2>1, <2>2 DEF Fails, Round
  <2>3. CASE cstate # "fetch"
    BY <1>11, <1>12, <2>1, <2>3 DEF Fails, TypeInv
  <2> QED  BY <2>2, <2>3
<1>15. CASE SkipServer
  BY <1>11, <1>12, <1>15 DEF SkipServer, fileVars
<1>16. CASE ReadNames \/ ReadChunks
  BY <1>11, <1>12, <1>16 DEF ReadNames, ReadChunks
<1>17. CASE ListVerdict \/ GetNothing
  BY <1>9, <1>17 DEF ListVerdict, GetNothing, Round
<1>18. CASE ReadChunk
  BY <1>9, <1>13, <1>18 DEF ReadChunk, Round
<1>19. ASSUME NEW r \in Servers, ServerStep(r)
       PROVE  UNCHANGED <<cstate, i, todo, awaiting>>
  <2>1. PICK u \in Seq(RequestSet), a \in AnswerSet : Reply(r, u, a)
    BY <1>19, ServersAnswer
  <2> QED  BY <2>1 DEF Reply, fileVars
<1>20. CASE UNCHANGED vars
  BY <1>6, <1>20 DEF vars, fileVars
<1> QED  BY <1>5, <1>6, <1>7, <1>8, <1>10, <1>14, <1>15, <1>16, <1>17, <1>18, <1>19, <1>20, AsksLast
         DEF Next, ClientStep

\* With less ahead, and nothing new but what was ahead, nothing is lost.
LEMMA AskedOnceLess ==
  ASSUME NEW w, NEW r, NEW ahead, NEW now, NEW less, NEW next,
         less \subseteq ahead, next \subseteq now \cup ahead, AskedOnce(w, r, ahead, now)
  PROVE  AskedOnce(w, r, less, next)
BY DEF AskedOnce

\* What a server has it keeps, and that is what it opens.
LEMMA HasStays ==
  ASSUME TypeInv, [Next]_vars, NEW s \in Servers
  PROVE  /\ Has(s)' = Has(s)
         /\ \A r \in RequestSet : Opens(s, r) => Wanted(r, Has(s))
<1>1. Has(s)' = Has(s)
  BY DiskStays DEF Has, RecordsOn
<1>2. \A r \in RequestSet : Opens(s, r) => Wanted(r, Has(s))
  BY RecordsOnType DEF TypeInv, Opens, Wanted, Has
<1> QED  BY <1>1, <1>2

\* What the client asks, when it asks.
LEMMA AskedNow ==
  ASSUME TypeInv, ClientAsks(LastRequest)
  PROVE  /\ LastRequest.kind = "chunk_query" =>
              /\ cstate = "chunks" /\ LastRequest.file = Current
              /\ Now \subseteq Ahead(Peer) /\ Current \notin Ahead(Peer)'
         /\ LastRequest.kind = "chunk_list" =>
              /\ cstate = "fetch" /\ LastRequest = Request("chunk_list", Current, <<chosen, i>>)
         /\ UNCHANGED <<todo, cstate, i, table, chosen>> /\ Peer' = Peer /\ awaiting' /\ Current' = Current
<1>1. UNCHANGED <<todo, cstate, i, table, chosen>> /\ awaiting' /\ ~awaiting
      /\ cstate \in {"names", "chunks", "fetch"}
  BY DEF ClientAsks, Send, fileVars
<1>2. LastRequest.kind = "chunk_query" => cstate = "chunks" /\ LastRequest.file = Current
  BY <1>1, MessageFields DEF LastRequest
<1>3. LastRequest.kind = "chunk_list" =>
        cstate = "fetch" /\ LastRequest = Request("chunk_list", Current, <<chosen, i>>)
  BY <1>1, MessageFields DEF LastRequest
<1>4. Peer' = Peer /\ Current' = Current
  BY <1>1 DEF Peer, Current
<1>5. CASE cstate = "chunks"
  <2>1. Current \in ToSet(todo) /\ Current \notin ToSet(Tail(todo))
    BY <1>5, CurrentFirst DEF TypeInv
  <2>2. Peer = i /\ i \in Nat /\ ~(i < i)
    BY <1>5, PlacementAssumption DEF Peer, TypeInv
  <2> QED  BY <1>1, <1>2, <1>3, <1>4, <1>5, <2>1, <2>2 DEF Ahead, Now, Round
<1> QED  BY <1>1, <1>2, <1>3, <1>4, <1>5

\* Every step keeps the order of lists and data on every connection.
LEMMA OrderInvStep ==
  ASSUME TypeInv, AnswersTrue, OrderInv, SourceInv, [Next]_vars
  PROVE  OrderInv'
<1> SUFFICES ASSUME NEW s \in Servers
             PROVE  /\ DataFirst(wire'[s], requests'[s], Has(s))
                    /\ AskedOnce(wire'[s], requests'[s], Ahead(s)', Now')
  BY HasStays DEF OrderInv
<1>1. wire[s] \in Seq(AnswerSet) /\ requests[s] \in Seq(RequestSet)
      /\ wire'[s] \in Seq(AnswerSet) /\ requests'[s] \in Seq(RequestSet)
  BY TypeInvStep DEF TypeInv
<1>2. DataFirst(wire[s], requests[s], Has(s)) /\ AskedOnce(wire[s], requests[s], Ahead(s), Now)
  BY DEF OrderInv
<1>3. AskedOnce(wire[s], requests[s], Ahead(s)', Now')
  BY <1>2, AheadStep, AskedOnceLess
<1>4. CASE requests'[s] = requests[s] /\ Shortened(wire[s], wire'[s])
  BY <1>1, <1>2, <1>3, <1>4, ReadKeeps
<1>5. CASE /\ wire'[s] = wire[s] /\ s = Peer /\ ClientAsks(LastRequest)
           /\ requests'[s] = Append(requests[s], LastRequest)
  <2>1. LastRequest \in RequestSet
    BY <1>5 DEF ClientAsks
  <2>2. Wanted(LastRequest, Has(s)) => ~Listing(wire[s], requests[s])
    <3> SUFFICES ASSUME Wanted(LastRequest, Has(s)) PROVE ~Listing(wire[s], requests[s])
      OBVIOUS
    <3>1. cstate = "fetch" /\ LastRequest = Request("chunk_list", Current, <<chosen, i>>)
      BY <1>5, AskedNow DEF Wanted
    <3>2. <<Current, <<chosen, i>>>> \in Has(s)
      BY <3>1, MessageFields DEF Wanted
    <3>3. <<chosen, i>> \in DOMAIN table /\ table[<<chosen, i>>] = s
      BY <1>5, <3>1, PeerType
    <3> QED  BY <3>1, <3>2, <3>3 DEF SourceInv, Round
  <2>3. DataFirst(wire'[s], requests'[s], Has(s))
    BY <1>1, <1>2, <1>5, <2>1, <2>2, AskKeeps
  <2>4. Now' = Now
    BY <1>5, AskedNow DEF Now, Round
  <2>5. AskedOnce(wire'[s], requests'[s], Ahead(s)', Now')
    <3>1. Ahead(s)' \subseteq Ahead(s)
      BY AheadStep
    <3>2. LastRequest.kind = "chunk_query" => Now \subseteq Ahead(s) /\ LastRequest.file \notin Ahead(s)'
      BY <1>5, AskedNow
    <3>3. AskedOnce(wire[s], Append(requests[s], LastRequest), Ahead(s)', Now)
      BY <1>1, <1>2, <2>1, <3>1, <3>2, AskKeeps
    <3> QED  BY <1>5, <2>4, <3>3
  <2> QED  BY <2>3, <2>5
<1>6. ASSUME NEW n \in 1..Len(requests[s]), NEW a \in AnswerSet,
             LeftOf(requests[s], requests'[s], n),
             wire'[s] = Append(wire[s], a),
             a.kind = "chunk_list" =>
               n = 1 /\ requests[s][1].kind = "chunk_query" /\ a.file = requests[s][1].file,
             a.kind = "chunk_data" =>
               /\ n = 1 /\ Opens(s, requests[s][1]) /\ a.file = requests[s][1].file
               /\ a.body = {requests[s][1].record}
      PROVE  /\ DataFirst(wire'[s], requests'[s], Has(s))
             /\ AskedOnce(wire'[s], requests'[s], Ahead(s)', Now')
  <2>1. a.kind = "chunk_data" =>
          /\ n = 1 /\ Wanted(requests[s][1], Has(s))
          /\ a = Answer("chunk_data", requests[s][1].file, {requests[s][1].record})
    <3>1. requests[s][1] \in RequestSet
      BY <1>1
    <3>2. a = Answer(a.kind, a.file, a.body)
      BY DEF AnswerSet, Answer
    <3> QED  BY <1>6, <3>1, <3>2, HasStays
  <2>2. DataFirst(Append(wire[s], a), requests'[s], Has(s))
    BY <1>1, <1>2, <1>6, <2>1, AnswerKeeps
  <2>3. AskedOnce(Append(wire[s], a), requests'[s], Ahead(s)', Now')
    BY <1>1, <1>3, <1>6, <2>1, AnswerKeeps
  <2> QED  BY <1>6, <2>2, <2>3
<1>7. CASE UNCHANGED vars
  BY <1>2, <1>3, <1>7 DEF vars, serverVars
<1> QED  BY <1>4, <1>5, <1>6, <1>7, WireStep

\* Within a round the loop over the servers goes up, and only asking and reading a
\* chunk change what is pending.
LEMMA PendingStep ==
  ASSUME TypeInv, [Next]_vars, Round, Round', UNCHANGED todo
  PROVE  /\ cstate' = "chunks" => cstate = "chunks" /\ i' \in {i, i + 1}
         /\ ClientAsks(LastRequest) \/ ReadChunk \/ \A s \in Servers : Pending(s)' = Pending(s)
<1> DEFINE Goal ==
      /\ cstate' = "chunks" => cstate = "chunks" /\ i' \in {i, i + 1}
      /\ ClientAsks(LastRequest) \/ ReadChunk \/ \A s \in Servers : Pending(s)' = Pending(s)
<1>1. CASE UNCHANGED <<cstate, i, todo, table, chosen, awaiting>>
  BY <1>1 DEF Pending, Peer, Current
<1>2. CASE cstate \in {"chunks", "choose"} /\ cstate' = "choose"
  BY <1>2 DEF Pending
<1>3. CASE cstate = "chunks" /\ NextServer
  <2>1. (cstate' = "chunks" /\ i' = i + 1) \/ cstate' = "choose"
    BY <1>3, LoopTypes
  <2> QED  BY <1>3, <2>1 DEF Pending
<1>4. CASE OpenLocal
  <2>1. cstate = "choose" /\ cstate' = "fetch" /\ ~awaiting'
    BY <1>4 DEF OpenLocal, TypeInv
  <2> QED  BY <2>1 DEF Pending
<1>5. CASE ReadChunk
  BY <1>5 DEF ReadChunk, Conclude
<1>6. CASE ClientAsks(LastRequest)
  BY <1>6, AskedNow
<1>7. ~(\E v : Conclude(v))
  BY DEF Conclude, Round
<1>8. CASE TimeOut \/ ReadWrong
  <2>1. Fails
    BY <1>8 DEF TimeOut, ReadWrong
  <2>2. cstate = "chunks" /\ NextServer
    BY <1>7, <1>8, <2>1 DEF Fails, TimeOut, ReadWrong, TypeInv, Round
  <2> QED  BY <1>3, <2>2
<1>9. CASE SkipServer \/ ReadChunks
  BY <1>3, <1>9 DEF SkipServer, ReadChunks, Round
<1>10. ~(Begin \/ NextName \/ ListVerdict \/ GetNothing \/ ReadNames)
  BY <1>7 DEF Begin, NextName, ListVerdict, GetNothing, ReadNames, Round
<1>11. ASSUME NEW r \in Servers, ServerStep(r)
       PROVE  UNCHANGED <<cstate, i, todo, table, chosen, awaiting>>
  <2>1. PICK u \in Seq(RequestSet), a \in AnswerSet : Reply(r, u, a)
    BY <1>11, ServersAnswer
  <2> QED  BY <2>1 DEF Reply, fileVars
<1>12. CASE UNCHANGED vars
  BY <1>1, <1>12 DEF vars, fileVars
<1> QED  BY <1>1, <1>4, <1>5, <1>6, <1>8, <1>9, <1>10, <1>11, <1>12, AsksLast DEF Next, ClientStep

\* What is pending on a connection stays so, and no list comes to it, unless the client
\* asks there.
LEMMA SourceStays ==
  ASSUME TypeInv, [Next]_vars, NEW s \in Servers, ~(s = Peer /\ ClientAsks(LastRequest)), NEW pending
  PROVE  /\ OnlyPending(wire[s], requests[s], Has(s), pending) =>
              OnlyPending(wire'[s], requests'[s], Has(s), pending)
         /\ Listing(wire'[s], requests'[s]) => Listing(wire[s], requests[s])
<1>1. wire[s] \in Seq(AnswerSet) /\ requests[s] \in Seq(RequestSet)
  BY DEF TypeInv
<1>2. CASE UNCHANGED vars
  BY <1>2 DEF vars, serverVars
<1>3. CASE Next /\ requests'[s] = requests[s] /\ Shortened(wire[s], wire'[s])
  <2>1. wire'[s] \in Seq(AnswerSet)
    BY <1>3, ChannelTypes
  <2> QED  BY <1>1, <1>3, <2>1, ReadKeeps
<1>4. ASSUME NEW n \in 1..Len(requests[s]), NEW a \in AnswerSet,
             LeftOf(requests[s], requests'[s], n),
             wire'[s] = Append(wire[s], a),
             a.kind = "chunk_list" =>
               n = 1 /\ requests[s][1].kind = "chunk_query" /\ a.file = requests[s][1].file,
             a.kind = "chunk_data" =>
               /\ n = 1 /\ Opens(s, requests[s][1]) /\ a.file = requests[s][1].file
               /\ a.body = {requests[s][1].record}
      PROVE  /\ OnlyPending(wire[s], requests[s], Has(s), pending) =>
                  OnlyPending(wire'[s], requests'[s], Has(s), pending)
             /\ Listing(wire'[s], requests'[s]) => Listing(wire[s], requests[s])
  <2>1. a.kind = "chunk_data" =>
          /\ n = 1 /\ Wanted(requests[s][1], Has(s))
          /\ a = Answer("chunk_data", requests[s][1].file, {requests[s][1].record})
    <3>1. requests[s][1] \in RequestSet
      BY <1>1
    <3>2. a = Answer(a.kind, a.file, a.body)
      BY DEF AnswerSet, Answer
    <3> QED  BY <1>4, <3>1, <3>2, HasStays
  <2>2. OnlyPending(wire[s], requests[s], Has(s), pending) =>
          OnlyPending(Append(wire[s], a), requests'[s], Has(s), pending)
    BY <1>1, <1>4, <2>1, AnswerKeeps
  <2>3. Listing(Append(wire[s], a), requests'[s]) =>
          Listing(wire[s], requests[s])
    BY <1>1, <1>4, <2>1, AnswerKeeps
  <2> QED  BY <1>4, <2>2, <2>3
<1> QED  BY <1>2, <1>3, <1>4, WireStep

\* A chunk list that has been read to its end or in part: nothing is pending behind it,
\* and when there is another list, it was not of the current file.
LEMMA ListRead ==
  ASSUME TypeInv, AnswersTrue, OrderInv, ReadChunks
  PROVE  LET g == Head(wire[i]).file
         IN /\ i \in Servers /\ Round
            /\ OnlyPending(wire'[i], requests'[i], Has(i), {})
            /\ Listing(wire'[i], requests'[i]) => g # Current
            /\ \E files : files \subseteq RecordsOn(i, g) /\ table' = AddToTable(table, files, i)
<1> DEFINE w == wire[i]
           v == wire'[i]
           r == requests[i]
<1>1. /\ cstate = "chunks" /\ Peer = i /\ i \in Servers
      /\ w # <<>> /\ Head(w).kind = "chunk_list"
  BY PeerType DEF ReadChunks, Finds, Peer
<1>2. w \in Seq(AnswerSet) /\ r \in Seq(RequestSet)
  BY <1>1 DEF TypeInv
<1>3. Head(w) = w[1] /\ 1 \in 1..Len(w)
  BY <1>1, <1>2
<1>4. requests'[i] = r
  BY DEF ReadChunks
<1>5. \E files : files \subseteq RecordsOn(i, Head(w).file) /\ table' = AddToTable(table, files, i)
  <2>1. Head(w).body = RecordsOn(i, Head(w).file)
    BY <1>1, <1>3 DEF AnswersTrue
  <2> QED  BY <2>1 DEF ReadChunks
<1>6. v = Tail(w) \/ v = <<Rest>> \o Tail(w)
  BY <1>1 DEF ReadChunks, Takes, TakesPart, TypeInv
<1>7. \A q \in 1..Len(v) : v[q] = Rest \/ \E p \in 1..Len(w) : 1 < p /\ v[q] = w[p]
  <2>1. Tail(w) \in Seq(AnswerSet) /\ Len(Tail(w)) = Len(w) - 1
        /\ \A q \in 1..Len(Tail(w)) : Tail(w)[q] = w[q + 1] /\ q + 1 \in 1..Len(w) /\ 1 < q + 1
    BY <1>1, <1>2
  <2>2. CASE v = Tail(w)
    BY <2>1, <2>2
  <2>3. CASE v = <<Rest>> \o Tail(w)
    <3>1. <<Rest>> \in Seq(AnswerSet) /\ Len(<<Rest>>) = 1 /\ <<Rest>>[1] = Rest
      BY MessageFields
    <3>2. \A q \in 1..Len(v) : v[q] = Rest \/ (q - 1 \in 1..Len(Tail(w)) /\ v[q] = Tail(w)[q - 1])
      BY <2>1, <2>3, <3>1
    <3> QED  BY <2>1, <3>2
  <2> QED  BY <1>6, <2>2, <2>3
<1> HIDE DEF w, v, r
<1>8. DataFirst(w, r, Has(i)) /\ AskedOnce(w, r, Ahead(i), Now) /\ Now = {Current} /\ Round
  BY <1>1 DEF OrderInv, Now, Round, w, r
<1>9. OnlyPending(v, r, Has(i), {})
  <2>1. \A p \in 1..Len(r) : ~Wanted(r[p], Has(i))
    BY <1>1, <1>3, <1>8 DEF DataFirst
  <2>2. \A q \in 1..Len(v) : v[q].kind # "chunk_data"
    BY <1>1, <1>3, <1>7, <1>8, MessageFields DEF DataFirst
  <2> QED  BY <2>1, <2>2 DEF OnlyPending
<1>10. Listing(v, r) => Head(w).file # Current
  <2> SUFFICES ASSUME Head(w).file = Current PROVE ~Listing(v, r)
    OBVIOUS
  <2>1. /\ \A p \in 1..Len(w) : 1 < p => w[p].kind # "chunk_list"
        /\ \A p \in 1..Len(r) : r[p].kind # "chunk_query"
    BY <1>1, <1>3, <1>8 DEF AskedOnce
  <2>2. \A q \in 1..Len(v) : v[q].kind # "chunk_list"
    BY <1>7, <2>1, MessageFields
  <2> QED  BY <2>1, <2>2 DEF Listing
<1> QED  BY <1>1, <1>4, <1>5, <1>8, <1>9, <1>10 DEF w, v, r

\* The data that get reads are those it has asked for, and nothing is left behind them.
LEMMA ChunkRead ==
  ASSUME TypeInv, AnswersTrue, SourceInv, ReadChunk
  PROVE  /\ Peer \in Servers /\ cstate = "fetch"
         /\ Head(wire[Peer]) = Answer("chunk_data", Current, {<<chosen, i>>})
         /\ <<chosen, i>> \in RecordsOn(Peer, Current)
         /\ wire' = [wire EXCEPT ![Peer] = <<>>] /\ requests' = requests /\ requests[Peer] = <<>>
<1> DEFINE w == wire[Peer]
<1>1. cstate = "fetch" /\ awaiting /\ w # <<>> /\ Head(w).kind = "chunk_data"
      /\ wire' = [wire EXCEPT ![Peer] = Tail(w)] /\ requests' = requests
  BY DEF ReadChunk, Finds, Takes
<1>2. Peer \in Servers /\ <<chosen, i>> \in DOMAIN table /\ table[<<chosen, i>>] = Peer
  BY <1>1, PeerType
<1>3. w \in Seq(AnswerSet)
  BY <1>2 DEF TypeInv
<1>4. Head(w) = w[1] /\ 1 \in 1..Len(w)
  BY <1>1, <1>3
<1>5. OnlyPending(w, requests[Peer], Has(Peer), {<<Current, <<chosen, i>>>>})
  BY <1>1, <1>2 DEF SourceInv, Round, Pending
<1>6. 1 = Len(w) /\ requests[Peer] = <<>> /\ w[1] = Answer("chunk_data", Current, {<<chosen, i>>})
  <2> HIDE DEF w
  <2>1. w[1].kind = "chunk_data" /\ 1 \in 1..Len(w)
    BY <1>1, <1>4
  <2>2. /\ 1 = Len(w) /\ requests[Peer] = <<>>
        /\ \E x \in {<<Current, <<chosen, i>>>>} : w[1] = Answer("chunk_data", x[1], {x[2]})
    BY <1>5, <2>1 DEF OnlyPending
  <2>3. \A x \in {<<Current, <<chosen, i>>>>} : x[1] = Current /\ x[2] = <<chosen, i>>
    OBVIOUS
  <2> QED  BY <2>2, <2>3
<1>7. Tail(w) = <<>>
  <2> HIDE DEF w
  <2>1. Tail(w) \in Seq(AnswerSet) /\ Len(Tail(w)) = 0
    BY <1>1, <1>3, <1>6
  <2> QED  BY <2>1, EmptySeq
<1>8. <<chosen, i>> \in RecordsOn(Peer, Current)
  <2>1. \E x \in RecordsOn(Peer, w[1].file) : w[1].body = {x}
    BY <1>1, <1>2, <1>4 DEF AnswersTrue
  <2>2. w[1].file = Current /\ w[1].body = {<<chosen, i>>}
    BY <1>6, MessageFields
  <2> QED  BY <2>1, <2>2
<1> QED  BY <1>1, <1>2, <1>4, <1>6, <1>7, <1>8

\* Every step keeps what is known of the servers the table names: the only data to
\* come from them is what was asked for last.
LEMMA SourceInvStep ==
  ASSUME TypeInv, AnswersTrue, OrderInv, SourceInv, [Next]_vars
  PROVE  SourceInv'
<1> DEFINE Kept(e, s) ==
      /\ cstate' = "chunks" => s < i'
      /\ OnlyPending(wire'[s], requests'[s], Has(s), Pending(s)')
      /\ Listing(wire'[s], requests'[s]) => <<Current', e>> \notin Has(s)
<1>1. SUFFICES ASSUME Round', NEW e \in DOMAIN table', NEW s \in Servers, s = table'[e]
               PROVE  Kept(e, s)
  <2>1. ASSUME Round', NEW e \in DOMAIN table'
        PROVE  /\ cstate' = "chunks" => table'[e] < i'
               /\ OnlyPending(wire'[table'[e]], requests'[table'[e]], Has(table[e])', Pending(table[e])')
               /\ Listing(wire'[table'[e]], requests'[table'[e]]) => <<Current', e>> \notin Has(table[e])'
    <3>1. PICK s \in Servers : s = table'[e]
      BY TypeInvStep DEF TypeInv
    <3>2. Kept(e, s)
      BY <1>1, <2>1, <3>1
    <3>3. Pending(table[e])' = Pending(s)'
      BY <3>1 DEF Pending
    <3>4. Has(table[e])' = Has(s)
      <4>1. Has(table[e])' = Has(s)'
        BY <3>1 DEF Has, RecordsOn
      <4> QED  BY <4>1, HasStays
    <3> QED  BY <3>1, <3>2, <3>3, <3>4
  <2> QED  BY <2>1 DEF SourceInv
<1>2. i \in Nat /\ \A r \in Servers : r \in Nat
  BY PlacementAssumption DEF TypeInv, Servers
<1>3. CASE Round /\ UNCHANGED <<todo, table>>
  <2>1. s = table[e] /\ e \in DOMAIN table
    BY <1>1, <1>3
  <2>2. /\ cstate = "chunks" => s < i
        /\ OnlyPending(wire[s], requests[s], Has(s), Pending(s))
        /\ Listing(wire[s], requests[s]) => <<Current, e>> \notin Has(s)
    BY <1>3, <2>1 DEF SourceInv
  <2>3. cstate' = "chunks" => s < i'
    <3>1. cstate' = "chunks" => cstate = "chunks" /\ i' \in {i, i + 1}
      BY <1>1, <1>3, PendingStep
    <3> QED  BY <1>2, <2>1, <2>2, <3>1
  <2>4. Current' = Current
    BY <1>3 DEF Current
  <2>5. CASE s = Peer /\ ClientAsks(LastRequest)
    <3>1. wire[s] \in Seq(AnswerSet) /\ requests[s] \in Seq(RequestSet) /\ LastRequest \in RequestSet
          /\ wire'[s] = wire[s] /\ requests'[s] = Append(requests[s], LastRequest) /\ ~awaiting
      BY <2>1, <2>5 DEF TypeInv, ClientAsks, Send
    <3>2. Pending(s) = {}
      BY <3>1 DEF Pending
    <3>3. cstate = "fetch"
      <4>1. Peer = i => ~(s < i)
        BY <1>2, <2>5
      <4>2. cstate = "chunks" => Peer = i
        BY DEF Peer
      <4> QED  BY <1>3, <2>2, <2>5, <4>1, <4>2 DEF ClientAsks, Round
    <3>4. LastRequest = Request("chunk_list", Current, <<chosen, i>>)
      BY <3>3 DEF LastRequest
    <3>5. Pending(s)' = {<<Current, <<chosen, i>>>>}
      BY <2>4, <2>5, <3>3, AskedNow DEF Pending
    <3>6. \E y \in Pending(s)' : LastRequest = Request("chunk_list", y[1], y[2])
      BY <3>4, <3>5
    <3>7. OnlyPending(wire'[s], requests'[s], Has(s), Pending(s)')
      BY <2>2, <3>1, <3>2, <3>6, AskKeeps
    <3>8. Listing(wire'[s], requests'[s]) => Listing(wire[s], requests[s])
      <4>1. LastRequest.kind # "chunk_query"
        BY <3>4, MessageFields
      <4> QED  BY <3>1, <4>1, AskKeeps
    <3> QED  BY <2>1, <2>2, <2>3, <2>4, <3>7, <3>8
  <2>6. CASE ReadChunk /\ s = Peer
    <3>1. wire'[s] = <<>> /\ requests'[s] = <<>>
      BY <2>1, <2>6, ChunkRead DEF TypeInv
    <3> QED  BY <2>1, <2>3, <3>1 DEF OnlyPending, Listing
  <2>7. CASE ~(s = Peer /\ ClientAsks(LastRequest)) /\ ~(ReadChunk /\ s = Peer)
    <3>1. Pending(s)' = Pending(s)
      <4>1. CASE ReadChunk
        <5>1. awaiting' = FALSE
          BY <4>1 DEF ReadChunk
        <5> QED  BY <2>7, <4>1, <5>1 DEF Pending
      <4>2. CASE ClientAsks(LastRequest)
        <5>1. Peer' = Peer
          BY <4>2, AskedNow
        <5> QED  BY <2>7, <4>2, <5>1 DEF Pending
      <4> QED  BY <1>1, <1>3, <2>1, <4>1, <4>2, PendingStep
    <3>2. /\ OnlyPending(wire'[s], requests'[s], Has(s), Pending(s))
          /\ Listing(wire'[s], requests'[s]) => Listing(wire[s], requests[s])
      BY <2>1, <2>2, <2>7, SourceStays
    <3> QED  BY <2>1, <2>2, <2>3, <2>4, <3>1, <3>2
  <2> QED  BY <2>5, <2>6, <2>7
<1>4. CASE ReadChunks
  <2> DEFINE g == Head(wire[i]).file
  <2>1. /\ i \in Servers /\ cstate = "chunks" /\ Round
        /\ OnlyPending(wire'[i], requests'[i], Has(i), {})
        /\ Listing(wire'[i], requests'[i]) => g # Current
    BY <1>4, ListRead DEF ReadChunks
  <2>2. PICK files : files \subseteq RecordsOn(i, g) /\ table' = AddToTable(table, files, i)
    BY <1>4, ListRead
  <2> HIDE DEF g
  <2>3. /\ DOMAIN table' = DOMAIN table \cup files
        /\ \A x \in DOMAIN table \cup files : table'[x] = IF x \in files THEN i ELSE table[x]
    BY <2>2 DEF AddToTable
  <2>4. NextServer /\ UNCHANGED todo /\ awaiting' = FALSE
    BY <1>4 DEF ReadChunks
  <2>5. Current' = Current /\ \A r \in Servers : Pending(r)' = {} /\ Pending(r) = {}
    BY <2>1, <2>4 DEF Current, Pending
  <2>6. cstate' = "chunks" => i' = i + 1
    BY <2>1, <2>4, LoopTypes
  <2>7. CASE e \in files
    <3>1. s = i /\ e \in RecordsOn(i, g)
      BY <1>1, <2>2, <2>3, <2>7
    <3>2. g # Current => <<Current, e>> \notin Has(i)
      <4> SUFFICES ASSUME g # Current, e \in RecordsOn(i, Current) PROVE FALSE
        BY DEF Has
      <4>1. g \in DOMAIN disk[i] /\ Current \in DOMAIN disk[i] /\ e \in disk[i][g] /\ e \in disk[i][Current]
        BY <3>1 DEF RecordsOn
      <4> QED  BY <2>1, <4>1, StampsAssumption DEF TypeInv
    <3>3. cstate' = "chunks" => i < i'
      BY <1>2, <2>6
    <3> QED  BY <2>1, <2>5, <3>1, <3>2, <3>3
  <2>8. CASE e \notin files
    <3>1. s = table[e] /\ e \in DOMAIN table
      BY <1>1, <2>3, <2>8
    <3>2. /\ s < i
          /\ OnlyPending(wire[s], requests[s], Has(s), {})
          /\ Listing(wire[s], requests[s]) => <<Current, e>> \notin Has(s)
      BY <2>1, <2>5, <3>1 DEF SourceInv
    <3>3. ~ClientAsks(LastRequest)
      BY <1>4 DEF ReadChunks, Finds, ClientAsks
    <3>4. /\ OnlyPending(wire'[s], requests'[s], Has(s), {})
          /\ Listing(wire'[s], requests'[s]) => Listing(wire[s], requests[s])
      BY <3>1, <3>2, <3>3, SourceStays
    <3>5. cstate' = "chunks" => s < i'
      BY <1>2, <2>6, <3>1, <3>2
    <3> QED  BY <2>5, <3>1, <3>2, <3>4, <3>5
  <2> QED  BY <2>7, <2>8
<1>5. CASE table' = <<>>
  BY <1>1, <1>5
<1> QED  BY <1>1, <1>3, <1>4, <1>5, RoundStep

-----------------------------------------------------------------------------
(* The local files                                                         *)

\* The names that get has not begun to fetch.
Unbegun ==
  IF cstate \in {"idle", "names"} THEN Names
  ELSE IF cstate \in {"next", "chunks", "choose"} THEN ToSet(todo)
  ELSE IF cstate = "fetch" THEN ToSet(Tail(todo))
  ELSE {}

\* The first chunks of file f, of the chosen version.
Fetched(f) ==
  /\ Len(local[f]) = i
  /\ \A j \in 1..i :
       /\ local[f][j] = Answer("chunk_data", f, {<<chosen, j - 1>>})
       /\ \E s \in Servers : <<chosen, j - 1>> \in RecordsOn(s, f)

LocalInv ==
  /\ local \in [Names -> Seq(AnswerSet)]
  /\ cstate = "choose" => i = 0
  /\ \A f \in Names :
       /\ f \in Unbegun => local[f] = <<>> /\ verdict[f] = "none"
       /\ cstate = "fetch" /\ f = Current => verdict[f] = "none" /\ Fetched(f)

\* What the steps that read no chunk do to the local files and the verdicts.
LEMMA LocalStep ==
  ASSUME TypeInv, AnswersTrue, [Next]_vars
  PROVE  \/ ReadChunk
         \/ /\ UNCHANGED <<local, verdict>> /\ Unbegun' \cap Names \subseteq Unbegun
            /\ cstate' = "choose" => i' = 0 \/ (cstate = "choose" /\ i' = i)
            /\ cstate' = "fetch" =>
                 \/ cstate = "fetch" /\ UNCHANGED <<i, todo, chosen>>
                 \/ cstate = "choose" /\ UNCHANGED <<i, todo>>
         \/ /\ UNCHANGED local /\ cstate' = "next" /\ Round
            /\ \E v \in {"complete", "incomplete", "failed"} : Conclude(v)
<1>1. CASE Begin
  <2>1. cstate = "idle" /\ cstate' \in {"names", "next"} /\ UNCHANGED <<local, verdict>>
    BY <1>1 DEF Begin
  <2> QED  BY <2>1 DEF Unbegun
<1>2. CASE NextName
  <2>1. cstate = "next" /\ cstate' \in {"done", "chunks"} /\ UNCHANGED <<local, verdict, todo>>
    BY <1>2 DEF NextName
  <2> QED  BY <2>1 DEF Unbegun
<1>3. CASE ListVerdict \/ GetNothing
  BY <1>3 DEF ListVerdict, GetNothing, Conclude, Round
<1>4. CASE OpenLocal
  <2>1. cstate = "choose" /\ cstate' = "fetch" /\ UNCHANGED <<local, verdict, todo, i>> /\ todo # <<>>
    BY <1>4 DEF OpenLocal, TypeInv
  <2> QED  BY <2>1, CurrentFirst DEF Unbegun
<1>5. CASE UNCHANGED <<local, verdict>> /\ NextServer /\ cstate = "names"
  BY <1>5, LoopTypes DEF Unbegun
<1>6. CASE UNCHANGED <<local, verdict, todo>> /\ NextServer /\ cstate = "chunks"
  BY <1>6, LoopTypes DEF Unbegun
<1>7. CASE UNCHANGED <<local, verdict, todo, cstate, i, chosen>>
  BY <1>7 DEF Unbegun
<1>8. CASE TimeOut \/ ReadWrong
  <2>1. awaiting /\ Fails
    BY <1>8 DEF TimeOut, ReadWrong
  <2>2. CASE cstate = "fetch"
    BY <2>1, <2>2 DEF Fails, Conclude, Round
  <2>3. CASE cstate # "fetch"
    BY <1>5, <1>6, <2>1, <2>3 DEF Fails, TypeInv
  <2> QED  BY <2>2, <2>3
<1>9. CASE SkipServer
  BY <1>5, <1>6, <1>9 DEF SkipServer, fileVars
<1>10. CASE ReadNames \/ ReadChunks
  BY <1>5, <1>6, <1>10 DEF ReadNames, ReadChunks
<1>11. CASE ClientAsks(LastRequest)
  BY <1>7, <1>11 DEF ClientAsks, Send, fileVars
<1>12. ASSUME NEW r \in Servers, ServerStep(r)
       PROVE  UNCHANGED <<local, verdict, todo, cstate, i, chosen>>
  <2>1. PICK u \in Seq(RequestSet), a \in AnswerSet : Reply(r, u, a)
    BY <1>12, ServersAnswer
  <2> QED  BY <2>1 DEF Reply, fileVars
<1>13. CASE UNCHANGED vars
  BY <1>7, <1>13 DEF vars, fileVars
<1> QED  BY <1>1, <1>2, <1>3, <1>4, <1>7, <1>8, <1>9, <1>10, <1>11, <1>12, <1>13, AsksLast
         DEF Next, ClientStep

\* What has been concluded is of the current name alone.
LEMMA ConcludeOne ==
  ASSUME TypeInv, Round, NEW v, Conclude(v)
  PROVE  /\ Current \in FileNames /\ Unbegun' = ToSet(Tail(todo)) /\ cstate' = "next"
         /\ Current \notin Unbegun' /\ Unbegun' \subseteq ToSet(todo)
         /\ \A f \in Names : verdict'[f] = IF f = Current THEN v ELSE verdict[f]
<1>1. todo' = Tail(todo) /\ cstate' = "next" /\ verdict' = [verdict EXCEPT ![Current] = v]
      /\ todo # <<>> /\ verdict = [f \in FileNames |-> verdict[f]]
  BY DEF Conclude, Round, TypeInv
<1>2. Names \subseteq FileNames
  BY DEF FileNames
<1> QED  BY <1>1, <1>2, CurrentFirst DEF Unbegun

\* Every step keeps the local files: the data read is the data asked for last.
LEMMA LocalInvStep ==
  ASSUME TypeInv, AnswersTrue, SourceInv, LocalInv, GetsOwnFile, [Next]_vars
  PROVE  LocalInv' /\ GetsOwnFile'
<1>1. N \in Nat /\ N >= 2 /\ i \in 0..(N - 1)
  BY PlacementAssumption DEF TypeInv
<1>2. \A f : Stamps(f)' = Stamps(f)
  BY DiskStays DEF Stamps
<1>3. \A s, f : RecordsOn(s, f)' = RecordsOn(s, f)
  BY DiskStays
<1>4. CASE /\ UNCHANGED <<local, verdict>> /\ Unbegun' \cap Names \subseteq Unbegun
           /\ cstate' = "choose" => i' = 0 \/ (cstate = "choose" /\ i' = i)
           /\ cstate' = "fetch" =>
                \/ cstate = "fetch" /\ UNCHANGED <<i, todo, chosen>>
                \/ cstate = "choose" /\ UNCHANGED <<i, todo>>
  <2>1. GetsOwnFile'
    BY <1>2, <1>3, <1>4 DEF GetsOwnFile
  <2>2. ASSUME NEW f \in Names, cstate' = "fetch", f = Current'
        PROVE  verdict'[f] = "none" /\ Fetched(f)'
    <3>1. Current' = Current
      BY <1>4, <2>2 DEF Current
    <3>2. CASE cstate = "fetch" /\ UNCHANGED <<i, todo, chosen>>
      BY <1>3, <1>4, <2>2, <3>1, <3>2 DEF LocalInv, Fetched
    <3>3. CASE cstate = "choose" /\ UNCHANGED <<i, todo>>
      <4>1. f \in Unbegun
        BY <2>2, <3>1, <3>3, CurrentFirst DEF Unbegun, TypeInv
      <4>2. local[f] = <<>> /\ verdict[f] = "none" /\ i = 0
        BY <3>3, <4>1 DEF LocalInv
      <4> QED  BY <1>4, <3>3, <4>2 DEF Fetched
    <3> QED  BY <1>4, <2>2, <3>2, <3>3
  <2>3. LocalInv'
    BY <1>4, <2>2 DEF LocalInv
  <2> QED  BY <2>1, <2>3
<1>5. CASE UNCHANGED local /\ Round /\ \E v \in {"complete", "incomplete", "failed"} : Conclude(v)
  <2>1. PICK v \in {"complete", "incomplete", "failed"} : Conclude(v)
    BY <1>5
  <2>2. /\ cstate' = "next" /\ Current \notin Unbegun' /\ Unbegun' = ToSet(Tail(todo))
        /\ Unbegun' \subseteq ToSet(todo)
        /\ \A f \in Names : verdict'[f] = IF f = Current THEN v ELSE verdict[f]
    BY <1>5, <2>1, ConcludeOne
  <2>3. Unbegun' \subseteq Unbegun
    BY <1>5, <2>2 DEF Unbegun, Round
  <2>4. LocalInv'
    BY <1>5, <2>2, <2>3 DEF LocalInv
  <2>5. GetsOwnFile'
    BY <1>2, <1>3, <1>5, <2>2 DEF GetsOwnFile
  <2> QED  BY <2>4, <2>5
<1>6. CASE ReadChunk
  <2> DEFINE m == Answer("chunk_data", Current, {<<chosen, i>>})
  <2>1. /\ Peer \in Servers /\ cstate = "fetch" /\ <<chosen, i>> \in RecordsOn(Peer, Current)
        /\ local' = [local EXCEPT ![Current] = Append(@, m)] /\ UNCHANGED chosen
    BY <1>6, ChunkRead DEF ReadChunk
  <2>2. Current \in Names
    BY <2>1, RecordsOnType DEF TypeInv
  <2>3. local[Current] \in Seq(AnswerSet) /\ verdict[Current] = "none" /\ Fetched(Current)
    BY <2>1, <2>2 DEF LocalInv
  <2>4. m \in AnswerSet
    <3>1. Head(wire[Peer]) = m /\ wire[Peer] \in Seq(AnswerSet) /\ wire[Peer] # <<>>
      BY <1>6, <2>1, ChunkRead DEF TypeInv, ReadChunk, Finds
    <3> QED  BY <3>1
  <2> HIDE DEF m
  <2>5. /\ local'[Current] = Append(local[Current], m) /\ local' \in [Names -> Seq(AnswerSet)]
        /\ \A f \in Names : f # Current => local'[f] = local[f]
    BY <2>1, <2>2, <2>3, <2>4 DEF LocalInv
  <2>6. /\ Len(local'[Current]) = i + 1
        /\ \A j \in 1..(i + 1) :
             /\ local'[Current][j] = Answer("chunk_data", Current, {<<chosen, j - 1>>})
             /\ \E s \in Servers : <<chosen, j - 1>> \in RecordsOn(s, Current)
    <3>1. /\ Len(local[Current]) = i
          /\ \A j \in 1..i :
               /\ local[Current][j] = Answer("chunk_data", Current, {<<chosen, j - 1>>})
               /\ \E s \in Servers : <<chosen, j - 1>> \in RecordsOn(s, Current)
      BY <2>3 DEF Fetched
    <3>2. /\ Len(local'[Current]) = i + 1
          /\ \A j \in 1..(i + 1) : local'[Current][j] = IF j <= i THEN local[Current][j] ELSE m
      BY <2>3, <2>4, <2>5, <3>1, AppendSeq
    <3>3. ASSUME NEW j \in 1..(i + 1)
          PROVE  /\ local'[Current][j] = Answer("chunk_data", Current, {<<chosen, j - 1>>})
                 /\ \E s \in Servers : <<chosen, j - 1>> \in RecordsOn(s, Current)
      <4>1. CASE j <= i
        <5>1. j \in 1..i
          BY <1>1, <4>1
        <5> QED  BY <3>1, <3>2, <4>1, <5>1
      <4>2. CASE ~(j <= i)
        <5>1. j - 1 = i
          BY <1>1, <4>2
        <5> QED  BY <2>1, <3>2, <4>2, <5>1 DEF m
      <4> QED  BY <4>1, <4>2
    <3> QED  BY <3>2, <3>3
  <2>7. /\ Unbegun = ToSet(Tail(todo)) /\ Current \notin Unbegun /\ todo # <<>>
    BY <2>1, CurrentFirst DEF Unbegun, TypeInv
  <2>8. ASSUME \A f \in Names : verdict'[f] = "ok" =>
                 (f # Current /\ verdict[f] = "ok") \/ (f = Current /\ i + 1 = N)
        PROVE  GetsOwnFile'
    <3>1. chosen \in Stamps(Current)
      <4>1. Current \in DOMAIN disk[Peer] /\ <<chosen, i>> \in disk[Peer][Current]
        BY <2>1 DEF RecordsOn
      <4>2. disk[Peer][Current] \in {disk[s][Current] : s \in {r \in Servers : Current \in DOMAIN disk[r]}}
        BY <2>1, <4>1
      <4>3. chosen = <<chosen, i>>[1]
        OBVIOUS
      <4> QED  BY <4>1, <4>2, <4>3 DEF Stamps
    <3>2. DOMAIN local'[Current] = 1..(i + 1)
      BY <2>2, <2>5, <2>6
    <3>3. ASSUME NEW f \in Names
          PROVE  /\ local'[f] # <<>> => \E t \in Stamps(f) : \A j \in DOMAIN local'[f] :
                      /\ local'[f][j] = Answer("chunk_data", f, {<<t, j - 1>>})
                      /\ \E s \in Servers : <<t, j - 1>> \in RecordsOn(s, f)
                 /\ verdict'[f] = "ok" => Len(local'[f]) = N
      <4>1. CASE f = Current
        BY <2>6, <2>8, <3>1, <3>2, <4>1
      <4>2. CASE f # Current
        <5>1. local'[f] = local[f] /\ (verdict'[f] = "ok" => verdict[f] = "ok")
          BY <2>5, <2>8, <4>2
        <5> QED  BY <5>1 DEF GetsOwnFile
      <4> QED  BY <4>1, <4>2
    <3> QED  BY <1>2, <1>3, <3>3 DEF GetsOwnFile
  <2>9. CASE i + 1 < N
    <3>1. i' = i + 1 /\ UNCHANGED <<todo, verdict, cstate>>
      BY <1>6, <2>9 DEF ReadChunk
    <3>2. Current' = Current /\ Unbegun' = Unbegun
      BY <3>1 DEF Current, Unbegun
    <3>3. Fetched(Current)'
      BY <1>3, <2>1, <2>6, <3>1, <3>2 DEF Fetched
    <3>4. ASSUME NEW f \in Names
          PROVE  /\ f \in Unbegun' => local'[f] = <<>> /\ verdict'[f] = "none"
                 /\ f = Current' => verdict'[f] = "none" /\ Fetched(f)'
      <4>1. f \in Unbegun' => local'[f] = <<>> /\ verdict'[f] = "none"
        BY <2>5, <2>7, <3>1, <3>2 DEF LocalInv
      <4>2. f = Current' => verdict'[f] = "none" /\ Fetched(f)'
        BY <2>3, <3>1, <3>2, <3>3 DEF Fetched
      <4> QED  BY <4>1, <4>2
    <3>5. LocalInv'
      BY <2>1, <2>5, <3>1, <3>4 DEF LocalInv
    <3>6. \A f \in Names : verdict'[f] = "ok" => f # Current /\ verdict[f] = "ok"
      BY <2>3, <3>1
    <3> QED  BY <2>8, <3>5, <3>6
  <2>10. CASE ~(i + 1 < N)
    <3>1. Conclude("ok") /\ i + 1 = N /\ Round
      BY <1>1, <1>6, <2>1, <2>10 DEF ReadChunk, Round
    <3>2. /\ cstate' = "next" /\ Current \notin Unbegun' /\ Unbegun' = ToSet(Tail(todo))
          /\ \A f \in Names : verdict'[f] = IF f = Current THEN "ok" ELSE verdict[f]
      BY <3>1, ConcludeOne
    <3>3. LocalInv'
      BY <2>5, <2>7, <3>2 DEF LocalInv
    <3> QED  BY <2>8, <3>1, <3>2, <3>3
  <2> QED  BY <2>9, <2>10
<1> QED  BY <1>4, <1>5, <1>6, LocalStep

\* What is on the connections, in the table and in the local files, in every reachable
\* state.
THEOREM SessionFilesInv == Spec => []((OrderInv /\ SourceInv) /\ (LocalInv /\ GetsOwnFile))
<1> DEFINE Inv == (OrderInv /\ SourceInv) /\ (LocalInv /\ GetsOwnFile)
<1>1. Init => Inv
  <2> SUFFICES ASSUME Init PROVE Inv
    OBVIOUS
  <2>1. OrderInv
    BY DEF Init, OrderInv, DataFirst, AskedOnce
  <2>2. SourceInv
    BY DEF Init, SourceInv, Round
  <2>3. LocalInv /\ GetsOwnFile
    BY DEF Init, LocalInv, GetsOwnFile, FileNames
  <2> QED  BY <2>1, <2>2, <2>3
<1>2. (TypeInv /\ AnswersTrue) /\ Inv /\ [Next]_vars => Inv'
  BY OrderInvStep, SourceInvStep, LocalInvStep
<1> QED  BY <1>1, <1>2, SessionTypeInv, PTL DEF Spec

\* Whatever was late, cut or swallowed before, what get writes to a local file are
\* chunks of that file, of one version and in their order, and all of them when it
\* reports success.
THEOREM SessionGetsOwnFile == Spec => []GetsOwnFile
BY SessionFilesInv, PTL

-----------------------------------------------------------------------------
(* Verdicts and names when nothing was late                                *)

\* The server has nothing of what the request is for.
Refuses(s, r) ==
  /\ r.kind = "name_query" => DOMAIN disk[s] = {}
  /\ r.kind = "chunk_query" => RecordsOn(s, r.file) = {}
  /\ r.kind = "chunk_list" => r.record \notin RecordsOn(s, r.file)

\* On a connection in step an error means that.
ErrorTrue ==
  \A s \in Servers \ late :
    awaiting /\ s = Peer /\ wire[s] = <<Error>> => Refuses(s, LastRequest)

\* The only error a server sends in step is a true one.
LEMMA ErrorCause ==
  ASSUME TypeInv, NEW s \in Servers, ServerStep(s), NEW r, requests[s] = <<r>>, wire[s] = <<>>,
         wire'[s] = <<Error>>
  PROVE  Refuses(s, r)
<1>1. Head(requests[s]) = r
  OBVIOUS
<1>2. \A n, a : Reply(s, n, a) => a = Error
  <2> TAKE n, a
  <2> HAVE Reply(s, n, a)
  <2>1. wire'[s] = Append(wire[s], a)
    BY DEF Reply, TypeInv
  <2>2. Append(<<>>, a) = <<a>>
    OBVIOUS
  <2>3. <<a>> = <<Error>>
    BY <2>1, <2>2
  <2>4. <<a>>[1] = a /\ <<Error>>[1] = Error
    OBVIOUS
  <2> QED  BY <2>3, <2>4
<1>3. CASE HandleNameQuery(s)
  <2>1. Answer("name_list", None, Listed(s)) # Error
    BY MessageFields
  <2> QED  BY <1>1, <1>2, <1>3, <2>1 DEF HandleNameQuery, Asked, Refuses
<1>4. CASE HandleChunkQuery(s)
  <2>1. Answer("chunk_list", r.file, disk[s][r.file]) # Error
    BY MessageFields
  <2> QED  BY <1>1, <1>2, <1>4, <2>1 DEF HandleChunkQuery, Asked, Refuses, RecordsOn
<1>5. CASE SendChunk(s)
  <2>1. Answer("chunk_data", r.file, {r.record}) # Error
    BY MessageFields
  <2> QED  BY <1>1, <1>2, <1>5, <2>1 DEF SendChunk, Asked, Refuses, RecordsOn
<1> QED  BY <1>3, <1>4, <1>5 DEF ServerStep

\* Errors stay true: none is on the wire when the client asks, and one request has
\* one answer.
LEMMA ErrorTrueStep ==
  ASSUME TypeInv, InStep, ErrorTrue, [Next]_vars
  PROVE  ErrorTrue'
<1>1. \A s, r : Refuses(s, r)' = Refuses(s, r)
  BY DiskStays DEF Refuses
<1>2. wire \in [Servers -> Seq(AnswerSet)] /\ <<Error>> # <<>>
  BY DEF TypeInv
<1>3. CASE ~awaiting'
  BY <1>3 DEF ErrorTrue
<1>4. CASE ClientAsks(LastRequest)
  <2>1. UNCHANGED <<wire, cstate, i, todo, table, chosen, late>> /\ ~awaiting
    BY <1>4 DEF ClientAsks, Send, fileVars
  <2>2. \A s \in Servers \ late' : wire'[s] = <<>>
    BY <2>1 DEF InStep
  <2> QED  BY <1>2, <2>2 DEF ErrorTrue
<1>5. ASSUME NEW r \in Servers, ServerStep(r)
      PROVE  ErrorTrue'
  <2>1. PICK u \in Seq(RequestSet), a \in AnswerSet : Reply(r, u, a)
    BY <1>5, ServersAnswer
  <2>2. UNCHANGED <<awaiting, cstate, i, todo, table, chosen, late>>
    BY <2>1 DEF Reply, fileVars
  <2>3. Peer' = Peer /\ LastRequest' = LastRequest
    BY <2>2, LastRequestStays
  <2>4. \A q \in Servers : q # r => wire'[q] = wire[q]
    BY <1>2, <2>1 DEF Reply
  <2>5. ASSUME r \in Servers \ late, awaiting, r = Peer, wire'[r] = <<Error>>
        PROVE  Refuses(r, LastRequest)
    <3>1. requests[r] # <<>>
      BY <1>5 DEF ServerStep, HandleNameQuery, HandleChunkQuery, SendChunk, Asked
    <3>2. requests[r] = <<LastRequest>> /\ wire[r] = <<>>
      BY <2>5, <3>1 DEF InStep
    <3> QED  BY <1>5, <2>5, <3>2, ErrorCause
  <2> QED  BY <1>1, <2>2, <2>3, <2>4, <2>5 DEF ErrorTrue
<1>6. CASE UNCHANGED vars
  <2>1. UNCHANGED <<requests, wire, awaiting, cstate, i, todo, table, chosen, late>>
    BY <1>6 DEF vars, serverVars, fileVars
  <2>2. Peer' = Peer /\ LastRequest' = LastRequest
    BY <2>1, LastRequestStays
  <2> QED  BY <1>1, <2>1, <2>2 DEF ErrorTrue
<1>7. CASE ClientThinks
  BY <1>3, <1>7 DEF ClientThinks
<1> QED  BY <1>3, <1>4, <1>5, <1>6, <1>7, Thinks, ReadsShorten, AsksLast DEF Next, ClientStep


-----------------------------------------------------------------------------
(* The names that list goes through                                        *)

\* The servers up to n that were not late have given their names.
AllNamed(n) == \A s \in linked \ late : s < n => Listed(s) \subseteq ToSet(todo)

\* With no list late or cut, the names are what the servers list.
NoneInvented ==
  late = {} => \A x \in ToSet(todo) : \E s \in linked : x \in Listed(s)

NamesInv ==
  /\ cstate \in {"idle", "next"} => i = 0
  /\ cstate = "idle" => todo = <<>>
  /\ cstate = "names" => AllNamed(i) /\ NoneInvented

\* The names of a set, one after the other, are all of them.
LEMMA SetToSeqsAll ==
  ASSUME NEW S, IsFiniteSet(S), NEW q \in SetToSeqs(S)
  PROVE  ToSet(q) = S
<1> DEFINE D == 1..Cardinality(S)
<1>1. Cardinality(S) \in Nat
  BY FS_CardinalityType
<1>2. IsFiniteSet(D) /\ Cardinality(D) = Cardinality(S)
  BY <1>1, FS_Interval
<1>3. q \in [D -> S] /\ \A j, l \in D : j # l => q[j] # q[l]
  BY DEF SetToSeqs
<1>4. q \in Injection(D, S)
  BY <1>3 DEF Injection, IsInjective
<1>5. q \in Surjection(D, S)
  BY <1>2, <1>4, FS_Injection
<1> QED  BY <1>3, <1>5 DEF Surjection, ToSet

\* name_table_add keeps the names there are and adds those it is given.
LEMMA AddNamesAll ==
  ASSUME TypeInv, NEW found, found \subseteq FileNames, AddNames(found)
  PROVE  ToSet(todo') = ToSet(todo) \cup found
<1> DEFINE S == found \ ToSet(todo)
<1>1. PICK new \in SetToSeqs(S) : todo' = todo \o new
  BY DEF AddNames
<1>2. IsFiniteSet(S)
  <2>1. IsFiniteSet(FileNames)
    BY SessionAssumption, FS_AddElement DEF FileNames
  <2> QED  BY <2>1, FS_Subset
<1>3. new \in Seq(FileNames) /\ ToSet(new) = S
  BY <1>1, <1>2, SetToSeqsType, SetToSeqsAll
<1>4. todo \in Seq(FileNames)
  BY DEF TypeInv
<1> HIDE DEF S
<1>5. ToSet(todo \o new) = ToSet(todo) \cup ToSet(new)
  <2>1. \A x \in ToSet(todo \o new) : x \in ToSet(todo) \cup ToSet(new)
    BY <1>3, <1>4 DEF ToSet
  <2>2. \A x \in ToSet(todo) : x \in ToSet(todo \o new)
    BY <1>3, <1>4 DEF ToSet
  <2>3. \A x \in ToSet(new) : x \in ToSet(todo \o new)
    <3> TAKE x \in ToSet(new)
    <3>1. PICK l \in 1..Len(new) : x = new[l]
      BY <1>3 DEF ToSet
    <3>2. Len(todo) + l \in DOMAIN (todo \o new) /\ (todo \o new)[Len(todo) + l] = new[l]
      BY <1>3, <1>4
    <3> QED  BY <3>1, <3>2 DEF ToSet
  <2> QED  BY <2>1, <2>2, <2>3
<1> QED  BY <1>1, <1>3, <1>5 DEF S

\* One turn of the loop of query_file_names: a server that was not late has given all
\* its names, or has none.
LEMMA NamesTurn ==
  ASSUME TypeInv, AnswersTrue, InStep, ErrorTrue, NamesInv, cstate = "names",
         SkipServer \/ TimeOut \/ ReadWrong \/ ReadNames, NEW n, n = i + 1
  PROVE  NextServer /\ linked' = linked /\ AllNamed(n)' /\ NoneInvented'
<1> DEFINE Named(s) == Listed(s)
<1>1. /\ Peer = i /\ i \in Servers /\ linked \subseteq Servers
      /\ \A s \in Servers : Named(s) \subseteq Names
      /\ LastRequest = Request("name_query", None, None)
  BY PeerType, LayoutAssumption DEF TypeInv, LastRequest, Listed
<1>2. NextServer /\ linked' = linked /\ disk' = disk /\ late \subseteq late'
  BY DEF SkipServer, TimeOut, ReadWrong, ReadNames, Fails, serverVars, Takes, TakesPart
<1>3. /\ ToSet(todo) \subseteq ToSet(todo')
      /\ late' = {} => \A x \in ToSet(todo') : x \in ToSet(todo) \/ (i \in linked /\ x \in Named(i))
      /\ i \in linked \ late' => Named(i) \subseteq ToSet(todo')
  <2>1. CASE SkipServer
    BY <2>1 DEF SkipServer, fileVars
  <2>2. CASE TimeOut
    BY <1>1, <2>2 DEF TimeOut, Fails
  <2>3. CASE ReadWrong
    <3>1. todo' = todo
      BY <2>3 DEF ReadWrong, Fails
    <3>2. ASSUME i \notin late'
          PROVE  Named(i) = {}
      <4>1. awaiting /\ wire[Peer] = <<Error>>
        BY <1>1, <2>3, <3>2 DEF ReadWrong
      <4>2. Refuses(i, LastRequest)
        BY <1>1, <1>2, <3>2, <4>1 DEF ErrorTrue
      <4> QED  BY <1>1, <4>2, MessageFields DEF Refuses, Listed
    <3> QED  BY <3>1, <3>2
  <2>4. CASE ReadNames
    <3> DEFINE list == Head(wire[i]).body
    <3>1. /\ awaiting /\ wire[i] # <<>> /\ Head(wire[i]).kind = "name_list"
          /\ \/ AddNames(list) /\ late' = late
             \/ /\ late' = late \cup {i}
                /\ \E part \in SUBSET list, cut \in SUBSET {Garbled} : AddNames(part \cup cut)
      BY <1>1, <2>4 DEF ReadNames, Finds, Takes, TakesPart
    <3>2. Head(wire[i]) = wire[i][1] /\ 1 \in 1..Len(wire[i])
      BY <1>1, <3>1 DEF TypeInv
    <3>3. list \subseteq Names /\ Names \subseteq FileNames /\ Garbled \notin Names /\ Garbled \in FileNames
      BY <1>1, <3>1, <3>2, SessionAssumption DEF AnswersTrue, FileNames
    <3> HIDE DEF list
    <3>4. CASE AddNames(list) /\ late' = late
      <4>1. ToSet(todo') = ToSet(todo) \cup list
        BY <3>3, <3>4, AddNamesAll
      <4>2. ASSUME i \notin late'
            PROVE  list = Named(i) /\ i \in linked
        <5>1. PICK a \in MayAnswer(i, LastRequest) : wire[i] = <<a>>
          BY <1>1, <2>4, <4>2, ReadsAll
        <5>2. a.kind = "name_list" /\ list = a.body
          BY <3>1, <5>1 DEF list
        <5>3. a = Answer("name_list", None, Named(i))
          BY <1>1, <5>1, <5>2, MessageFields DEF MayAnswer
        <5>4. i \in linked
          BY <1>1, <3>1 DEF TypeInv
        <5> QED  BY <5>2, <5>3, <5>4, MessageFields
      <4> QED  BY <4>1, <4>2
    <3>5. CASE /\ late' = late \cup {i}
               /\ \E part \in SUBSET list, cut \in SUBSET {Garbled} : AddNames(part \cup cut)
      <4>1. PICK part \in SUBSET list, cut \in SUBSET {Garbled} : AddNames(part \cup cut)
        BY <3>5
      <4>2. ToSet(todo') = ToSet(todo) \cup (part \cup cut)
        BY <3>3, <4>1, AddNamesAll
      <4> QED  BY <3>5, <4>2
    <3> QED  BY <3>1, <3>4, <3>5
  <2> QED  BY <2>1, <2>2, <2>3, <2>4
<1>4. AllNamed(i) /\ NoneInvented /\ i \in Nat
  BY <1>1 DEF NamesInv, TypeInv
<1>5. NoneInvented'
  <2> SUFFICES ASSUME late' = {}, NEW x \in ToSet(todo')
               PROVE  \E s \in linked : x \in Listed(s)
    BY <1>2 DEF NoneInvented, Listed
  <2>1. late = {}
    BY <1>2
  <2> QED  BY <1>3, <1>4, <2>1 DEF NoneInvented
<1>6. AllNamed(n)'
  <2> SUFFICES ASSUME NEW s \in linked' \ late', s < n
               PROVE  Listed(s) \subseteq ToSet(todo')
    BY <1>2 DEF AllNamed, Listed
  <2>1. s \in linked \ late /\ s \in Nat
    BY <1>1, <1>2, PlacementAssumption DEF Servers
  <2>2. s < i \/ s = i
    BY <1>4, <2>1
  <2>3. CASE s < i
    BY <1>2, <1>3, <1>4, <2>1, <2>3 DEF AllNamed
  <2>4. CASE s = i
    BY <1>2, <1>3, <2>4
  <2> QED  BY <2>2, <2>3, <2>4
<1> QED  BY <1>2, <1>5, <1>6

\* While the names are asked for, only these steps change what is told of them.
LEMMA NamesSteps ==
  ASSUME TypeInv, [Next]_vars
  PROVE  \/ cstate = "names" /\ (SkipServer \/ TimeOut \/ ReadWrong \/ ReadNames)
         \/ UNCHANGED <<disk, cstate, i, todo, linked, late>>
         \/ /\ cstate = "idle" /\ cstate' \in {"names", "next"}
            /\ i' = i /\ (cstate' = "names" => todo' = todo)
         \/ /\ cstate \in {"next", "chunks", "choose", "fetch"}
            /\ cstate' \in {"next", "chunks", "choose", "fetch", "done"}
            /\ cstate' = "next" => i' = 0
<1>1. CASE Begin
  BY <1>1 DEF Begin
<1>2. CASE NextName \/ ListVerdict \/ GetNothing \/ OpenLocal
  BY <1>2 DEF NextName, ListVerdict, GetNothing, OpenLocal, Conclude
<1>3. CASE NextServer /\ cstate = "chunks"
  BY <1>3, LoopTypes
<1>4. CASE SkipServer
  BY <1>3, <1>4 DEF SkipServer
<1>5. CASE TimeOut \/ ReadWrong
  <2>1. awaiting /\ Fails /\ cstate \in {"names", "chunks", "fetch"}
    BY <1>5 DEF TimeOut, ReadWrong, TypeInv
  <2> QED  BY <1>3, <1>5, <2>1 DEF Fails, Conclude
<1>6. CASE ReadNames
  BY <1>6 DEF ReadNames
<1>7. CASE ReadChunks
  BY <1>3, <1>7 DEF ReadChunks
<1>8. CASE ReadChunk
  BY <1>8 DEF ReadChunk, Conclude
<1>9. CASE ClientAsks(LastRequest)
  BY <1>9 DEF ClientAsks, Send, fileVars
<1>10. ASSUME NEW s \in Servers, ServerStep(s)
       PROVE  UNCHANGED <<disk, cstate, i, todo, linked, late>>
  <2>1. PICK u \in Seq(RequestSet), a \in AnswerSet : Reply(s, u, a)
    BY <1>10, ServersAnswer
  <2> QED  BY <2>1 DEF Reply, fileVars
<1>11. CASE UNCHANGED vars
  BY <1>11 DEF vars, serverVars, fileVars
<1> QED  BY <1>1, <1>2, <1>4, <1>5, <1>6, <1>7, <1>8, <1>9, <1>10, <1>11, AsksLast
         DEF Next, ClientStep

\* The loop over the servers keeps NamesInv, and leaves it with all names.
LEMMA NamesInvStep ==
  ASSUME TypeInv, AnswersTrue, InStep, ErrorTrue, NamesInv, [Next]_vars
  PROVE  /\ NamesInv'
         /\ cstate = "names" /\ cstate' = "next" =>
              /\ \A s \in linked \ late' : Listed(s) \subseteq ToSet(todo')
              /\ late' = {} => ToSet(todo') = UNION {Listed(s) : s \in linked}
              /\ late' \subseteq linked
<1>1. CASE cstate = "names" /\ (SkipServer \/ TimeOut \/ ReadWrong \/ ReadNames)
  <2>1. PICK n : n = i + 1
    OBVIOUS
  <2>2. NextServer /\ linked' = linked /\ AllNamed(n)' /\ NoneInvented' /\ disk' = disk
    BY <1>1, <2>1, NamesTurn, DiskStays
  <2>3. CASE i + 1 < N
    <3>1. i' = n /\ cstate' = "names"
      BY <1>1, <2>1, <2>2, <2>3 DEF NextServer
    <3> QED  BY <2>2, <3>1 DEF NamesInv, AllNamed
  <2>4. CASE ~(i + 1 < N)
    <3>1. i' = 0 /\ cstate' = "next"
      BY <1>1, <2>2, <2>4 DEF NextServer
    <3>2. \A s \in linked : s < n
      BY <2>1, <2>4, PlacementAssumption DEF TypeInv, Servers
    <3>3. \A s \in linked \ late' : Listed(s) \subseteq ToSet(todo')
      BY <2>2, <3>2 DEF AllNamed, Listed
    <3>4. late' = {} => ToSet(todo') = UNION {Listed(s) : s \in linked}
      <4>1. \A s : Listed(s)' = Listed(s)
        BY <2>2 DEF Listed
      <4> QED  BY <2>2, <3>3, <4>1 DEF NoneInvented
    <3>5. late' \subseteq linked
      BY <2>2, TypeInvStep DEF TypeInv
    <3> QED  BY <3>1, <3>3, <3>4, <3>5 DEF NamesInv
  <2> QED  BY <2>3, <2>4
<1>2. CASE UNCHANGED <<disk, cstate, i, todo, linked, late>>
  BY <1>2 DEF NamesInv, AllNamed, NoneInvented, Listed
<1>3. CASE /\ cstate = "idle" /\ cstate' \in {"names", "next"}
           /\ i' = i /\ (cstate' = "names" => todo' = todo)
  <2>1. i = 0 /\ i' = 0 /\ (cstate' = "names" => todo' = <<>>)
    BY <1>3 DEF NamesInv
  <2>2. ToSet(<<>>) = {}
    BY DEF ToSet
  <2>3. \A s \in linked' : ~ (s < 0)
    <3>1. linked' \subseteq 0..(N - 1)
      BY TypeInvStep DEF TypeInv, Servers
    <3> QED  BY <3>1, PlacementAssumption
  <2> QED  BY <1>3, <2>1, <2>2, <2>3 DEF NamesInv, AllNamed, NoneInvented
<1>4. CASE /\ cstate \in {"next", "chunks", "choose", "fetch"}
           /\ cstate' \in {"next", "chunks", "choose", "fetch", "done"}
           /\ cstate' = "next" => i' = 0
  BY <1>4 DEF NamesInv
<1> QED  BY <1>1, <1>2, <1>3, <1>4, NamesSteps

\* The names list goes on with are all that a server has whose list fits the buffer
\* and was neither late nor cut, and when that is so of all servers, just these.
THEOREM SessionNamesListed == Spec => NamesListed
<1> DEFINE Inv == InStep /\ ErrorTrue /\ NamesInv
<1>1. Init => Inv
  BY DEF Init, InStep, ErrorTrue, NamesInv
<1>2. (TypeInv /\ AnswersTrue) /\ Inv /\ [Next]_vars => Inv'
  BY InStepStep, ErrorTrueStep, NamesInvStep
<1>3. (TypeInv /\ AnswersTrue) /\ Inv /\ [Next]_vars =>
        [cstate = "names" /\ cstate' = "next" =>
           LET fits(s) == Cardinality(Listed(s)) <= NamesInBuffer
               good == {s \in linked \ late' : fits(s)}
           IN /\ \A s \in good : Listed(s) \subseteq ToSet(todo')
              /\ good = linked => ToSet(todo') = UNION {Listed(s) : s \in linked}]_vars
  BY NamesInvStep
<1> HIDE DEF Inv
<1> QED  BY <1>1, <1>2, <1>3, SessionTypeInv, PTL DEF Spec, NamesListed

-----------------------------------------------------------------------------
(* What get and list say of a name                                         *)

\* The servers up to n have told of all their chunks of the current name.
AllTold(n) == \A s \in linked : s < n => RecordsOn(s, Current) \subseteq DOMAIN table

ChunksInv ==
  /\ cstate = "fetch" => chosen = FindLatestValidSet(table)
  /\ late = {} => /\ cstate = "chunks" => AllTold(i)
                  /\ cstate \in {"choose", "fetch"} => AllTold(N)

\* No connection gets in step again.
LEMMA LateStays == ASSUME [Next]_vars PROVE late \subseteq late'
BY DEF Next, ClientStep, ServerStep, Begin, SkipServer, TimeOut, ReadWrong, AskNames, ReadNames,
  NextName, AskChunks, ReadChunks, ListVerdict, GetNothing, OpenLocal, AskChunk, ReadChunk,
  HandleNameQuery, HandleChunkQuery, SendChunk, Takes, TakesPart, Send, Reply, vars

\* One turn of the loop of get_valid_chunk_set: a server that was not late has told of
\* all its chunks of the name, or has none.
LEMMA ChunksTurn ==
  ASSUME TypeInv, InStep, ErrorTrue, cstate = "chunks", late' = {}, AllTold(i), Next,
         SkipServer \/ TimeOut \/ ReadWrong \/ ReadChunks, NEW n, n = i + 1
  PROVE  NextServer /\ UNCHANGED <<linked, todo>> /\ AllTold(n)'
<1>1. /\ Peer = i /\ i \in Servers /\ linked \subseteq Servers
      /\ LastRequest = Request("chunk_query", Current, None)
  BY PeerType DEF TypeInv, LastRequest
<1>2. NextServer /\ UNCHANGED <<linked, todo>> /\ late = {}
  BY LateStays DEF SkipServer, TimeOut, ReadWrong, ReadChunks, Fails, fileVars
<1>3. /\ DOMAIN table \subseteq DOMAIN table'
      /\ i \in linked => RecordsOn(i, Current) \subseteq DOMAIN table'
  <2>1. CASE SkipServer
    BY <2>1 DEF SkipServer, fileVars
  <2>2. CASE TimeOut
    BY <2>2 DEF TimeOut
  <2>3. CASE ReadWrong
    <3>1. table' = table /\ awaiting /\ wire[Peer] = <<Error>>
      BY <2>3 DEF ReadWrong, Fails
    <3>2. Refuses(i, LastRequest)
      BY <1>1, <1>2, <3>1 DEF ErrorTrue
    <3>3. RecordsOn(i, Current) = {}
      BY <1>1, <3>2, MessageFields DEF Refuses
    <3> QED  BY <3>1, <3>3
  <2>4. CASE ReadChunks
    <3> DEFINE list == Head(wire[i]).body
    <3>1. Head(wire[i]).kind = "chunk_list" /\ table' = AddToTable(table, list, i)
      <4>1. ~TakesPart(i)
        BY DEF TakesPart
      <4>2. Finds("chunk_list")
        BY <2>4 DEF ReadChunks
      <4> QED  BY <1>1, <2>4, <4>1, <4>2 DEF ReadChunks, Finds
    <3>2. PICK a \in MayAnswer(i, LastRequest) : wire[i] = <<a>>
      BY <1>1, <2>4, ReadsAll
    <3>3. a.kind = "chunk_list" /\ list = a.body
      BY <3>1, <3>2
    <3>4. a = Answer("chunk_list", Current, RecordsOn(i, Current))
      BY <1>1, <3>2, <3>3, MessageFields DEF MayAnswer
    <3>5. list = RecordsOn(i, Current)
      BY <3>3, <3>4, MessageFields
    <3> HIDE DEF list
    <3>6. DOMAIN table' = DOMAIN table \cup list
      BY <3>1 DEF AddToTable
    <3> QED  BY <3>5, <3>6
  <2> QED  BY <2>1, <2>2, <2>3, <2>4
<1>4. AllTold(n)'
  <2> SUFFICES ASSUME NEW s \in linked', s < n
               PROVE  RecordsOn(s, Current)' \subseteq DOMAIN table'
    BY DEF AllTold
  <2>1. s \in linked /\ s \in Nat /\ i \in Nat /\ RecordsOn(s, Current)' = RecordsOn(s, Current)
    BY <1>1, <1>2, PlacementAssumption, DiskStays DEF Servers, RecordsOn, Current
  <2>2. s < i \/ s = i
    BY <2>1
  <2>3. CASE s < i
    BY <1>3, <2>1, <2>3 DEF AllTold
  <2>4. CASE s = i
    BY <1>3, <2>1, <2>4
  <2> QED  BY <2>2, <2>3, <2>4
<1> QED  BY <1>2, <1>4

\* How the round of one name goes on.
LEMMA ChunksSteps ==
  ASSUME TypeInv, [Next]_vars
  PROVE  \/ cstate = "chunks" /\ (SkipServer \/ TimeOut \/ ReadWrong \/ ReadChunks)
         \/ /\ UNCHANGED <<cstate, todo, table, chosen, linked>>
            /\ cstate = "chunks" => i' = i
         \/ /\ cstate = "choose" /\ cstate' = "fetch"
            /\ UNCHANGED <<todo, table, linked>> /\ chosen' = FindLatestValidSet(table)
         \/ cstate = "next" /\ cstate' = "chunks" /\ i' = i
         \/ ~Round'
<1> USE DEF Round
<1>1. CASE Begin \/ NextName
  BY <1>1 DEF Begin, NextName
<1>2. CASE ListVerdict \/ GetNothing
  BY <1>2 DEF ListVerdict, GetNothing, Conclude
<1>3. CASE OpenLocal
  BY <1>3 DEF OpenLocal
<1>4. CASE NextServer /\ cstate = "names"
  BY <1>4 DEF NextServer
<1>5. CASE SkipServer
  BY <1>4, <1>5 DEF SkipServer
<1>6. CASE TimeOut \/ ReadWrong
  <2>1. awaiting /\ Fails /\ cstate \in {"names", "chunks", "fetch"}
    BY <1>6 DEF TimeOut, ReadWrong, TypeInv
  <2> QED  BY <1>4, <1>6, <2>1 DEF Fails, Conclude
<1>7. CASE ReadNames
  BY <1>4, <1>7 DEF ReadNames
<1>8. CASE ReadChunks
  BY <1>8 DEF ReadChunks
<1>9. CASE ReadChunk
  BY <1>9 DEF ReadChunk, Conclude
<1>10. CASE ClientAsks(LastRequest)
  BY <1>10 DEF ClientAsks, Send, fileVars
<1>11. ASSUME NEW s \in Servers, ServerStep(s)
       PROVE  UNCHANGED <<cstate, i, todo, table, chosen, linked>>
  <2>1. PICK u \in Seq(RequestSet), a \in AnswerSet : Reply(s, u, a)
    BY <1>11, ServersAnswer
  <2> QED  BY <2>1 DEF Reply, fileVars
<1>12. CASE UNCHANGED vars
  BY <1>12 DEF vars, fileVars
<1> QED  BY <1>1, <1>2, <1>3, <1>5, <1>6, <1>7, <1>8, <1>9, <1>10, <1>11, <1>12, AsksLast
         DEF Next, ClientStep

\* The loop over the servers keeps ChunksInv.
LEMMA ChunksInvStep ==
  ASSUME TypeInv, AnswersTrue, InStep, ErrorTrue, NamesInv, ChunksInv, [Next]_vars
  PROVE  ChunksInv'
<1>1. late' = {} => late = {}
  BY LateStays
<1>2. \A s, f : RecordsOn(s, f)' = RecordsOn(s, f)
  BY DiskStays
<1>3. CASE cstate = "chunks" /\ (SkipServer \/ TimeOut \/ ReadWrong \/ ReadChunks)
  <2>1. NextServer
    BY <1>3 DEF SkipServer, TimeOut, ReadWrong, ReadChunks, Fails
  <2>2. Next
    BY <1>3 DEF Next, ClientStep
  <2>3. PICK n : n = i + 1
    OBVIOUS
  <2>4. late' = {} => AllTold(n)'
    BY <1>1, <1>3, <2>2, <2>3, ChunksTurn DEF ChunksInv
  <2>5. CASE i + 1 < N
    BY <1>3, <2>1, <2>3, <2>4, <2>5 DEF NextServer, ChunksInv, AllTold
  <2>6. CASE ~(i + 1 < N)
    <3>1. cstate' = "choose" /\ n = N
      BY <1>3, <2>1, <2>3, <2>6, PlacementAssumption DEF NextServer, TypeInv
    <3> QED  BY <2>4, <3>1 DEF ChunksInv, AllTold
  <2> QED  BY <2>5, <2>6
<1>4. CASE /\ UNCHANGED <<cstate, todo, table, chosen, linked>>
           /\ cstate = "chunks" => i' = i
  <2>1. Current' = Current
    BY <1>4 DEF Current
  <2> QED  BY <1>1, <1>2, <1>4, <2>1 DEF ChunksInv, AllTold
<1>5. CASE /\ cstate = "choose" /\ cstate' = "fetch"
           /\ UNCHANGED <<todo, table, linked>> /\ chosen' = FindLatestValidSet(table)
  <2>1. Current' = Current
    BY <1>5 DEF Current
  <2> QED  BY <1>1, <1>2, <1>5, <2>1 DEF ChunksInv, AllTold
<1>6. CASE cstate = "next" /\ cstate' = "chunks" /\ i' = i
  <2>1. i' = 0
    BY <1>6 DEF NamesInv
  <2>2. linked' \subseteq 0..(N - 1)
    BY TypeInvStep DEF TypeInv, Servers
  <2>3. \A s \in linked' : ~ (s < 0)
    BY <2>2, PlacementAssumption
  <2> QED  BY <1>6, <2>1, <2>3 DEF ChunksInv, AllTold
<1>7. CASE ~Round'
  BY <1>7 DEF ChunksInv, Round
<1> QED  BY <1>3, <1>4, <1>5, <1>6, <1>7, ChunksSteps

\* When all servers have told, the sets that the table has whole are the versions that
\* the connected servers have.
LEMMA WholeInTable ==
  ASSUME TypeInv, TableTrue, ChunksInv, late = {}, cstate \in {"choose", "fetch"}
  PROVE  /\ ValidSets(table) = WholeSets(Current)
         /\ FindLatestValidSet(table) =
              IF WholeSets(Current) = {} THEN None ELSE Max(WholeSets(Current))
         /\ FindLatestValidSet(table) = None <=> WholeSets(Current) = {}
<1>1. \A s \in linked : s < N
  BY PlacementAssumption DEF TypeInv, Servers
<1>2. \A s \in linked : RecordsOn(s, Current) \subseteq DOMAIN table
  BY <1>1 DEF ChunksInv, AllTold
<1>3. \A e \in DOMAIN table : table[e] \in linked /\ e \in RecordsOn(table[e], Current)
  BY DEF TypeInv, TableTrue
<1>4. \A e : e \in DOMAIN table <=> \E s \in linked : e \in RecordsOn(s, Current)
  BY <1>2, <1>3
<1>5. DOMAIN table = UNION {RecordsOn(s, Current) : s \in linked}
  BY <1>4
<1>6. ValidSets(table) = WholeSets(Current)
  <2>1. ASSUME NEW t
        PROVE  (\A c \in Chunks : <<t, c>> \in DOMAIN table) <=>
                 \A c \in Chunks : \E s \in linked : <<t, c>> \in RecordsOn(s, Current)
    BY <1>4
  <2>2. \A t : t \in ValidSets(table) <=>
          (\E e \in DOMAIN table : t = e[1]) /\ \A c \in Chunks : <<t, c>> \in DOMAIN table
    BY DEF ValidSets
  <2>3. \A t : t \in WholeSets(Current) <=>
          /\ \E e \in DOMAIN table : t = e[1]
          /\ \A c \in Chunks : \E s \in linked : <<t, c>> \in RecordsOn(s, Current)
    BY <1>5 DEF WholeSets
  <2> QED  BY <2>1, <2>2, <2>3
<1>7. ValidSets(table) \subseteq 0..MaxStamp
  BY DEF ValidSets, TypeInv, Records
<1>8. ValidSets(table) # {} => Max(ValidSets(table)) \in Nat
  BY <1>7, MaxExists, SessionAssumption
<1> QED  BY <1>6, <1>8, SessionAssumption DEF FindLatestValidSet

\* What can give a name its verdict.
LEMMA VerdictSteps ==
  ASSUME TypeInv, [Next]_vars, verdict' # verdict
  PROVE  /\ Round
         /\ \/ /\ cstate = "choose"
               /\ \/ FindLatestValidSet(table) = None /\ Conclude("incomplete")
                  \/ FindLatestValidSet(table) # None /\ (Conclude("complete") \/ Conclude("failed"))
            \/ cstate = "fetch" /\ (TimeOut \/ ReadWrong)
            \/ ReadChunk /\ cstate = "fetch" /\ ~(i + 1 < N) /\ Conclude("ok")
<1> USE DEF Round
<1>1. CASE Begin \/ NextName \/ OpenLocal \/ SkipServer
  BY <1>1 DEF Begin, NextName, OpenLocal, SkipServer, fileVars
<1>2. CASE ListVerdict \/ GetNothing
  BY <1>2 DEF ListVerdict, GetNothing
<1>3. CASE TimeOut \/ ReadWrong
  BY <1>3 DEF TimeOut, ReadWrong, Fails
<1>4. CASE ReadNames \/ ReadChunks
  BY <1>4 DEF ReadNames, ReadChunks
<1>5. CASE ReadChunk
  BY <1>5 DEF ReadChunk
<1>6. CASE ClientAsks(LastRequest)
  BY <1>6 DEF ClientAsks, Send, fileVars
<1>7. ASSUME NEW s \in Servers, ServerStep(s)
      PROVE  verdict' = verdict
  <2>1. PICK u \in Seq(RequestSet), a \in AnswerSet : Reply(s, u, a)
    BY <1>7, ServersAnswer
  <2> QED  BY <2>1 DEF Reply, fileVars
<1>8. CASE UNCHANGED vars
  BY <1>8 DEF vars, fileVars
<1> QED  BY <1>1, <1>2, <1>3, <1>4, <1>5, <1>6, <1>7, <1>8, AsksLast DEF Next, ClientStep

\* A verdict is right when nothing was late: what the table has whole is what the
\* servers have, and no server refuses what it told of.
LEMMA VerdictStep ==
  ASSUME TypeInv, AnswersTrue, InStep, TableTrue, SourceInv, LocalInv, ErrorTrue, ChunksInv,
         [Next]_vars, NEW f \in Names, verdict'[f] # verdict[f], late' = {}
  PROVE  /\ verdict'[f] = "incomplete" <=> WholeSets(f) = {}
         /\ verdict'[f] = "ok" =>
              \A j \in DOMAIN local'[f] : local'[f][j].body = {<<Max(WholeSets(f)), j - 1>>}
         /\ verdict'[f] = "failed" => cstate = "choose"
<1>1. late = {}
  BY LateStays
<1>2. /\ Round
      /\ \/ /\ cstate = "choose"
            /\ \/ FindLatestValidSet(table) = None /\ Conclude("incomplete")
               \/ FindLatestValidSet(table) # None /\ (Conclude("complete") \/ Conclude("failed"))
         \/ cstate = "fetch" /\ (TimeOut \/ ReadWrong)
         \/ ReadChunk /\ cstate = "fetch" /\ ~(i + 1 < N) /\ Conclude("ok")
  BY VerdictSteps
<1>3. ASSUME NEW v, Conclude(v)
      PROVE  f = Current /\ verdict'[f] = v
  BY <1>2, <1>3, ConcludeOne
<1>4. CASE cstate = "choose"
  BY <1>1, <1>2, <1>3, <1>4, WholeInTable
<1>5. CASE cstate = "fetch" /\ (TimeOut \/ ReadWrong)
  <2>1. awaiting /\ wire[Peer] = <<Error>>
    BY <1>5 DEF TimeOut, ReadWrong
  <2>2. Peer \in Servers /\ Peer = table[<<chosen, i>>] /\ <<chosen, i>> \in DOMAIN table
    BY <1>5, PeerType
  <2>3. LastRequest = Request("chunk_list", Current, <<chosen, i>>)
    BY <1>5 DEF LastRequest
  <2>4. Refuses(Peer, LastRequest)
    BY <1>1, <2>1, <2>2 DEF ErrorTrue
  <2>5. <<chosen, i>> \notin RecordsOn(Peer, Current)
    BY <2>3, <2>4, MessageFields DEF Refuses
  <2>6. <<chosen, i>> \in RecordsOn(Peer, Current)
    BY <1>1, <1>5, <2>2 DEF TableTrue
  <2> QED  BY <2>5, <2>6
<1>6. CASE ReadChunk /\ cstate = "fetch" /\ ~(i + 1 < N) /\ Conclude("ok")
  <2>1. f = Current /\ verdict'[f] = "ok"
    BY <1>3, <1>6
  <2>2. ValidSets(table) = WholeSets(f) /\ WholeSets(f) # {} /\ chosen = Max(WholeSets(f))
    <3>1. chosen = FindLatestValidSet(table) /\ chosen \in 0..MaxStamp
      BY <1>6 DEF ChunksInv, TypeInv
    <3>2. chosen # None
      BY <3>1, SessionAssumption
    <3> QED  BY <1>1, <1>6, <2>1, <3>1, <3>2, WholeInTable
  <2>3. /\ Head(wire[Peer]) = Answer("chunk_data", f, {<<chosen, i>>})
        /\ wire[Peer] \in Seq(AnswerSet) /\ wire[Peer] # <<>>
        /\ local' = [local EXCEPT ![f] = Append(@, Head(wire[Peer]))]
    BY <1>6, <2>1, ChunkRead DEF ReadChunk, Finds, TypeInv
  <2>4. /\ local[f] \in Seq(AnswerSet) /\ Len(local[f]) = i /\ f \in DOMAIN local
        /\ \A j \in 1..i : local[f][j] = Answer("chunk_data", f, {<<chosen, j - 1>>})
    BY <1>6, <2>1 DEF LocalInv, Fetched
  <2>5. ASSUME NEW j \in DOMAIN local'[f]
        PROVE  local'[f][j].body = {<<chosen, j - 1>>}
    <3>1. Head(wire[Peer]) \in AnswerSet
      BY <2>3
    <3> DEFINE m == Head(wire[Peer])
    <3>2. local'[f] = Append(local[f], m)
      BY <2>3, <2>4
    <3> HIDE DEF m
    <3>3. /\ j \in 1..(i + 1) /\ i \in Nat
          /\ local'[f][j] = IF j <= i THEN local[f][j] ELSE m
      BY <2>4, <3>1, <3>2, AppendSeq DEF m
    <3>4. CASE j <= i
      <4>1. j \in 1..i
        BY <3>3, <3>4
      <4>2. local'[f][j] = Answer("chunk_data", f, {<<chosen, j - 1>>})
        BY <2>4, <3>3, <3>4, <4>1
      <4> QED  BY <4>2, MessageFields
    <3>5. CASE ~(j <= i)
      <4>1. j - 1 = i /\ local'[f][j] = m
        BY <3>3, <3>5
      <4>2. m = Answer("chunk_data", f, {<<chosen, i>>})
        BY <2>3 DEF m
      <4> QED  BY <4>1, <4>2, MessageFields
    <3> QED  BY <3>4, <3>5
  <2> QED  BY <2>1, <2>2, <2>5
<1> QED  BY <1>2, <1>4, <1>5, <1>6

\* With no answer late or cut, a name is called incomplete exactly when no version is
\* whole on the connected servers, a get that succeeds has the newest that is, and it
\* fails only for the local file.
THEOREM SessionVerdictRight == Spec => VerdictRight
<1> DEFINE Types == TypeInv /\ AnswersTrue
           Channels == InStep /\ ErrorTrue /\ NamesInv /\ ChunksInv
           Right == \A f \in Names : verdict'[f] # verdict[f] /\ late' = {} =>
                      /\ verdict'[f] = "incomplete" <=> WholeSets(f) = {}
                      /\ verdict'[f] = "ok" =>
                           \A j \in DOMAIN local'[f] : local'[f][j].body = {<<Max(WholeSets(f)), j - 1>>}
                      /\ verdict'[f] = "failed" => cstate = "choose"
<1>1. Init => Channels
  BY DEF Init, InStep, ErrorTrue, NamesInv, ChunksInv
<1>2. Types /\ Channels /\ [Next]_vars => Channels'
  BY InStepStep, ErrorTrueStep, NamesInvStep, ChunksInvStep
<1>3. Types /\ Channels /\ TableTrue /\ SourceInv /\ LocalInv /\ [Next]_vars => [Right]_vars
  BY VerdictStep
<1> QED  BY <1>1, <1>2, <1>3, SessionTypeInv, SessionTableTrue, SessionFilesInv, PTL
         DEF Spec, VerdictRight

-----------------------------------------------------------------------------
(* How many steps a command can take                                       *)

\* The loops the command has before it, from the outside in: over the servers for
\* their names, over the names, and for one name over the servers and the chunks.
Phase == IF cstate = "idle" THEN 2 ELSE IF cstate = "names" THEN 1 ELSE 0
NamesLeft == IF Phase = 0 THEN Len(todo) ELSE 0

\* A turn of an inner loop is a question and the end of the wait for its answer.
TurnsLeft == 2 * (N - i) - (IF awaiting THEN 1 ELSE 0)
StepsLeft ==
  CASE cstate \in {"names", "fetch"} -> TurnsLeft
    [] cstate = "next" -> 4 * N + 2
    [] cstate = "chunks" -> 2 * N + 1 + TurnsLeft
    [] cstate = "choose" -> 2 * N + 1
    [] OTHER -> 0

\* The step leaves less to do in one loop, and no more in those around it.
Nearer ==
  \/ Phase' < Phase
  \/ Phase' = Phase /\ NamesLeft' < NamesLeft
  \/ Phase' = Phase /\ NamesLeft' = NamesLeft /\ StepsLeft' < StepsLeft

\* What is left of the loops can be counted.
LEMMA LeftTypes ==
  ASSUME TypeInv
  PROVE  Phase \in Nat /\ NamesLeft \in Nat /\ StepsLeft \in Nat /\ TurnsLeft \in 1..(2 * N)
<1>1. N \in Nat /\ i \in 0..(N - 1) /\ Len(todo) \in Nat
  BY PlacementAssumption DEF TypeInv
<1>2. TurnsLeft \in 1..(2 * N)
  BY <1>1 DEF TurnsLeft
<1>3. StepsLeft \in Nat
  BY <1>1, <1>2 DEF StepsLeft, TypeInv
<1> QED  BY <1>1, <1>2, <1>3 DEF Phase, NamesLeft

\* The next turn of a loop over the servers, or its end.
LEMMA ServerDone ==
  ASSUME TypeInv, NextServer, cstate \in {"names", "chunks"}, awaiting' = FALSE,
         cstate = "names" \/ UNCHANGED todo
  PROVE  Nearer
<1>1. N \in Nat /\ N >= 2 /\ i \in 0..(N - 1) /\ awaiting \in BOOLEAN
  BY PlacementAssumption DEF TypeInv
<1>2. CASE cstate' = cstate /\ i' = i + 1
  <2>1. TurnsLeft' < TurnsLeft
    BY <1>1, <1>2 DEF TurnsLeft
  <2>2. TurnsLeft \in Nat /\ TurnsLeft' \in Int
    BY <1>1, <1>2 DEF TurnsLeft
  <2> HIDE DEF TurnsLeft
  <2>3. StepsLeft' < StepsLeft
    BY <1>1, <1>2, <2>1, <2>2 DEF StepsLeft
  <2> QED  BY <1>2, <2>3 DEF Nearer, NamesLeft, Phase
<1>3. CASE cstate' = "next" /\ cstate = "names"
  BY <1>3 DEF Nearer, Phase
<1>4. CASE cstate' = "choose" /\ cstate = "chunks"
  <2>1. StepsLeft' < StepsLeft
    BY <1>1, <1>4, LeftTypes DEF StepsLeft
  <2> QED  BY <1>4, <2>1 DEF Nearer, NamesLeft, Phase
<1> QED  BY <1>2, <1>3, <1>4, LoopTypes

\* The end of one name.
LEMMA NameDone ==
  ASSUME TypeInv, NEW v, Conclude(v), cstate \in {"choose", "fetch"}
  PROVE  Nearer
<1>1. todo \in Seq(FileNames) /\ todo # <<>> /\ todo' = Tail(todo) /\ cstate' = "next"
  BY DEF TypeInv, Conclude
<1>2. Len(todo') < Len(todo)
  BY <1>1
<1> QED  BY <1>1, <1>2 DEF Nearer, NamesLeft, Phase

\* A question, and the other steps without an answer.
LEMMA AskNearer ==
  ASSUME TypeInv, ClientAsks(LastRequest)
  PROVE  Nearer
<1>1. /\ N \in Nat /\ i \in 0..(N - 1) /\ ~awaiting /\ awaiting' = TRUE
      /\ UNCHANGED <<cstate, i, todo>> /\ cstate \in {"names", "chunks", "fetch"}
  BY PlacementAssumption DEF TypeInv, ClientAsks, Send, fileVars
<1>2. TurnsLeft' = TurnsLeft - 1 /\ TurnsLeft \in Nat
  BY <1>1 DEF TurnsLeft
<1>3. StepsLeft' < StepsLeft
  BY <1>1, <1>2 DEF StepsLeft
<1> QED  BY <1>1, <1>3 DEF Nearer, NamesLeft, Phase

LEMMA ThinkNearer ==
  ASSUME TypeInv, Begin \/ SkipServer \/ NextName \/ ListVerdict \/ GetNothing \/ OpenLocal
  PROVE  Nearer
<1>1. N \in Nat /\ N >= 2 /\ i \in 0..(N - 1) /\ awaiting = FALSE /\ awaiting' = FALSE
  BY PlacementAssumption, Thinks DEF ClientThinks, TypeInv
<1>2. CASE Begin
  BY <1>2 DEF Begin, Nearer, Phase
<1>3. CASE SkipServer
  BY <1>1, <1>3, ServerDone DEF SkipServer, fileVars
<1>4. CASE NextName
  <2>1. cstate = "next" /\ UNCHANGED <<i, todo>> /\ cstate' \in {"done", "chunks"}
    BY <1>4 DEF NextName
  <2>2. StepsLeft' < StepsLeft
    BY <1>1, <2>1 DEF StepsLeft, TurnsLeft
  <2> QED  BY <2>1, <2>2 DEF Nearer, NamesLeft, Phase
<1>5. CASE ListVerdict \/ GetNothing
  BY <1>5, NameDone DEF ListVerdict, GetNothing
<1>6. CASE OpenLocal
  <2>1. cstate = "choose" /\ cstate' = "fetch" /\ UNCHANGED <<i, todo>>
    BY <1>6 DEF OpenLocal
  <2>2. StepsLeft' < StepsLeft
    BY <1>1, <2>1 DEF StepsLeft, TurnsLeft
  <2> QED  BY <2>1, <2>2 DEF Nearer, NamesLeft, Phase
<1> QED  BY <1>2, <1>3, <1>4, <1>5, <1>6

\* The end of a wait, whether it brought the answer or not.
LEMMA ReadNearer ==
  ASSUME TypeInv, TimeOut \/ ReadWrong \/ ReadNames \/ ReadChunks \/ ReadChunk
  PROVE  Nearer
<1>1. N \in Nat /\ i \in 0..(N - 1) /\ awaiting /\ awaiting' = FALSE
      /\ cstate \in {"names", "chunks", "fetch"}
  BY PlacementAssumption, ReadsShorten
     DEF TypeInv, TimeOut, ReadWrong, ReadNames, ReadChunks, ReadChunk, Fails, Finds
<1>2. CASE TimeOut \/ ReadWrong
  <2>1. CASE cstate = "fetch"
    BY <1>2, <2>1, NameDone DEF TimeOut, ReadWrong, Fails
  <2>2. CASE cstate # "fetch"
    BY <1>1, <1>2, <2>2, ServerDone DEF TimeOut, ReadWrong, Fails
  <2> QED  BY <2>1, <2>2
<1>3. CASE ReadNames
  BY <1>1, <1>3, ServerDone DEF ReadNames
<1>4. CASE ReadChunks
  BY <1>1, <1>4, ServerDone DEF ReadChunks
<1>5. CASE ReadChunk
  <2>1. CASE i + 1 < N
    <3>1. cstate = "fetch" /\ i' = i + 1 /\ UNCHANGED <<todo, cstate>>
      BY <1>5, <2>1 DEF ReadChunk
    <3>2. StepsLeft' < StepsLeft
      BY <1>1, <3>1 DEF StepsLeft, TurnsLeft
    <3> QED  BY <3>1, <3>2 DEF Nearer, NamesLeft, Phase
  <2>2. CASE ~(i + 1 < N)
    BY <1>5, <2>2, NameDone DEF ReadChunk
  <2> QED  BY <2>1, <2>2
<1> QED  BY <1>2, <1>3, <1>4, <1>5

\* A server's step takes nothing from the loops, and gives nothing to them.
LEMMA ServersLeave ==
  ASSUME TypeInv, NEW s \in Servers, ServerStep(s)
  PROVE  UNCHANGED <<Phase, NamesLeft, StepsLeft>>
<1>1. PICK u \in Seq(RequestSet), a \in AnswerSet : Reply(s, u, a)
  BY ServersAnswer
<1>2. UNCHANGED <<cstate, i, todo, awaiting>>
  BY <1>1 DEF Reply, fileVars
<1> QED  BY <1>2 DEF Phase, NamesLeft, StepsLeft, TurnsLeft

\* What holds at the end of CommandEnds's argument whatever the scheduling: no loop of
\* list and get is entered again or prolonged by what servers answer, late, cut or
\* about something else, so the client takes finitely many steps; that it takes them
\* all is its fairness.
THEOREM SessionStepsRunOut ==
  Spec => [][/\ Phase \in Nat /\ NamesLeft \in Nat /\ StepsLeft \in Nat
             /\ ClientStep => Nearer
             /\ (\E s \in Servers : ServerStep(s)) => UNCHANGED <<Phase, NamesLeft, StepsLeft>>]_vars
<1>1. ASSUME TypeInv, ClientStep PROVE Nearer
  BY <1>1, AskNearer, ThinkNearer, ReadNearer, AsksLast DEF ClientStep
<1>2. ASSUME TypeInv, NEW s \in Servers, ServerStep(s)
      PROVE  UNCHANGED <<Phase, NamesLeft, StepsLeft>>
  BY <1>2, ServersLeave
<1>3. TypeInv /\ [Next]_vars =>
        [/\ Phase \in Nat /\ NamesLeft \in Nat /\ StepsLeft \in Nat
         /\ ClientStep => Nearer
         /\ (\E s \in Servers : ServerStep(s)) => UNCHANGED <<Phase, NamesLeft, StepsLeft>>]_vars
  BY <1>1, <1>2, LeftTypes
<1> QED  BY <1>3, SessionTypeInv, PTL DEF Spec

=============================================================================
