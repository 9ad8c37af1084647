# TLA+ models and proofs of the distributed file system

The repository is a small distributed file system in C: `dfs`, a multi-threaded
server that keeps chunk files in a directory, and `dfc`, a client with the
commands `put`, `get` and `list`. A file is cut into four chunks and every chunk
is sent to two of four servers, so that a file survives the loss of a server.

This directory holds TLA+ modules translated from `src/`, TLC configurations that
check them on small instances, and proofs that TLAPS checks for every value of
the constants. `PROJECT.json` maps every definition to the lines it models.

## 1. The system

| part | state | operations | interacts with |
|---|---|---|---|
| job stack (`thread-safe-job-stack.c`) | array of descriptors, `top`, `finished`, a mutex, `not_full`, `not_empty` | push, push_back, pop, signal_finish | shared by main and the workers of a server |
| server threads (`server.c` main, worker_main) | open descriptors, `SHOULD_SHUTDOWN`, each thread's descriptor | accept and push; pop, peek, serve, requeue or close; signal handler, join | the stack; clients over TCP |
| storage handlers (`server.c`) | directory per file name, `<stamp>-<chunk>.chunk` files, temp files | receive_chunk, send_chunk, handle_chunk_query, handle_name_query | a worker calls one per request; answers do not say what they answer |
| put (`client.c` put_file) | local temp files, transfers done, `has_failed` | partition, map to servers, 8 transfers without answers | one connection per server |
| get (`client.c` get_file) | per file name: chunk table, chosen set, local file | query every server, choose the latest complete set, fetch 4 chunks | one connection per server for all its file names; a recv waits a second |
| list (`client.c` list_all_files, query_file_names) | name table, a chunk table per name | query names, then chunks of each name | the same, and new connections per name to servers there is none to |
| byte transfer (`utils.c`) | buffers and counters of one call | send_file_data, copy_into_buffer_or_send, try_send_in_chunks, receive_file_data | both ends of a connection |
| chunk records (`chunk-record.c`) | table of sets by stamp | chunk_table_add, find_latest_valid_set, conversions | get and list |
| the rest | — | config reading, log file lock, uthash, experiments, tests | — |

What is hard in it, and the properties that would catch it going wrong:

* **Threads around the stack.** Two condition variables that wake one sleeper at a
  time, a `push_back` that never waits and reads `finished` without the lock, an
  early return that keeps the mutex, shutdown while jobs circulate. Correct means:
  no overflow, no lost wake-up, no stuck mutex, nothing left on the stack when it
  is freed, one owner per descriptor, shutdown ends, waiting jobs are served.
* **Bytes on one connection.** Chunks follow each other with no answer in between;
  `send` and `recv` move any number of bytes; a sender may die in the middle.
  Correct means: the receiver always finds the next header, stores exactly what
  was sent, and a reader that reports success has exactly the chunk.
* **Versions of a file.** Puts and gets of the same name run at once, over
  several servers, with servers down, crashing and restarting, and puts killed
  half-way. Correct means: a successful get is one whole version, not older than
  what was stored when it began; it fails only for a cause; what is published
  stays; what put calls a success is stored in the end.
* **Several requests on one connection.** The client gives up an answer after a
  second and goes on; the answer may come later, may be cut, or may never come
  because the server took two requests for one. Correct means: a file name never
  gets another one's chunks, what is written to a local file is that file's, in
  order, of one version; `list` misses no name it was told; every command ends.
* **Arithmetic.** Chunk lengths, the placement ring, 32-bit timestamps.

Every hazard is listed in `PROJECT.json` at its line, with the properties that
cover it or the reason why none does.

## 2. The plan

| order | module | composes | status |
|---|---|---|---|
| 1 | `JobStack`, `WorkerPool`, `OneOwner` (abstract) | WorkerPool extends JobStack and implements OneOwner | modelled, checked, safety and refinement proved |
| 2 | `Placement`, `ChunkStore`, `FileStore` (abstract) | ChunkStore extends Placement and implements FileStore | modelled, checked, safety and refinement proved |
| 3 | `Partition`, `ChunkTransfer` | one put's file, and its bytes on one connection | modelled; ChunkTransfer checked; safety of both proved |
| 4 | `ChunkTable` | the client's chunk table, used by ChunkStore and Session | checked through both; facts proved |
| 5 | `Session` | list and get of several names on the same connections; extends ChunkTable | modelled, checked, safety proved |
| 6 | `Server`: WorkerPool with what clients send (inboxes, idle and ended peers) | the promise of the clients that WorkerPool's fairness assumes | to do |

Every invariant and action property of the passing runs is proved, and both
refinements. What TLC alone says is liveness; the last row of the table is what is left.

## 3. The modules and the code

### JobStack, WorkerPool

One action per call on the stack, since each call is one critical section. Finer
steps where the code has them: a thread parked in `pthread_cond_wait` (a member of
`notEmpty` or `notFull`) that later gets the mutex back and returns FAIL, the
unlocked read of `finished` in push_back (`ReadFinished`, then `WorkerPushBack`),
and the early return of push with the mutex held (`PushFinished`).
`pthread_cond_signal` wakes any one sleeper, and any sleeper may wake without
cause.

`content` is the array up to `top`, bottom first: push appends, push_back
prepends, pop takes the last. `pc` says where a thread is in main's or
worker_main's loop and `held` which descriptor it has in its hands. `open` is the
set of open descriptors: accept returns one that is not open, so numbers are
reused. `BadFd` is the -1 that a failed accept returns and main pushes like any
other. What a request does to files is left out: in "serve" a worker takes any way
out of the loop body: requeue, close, lose the descriptor when recv fails, or find
an invalid header, which closes the descriptor and still requeues or closes it
again (only with `MayDesync`; by `Framed` of ChunkTransfer a dfc connection gets
there only after an upload that the server refused). The descriptor may have been
closed, or reused, by another worker in between: `Requeue` pushes it back all the
same. `orderly` is a history variable, TRUE until the first invalid header.

`OneOwner` states what all this is for: a descriptor has one owner and moves only
along accept, stack, worker, stack or closed. The pool implements it while it is
`orderly`; pool_desync shows what comes after.

### Placement, ChunkStore

`Placement` is put_file's map from transfer to server (`Dest`) and chunk
(`ChunkSent`); `Homes(c)` are the servers that get chunk c.

`ChunkStore` has one file name, any number of puts and gets, and the servers. A
put is named by its timestamp. `disk[s]` are the published chunk files of server
s, a function from the name <<stamp, chunk>> to a content: whose chunk it is and
whether it is whole. `inbox` are the chunks sent and not yet read, `saving` the one
a worker is writing to its temp file. `linked[c]` are the sockets a client has,
`alive[c]` those whose other end still exists; a crash takes a server's
connections and what was in them and leaves its chunk files.

* `SendChunk` is one turn of put_file's sending loop: delivered, failed
  (`has_failed` is set), or lost in a connection whose break is not noticed yet.
  `PutDies` kills the process between transfers or in the middle of one.
* `BeginSave`, `FinishSave` are receive_chunk: the temp file, then the rename that
  publishes the chunk, whole or not.
* `Query`, `QueryFails`, `QueryIsCut` are query_chunk_info for the next server with
  handle_chunk_query behind it; a list that is cut or late leaves its rest in the
  socket, and the server is then in `stale`.
* `Choose` is find_latest_valid_set, `Fetch` and `FetchFails` one turn of
  get_file's loop with send_chunk behind it. `FetchCut` is a turn that goes wrong
without get knowing: the header came without all of its chunk_info, or the data was
late.

Not every chunk has bytes: `Filled[p]` says how many of put p's chunks do, the first
ones, as PartitionEmptyChunksLast proves of put_file's arithmetic. Of the others
`SendChunk` sends nothing and counts a success, as send_file_data does. `RefuseSave`
is receive_chunk's error path: the data stays in the socket, the worker takes it for
a header, and the connection ends with all that put sends after it; put is not told.

`Faults` says which failures an instance has, apart from crashes: `put_dies` (between
two transfers), `put_cut` (in the middle of one), `save_fails` (the refusal above),
`short_read` (a chunk list, or the message header of an answer, is cut or late),
`cut_header` (the chunk_info behind a message header is) and `late_data` (a chunk's
data is). `Crash` translates no line of the code: it is what the environment does to
the process, and PROJECT.json marks it external.

`settled[g]` is a history variable: the puts that were on all their servers when g
began. `FileStore` is the store as a user sees it: puts begin and at some point
are kept; a get ends with one put's file not older than anything kept when it
began, or with nothing. The refinement mapping is `File` in ChunkStore. It maps a get
that reports success to the puts whose whole file, chunk by chunk, is what it wrote:
for a truncated or mixed answer there is no such put, and FileStore has no such step.

### Partition, ChunkTransfer

`Partition` is put_file's loop over copy_bytes_to_file: how many bytes each
temporary chunk file gets, with the read position of the original. A read takes any
number of bytes, so the length of the buffer does not matter. All that is worth saying
of it is arithmetic on one process's variables, for every length and every number of
servers: it is proved, and has no run.

`ChunkTransfer` is one connection: send_file_data at one end, with its two buffers,
`haveSent`, and try_send_in_chunks sending any part of what is left; receive_chunk
behind the worker's peek (upload) or get_file (download) at the other. The wire is
a sequence of units, a message's header being three of them (the places where a
short read makes a difference) and each data byte one. `lengths` gives the bytes of
each chunk file; a file without bytes is never sent, not even its header
(`BeginSend` passes it by), and a client that asked for one waits for nothing. A
server that cannot make the directory or the temp file answers with an error and
leaves the data in the connection (`ServerHeader`, fault "save_fails"): put never
reads that answer, and the worker takes the data for the next header, which is the
one way to the state "invalid". "sender_dies" kills the sending process at any
point; `TimeOut` is the client's recv giving up: for the header that is a failure, in
the middle of the data (fault "late_data") receive_file_data uses the -1 as a length,
and the model ends in "undefined". `ClientHeader` fails on fewer bytes than a message
header and takes anything longer, as get_file does.

### ChunkTable, Session

`ChunkTable` is the client's chunk table: a function from stamp and chunk to the
server that reported it last, and find_latest_valid_set.

`Session` is one dfc process that lists, or gets several names, over one
connection per server, with the worker at each other end. A connection carries
messages: `requests[s]` what the server has not read, `wire[s]` the answers not
read by the client, and `Rest` what is left of an answer that was read in part. The
disks do not change: versions that come and go are ChunkStore's subject, this
module's is which answer is taken for which.

* `AskNames`, `AskChunks`, `AskChunk` send a request and set `awaiting`; then
  `ReadNames`, `ReadChunks`, `ReadChunk` take the answer of the type expected, or
  `ReadWrong` meets something else (an error, or what an earlier request left), or
  `TimeOut` gives up. An answer of the right type is taken without question, be it
  the answer to an earlier request.
* `ReadNames` has the client's one buffer: names are taken from the first recv, the
  last may be cut, and when the list fills the buffer, memory behind it may be taken
  for a name; all that is the name `Garbled`. `ReadChunks` may get only a part.
* `HandleNameQuery` reads a buffer's worth (`RequestsInBuffer` whole requests, and
  maybe part of the next), so requests that were sent later, after a time-out, can go
  with the first and are never answered. What is left of one read in part is `Spoilt`:
  alone it is no header, with the request behind it it can look like a name query.
* `NextName` starts a new chunk table; `list` then also tries again to connect.

`late` is a history variable: the connections on which an answer was not awaited to
its end. Off those, requests and answers are in step (`InStep`). On those a
`chunk_list` of an earlier name can be taken for that of the current one. Then
`list` may print a file as complete that is not, but a get cannot put another
file's chunks together: the stamps of two files differ, and a server that is asked
for a chunk it does not have answers with an error (`GetsOwnFile`).

## 4. The runs

| run | instance | what it shows |
|---|---|---|
| `pool` | 2 workers, 2 descriptors and the -1 of a failed accept, 2 slots + 2 reserve, invalid headers allowed, with fairness | in every interleaving CapacityOK, MutexReleased, NoLostWakeUp, PusherSleepsWhenFull, EmptyAtDestruct; until the first invalid header SingleOwner, and the pool implements OneOwner; ShutdownCompletes, NoStall |
| `pool_desync` (violation) | 2 workers, 3 descriptors | after an invalid header two workers serve one connection |
| `pool_idle` (violation) | 1 worker, 4 descriptors, 2 slots + 1 reserve, main wins every race | with slots + workers connections idle or at end of file, an accepted client is never serviced |
| `store_safety` | 3 servers, a stored version and the rest of a short file, 1 put, 1 get, saves refused, 1 crash and restarts, any servers down at first | GetWhole, FreshGet, GetSurvivesFailures, PublishedStays, PutLeavesAll; ChunkStore implements FileStore |
| `store_live` | 2 servers, a stored version, 1 put, 1 get; puts killed, uploads, chunk lists and headers cut, saves refused, 1 crash; with fairness | FreshGet, CleanPutReplicates, GetEnds |
| `store_small_file` (violation) | 4 servers, all of which take what they get, a put of a file whose last chunk has no bytes | put reports no failure, and the version is never complete (AcceptedIsStored) |
| `store_cut_upload` (violation) | 2 servers, a put cut inside a chunk | a truncated chunk is published and returned (GetWhole) |
| `store_stamp_wrap` (violation) | stamps modulo 4 | after a wrap the older version wins (FreshGet) |
| `transfer` | files of 3 to 5 chunks, some of them empty, around a buffer of 4, a wire of 9, both directions; the sender may die, the server refuse a chunk, the client time out | BufferFits, Framed, StoredExact, GotExact, AllHandedOver, OnlyEmptyLost, GetReturns |
| `transfer_split` (violation) | headers that arrive in pieces | get reports success with wrong bytes (GotExact) |
| `session` | 2 servers, 4 names of which one hidden, 3 disk layouts, `list` or a get of up to two names, answers late, cut or swallowed | InStep, TableTrue, GetsOwnFile, NamesListed, VerdictRight, CommandEnds |
| `session_long_list` (violation) | the same for `list`, answers late but none cut | of a name list that is longer than the buffer, and came in time, a name is lost or garbled (NameListRead) |

Each violation is a disagreement between the code and one of its own comments or
its readme: "findings" in `PROJECT.json` quotes it.

**Bounds.** Two workers are the fewest that can race with each other and with
main. Two descriptors and the -1, which main pushes like any other, let the stack be
empty, full and overfull (reserve slots in use) with main waiting to push; pool_desync
has a third one, which accept can return again (182,006 states for `pool`). Three servers
are the fewest with both neighbours that are down (a gap) and a single one; with four,
as in constants.h, nothing new can happen in the model, and the proofs cover every
number. In `store_safety` stamp 2 is that of a short file, so that a set that is never
complete lies between the stored version and the put's; `store_small_file` has the four
servers of constants.h. One crash suffices for a break at every step; restarts are not
bounded. A wire of 9 with a buffer of 4 lets parts of two messages be on the wire at
once; the chunks of `transfer` are shorter, equal and longer than what fits a buffer
beside the header, and a chunk without bytes comes first, between others, and beside
another one. In `session` two servers are enough for one connection to be out of step
while the other is not; the layouts have a server without a storage directory, a newer
version that is half there or that each server has a half of, files whose chunks lie on
one server or on two, a hidden name and, with `NamesInBuffer` 2, a list that does not
fit; `RequestsInBuffer` 2 (7 in the code) lets a recv end before, inside and behind
a request; two names are the fewest for an answer to come to the wrong one (about
918,000 states). `StampMod` is 8 where the wrap is not the question, above every stamp used.

**Deadlock.** Checked for the pool, where the only stop is main's return
(`Terminated`). The other configurations say CHECK_DEADLOCK FALSE: commands end,
and then nothing more needs to happen.

**Fairness.** Every thread and process is scheduled (weak fairness of its steps).
Nothing is promised about the environment: clients need not connect, commands
need not be started, servers need not restart, signals need not come. Two
assumptions are more than scheduling. In WorkerPool a worker in "serve" goes on:
its peek blocks until the client sends something or closes, and a dfc process does
one or the other. In ChunkStore a server's workers come to every connection with a
request: that is NoStall of WorkerPool, and pool_idle shows where it ends, when
too many ended connections circulate. In ChunkTransfer a client's
recv returns after a second (connect_to_servers sets the time-out), so `TimeOut` is
fair. In Session only the client is fair: its recv returns after a second at the
latest, and a server may be too slow at any time, or for ever. `LuckyMainSpec` adds strong fairness for
main's push, so that the violation of pool_idle is not a matter of bad luck.

## 5. The proofs

All theorems hold for every value of the constants under the named assumptions in
the modules (`ThreadsAssumption`, `SizeAssumption`, `JobsAssumption`,
`PlacementAssumption`, `StoreAssumption`, `TransferAssumption`,
`SessionAssumption`, `LayoutAssumption`, `StampsAssumption`, `OwnersAssumption`),
which TLC evaluates in the runs. `SizeAssumption` has the one fact about server.c:83 that
matters: there are at least as many reserve slots as workers.

**WorkerPool_proofs**: PoolTypeOK, PoolMutexReleased, PoolPusherSleepsWhenFull,
PoolEmptyAtDestruct, PoolCapacityOK, PoolNoLostWakeUp, and PoolSingleOwner
(until the first invalid header: `orderly`). The inductive invariant is built in layers:
`TypeInv` (typing, and a descriptor in a thread's hands exactly where its control
says so); `ControlInv` (the stack is finished exactly when main has left its loop:
so push never meets a finished stack); `WaitInv` (who is parked, and why);
`DrainInv` (while jobs are on the stack some worker has not exited: a worker that
pushes back after the flag was set pops again); `CountInv` (jobs on the stack plus
jobs in workers' hands fit the slots and the workers: CapacityOK alone is not
inductive, since a push_back adds without looking); `OwnInv` (while `orderly`, circulating
descriptors are open, so accept never returns one of them). PoolImplementsOneOwner,
of the same steps, follows from OwnInv before and after each step: MainPush is
Submit, a pop Claim, push_back Return; a peek that fails or a push_back that finds the
stack finished is Lose; a step that moves -1, or parks, stutters.
PoolDrainRunsOut bounds the end: once `finished` is set, every step of a worker
lowers `DrainLeft` (four for each job on the stack, and a cost of at most six for where
each worker is), which is at most 4 * Capacity + 6 * Cardinality(Workers), and nothing
else changes it. The cost of six is that of a worker that tested `finished` before it was
set and will still push its job back, and pop again: so the drain cannot go round in
circles.

**ChunkTable_proofs**: lemmas for both users of the table: a finite set of numbers
has a greatest member, and find_latest_valid_set returns a set that is complete and
newer than every other complete one, or None when there is none.

**Placement_proofs**: TwoHomes (every chunk has exactly two homes, neighbours on
the ring), CoveredUnlessGap and GapUncovered (servers that are up have a copy of
every chunk exactly when no two neighbours are down).

**ChunkStore_proofs**: StoreTypeOK, StorePublishedStays, StoreGetWhole (assuming `NothingCut`:
no put is cut inside a chunk, and no header or data of an answer is cut or late;
store_cut_upload and transfer_split show that it is needed),
StoreFreshGet (assuming the stamps on the wire are in the order of the
puts: store_stamp_wrap shows it is needed), StoreGetSurvivesFailures. The layers:
`StoreInv` and `GetInv` (types; a table entry names a file that is there; the
choice is the greatest complete set); `StoredInv` (what is in a socket, a temp file
or a chunk file belongs to the put and chunk of its name and to that server: a
get then finds what the name says); `OnceInv` (a chunk comes to a server once, since
put_file never sends it there twice, and is in one place there: socket, temp file or
chunk file; so a rename never meets an existing file, and PublishedStays holds even
when an upload is cut); `FetchedInv` (what has been fetched
are the first chunks of the choice, from servers that answered to the end);
`AnswerInv` (what was stored when the get began is still there, and every server
that the table names, or that was asked over a connection still intact, and that
answered to the end, has all of it in the table). FreshGet then follows because a
set can be fetched only from such servers, and each chunk's server had the same
chunk of every settled put: the table had those complete sets too, and the choice
is the greatest. GetSurvivesFailures follows with CoveredUnlessGap.
StorePutLeavesAll says what an ended put leaves behind, under every fault: a server
that has neither crashed nor refused a chunk since the put connected holds each of its
chunks that has bytes, whole, in a socket, a temp file or a chunk file, and for a server
it had no socket to the put reports a failure. StoreCleanPutStored adds that once no
upload is under way all of it is in chunk files. They need `SentInv`: every transfer the
put has done is accounted for (its chunk has no bytes; or its server holds the chunk
whole, or has crashed or refused one, or was not there and the put reports a failure). By OnceInv no step of a
server loses what it holds: reading a socket moves the chunk to a temp file, and the
rename overwrites nothing. This is the safety half of CleanPutReplicates; that the
servers go on until nothing is under way is the other half, and needs fairness.
StoreStepsRunOut counts the steps: at most 2N + 1 for a get, 2N transfers for a put, two
of a server for each chunk it was sent; no failure, crash or other command adds to them.

**ChunkStoreRefinement**: StoreImplementsFileStore, assuming the stamps are in the
order of the puts and `NothingCut`, with crashes, killed puts, refused saves and cut or
late chunk lists. By GetWhole a success is one put's whole file, so Answer has its put.
Begin is StartPut; Keep is the rename that completes a put's last copy, which may
come long after put has ended; Ask is StartGet; Answer is the last Fetch; GiveUp
is a Choose that finds no complete set, or FetchFails; every other step stutters. A put
of a short file begins and is never kept.
On top of the layers above it needs `BegunInv` (whatever is stored, on its way or
fetched belongs to a put that has begun) and the fact that a rename completes at
most one put and undoes none.

**Partition_proofs**: PartitionTypeOK, PartitionFileCovered and
PartitionEmptyChunksLast, from a loop invariant that gives each finished chunk's
length in closed form. The last one justifies `Filled` of ChunkStore, and says which
lengths store_small_file is about: with four servers 4, 5, 6, 8, 9 and 12. PartitionStepsRunOut: the loop takes at most N + length + 1 steps,
since a turn reads at least one byte (ToRead > 0 and something to read) or ends a chunk.

**Session_proofs**: SessionTypeOK, SessionInStep, SessionTableTrue and
SessionGetsOwnFile, for any number of servers and names, any chunks of each name on
any server, buffers of any size, and both kinds of short reads. InStep is inductive given the types and `AnswersTrue`: every read off
the `late` connections meets the one answer to the one request, and every step that
breaks this puts the connection in `late`. The layers for the other two say what can
be in a connection that is out of step: `AnswersTrue` (an answer is true of its
server's disk, whatever request it was for); `AsksMet` (chunks have been asked for
only of names the loop has come to: TableTrue follows); `OrderInv` (no data, and no
request that brings any, comes behind a chunk list or a chunk query that is not
read, and a file's list is asked for once); `SourceInv` (at a server the table
names, the only data to come is the chunk asked for last, and where a list is still
unread the table's entries are not of the current file); `LocalInv` (the local file
has the first chunks of the choice, as many as the loop counter says). A server that
the table names by mistake, from a list of another file, then has no chunk of the
current name with that stamp (StampsAssumption) and answers with an error, so what
get writes is its own file's, though the table may not be.
SessionNamesListed (for the lists that fit the buffer: session_long_list shows that this
is needed) and SessionVerdictRight say what `list` prints, and need that nothing
is skipped without being marked `late`: `ErrorTrue` (where an error is the answer in step,
the server has nothing of what was asked: no directory, no record of the file, not that
chunk; so passing it by loses nothing); `NamesInv` and `ChunksInv` (every connection the
loop has passed, and that is not `late`, has told all its names, or all its chunks of
the current file); then `WholeInTable` (with no connection late the table's complete
sets are exactly those whole on the connected servers), so find_latest_valid_set
answers for the servers.
SessionStepsRunOut gives the order in which every step of the client comes nearer to the
end: first the part of the command it is in, then the names it has left, then the turns
left of the loops for one name, a question and the end of its wait being two. No step of
a server changes any of them, so late and cut answers cannot keep dfc busy.

**ChunkTransfer_proofs**: TransferTypeOK, TransferBufferFits, TransferFramed,
TransferStoredExact, and TransferGotExact (assuming that headers arrive whole:
transfer_split shows it is needed), for chunks, buffers and wires of any size. The
layers: `TypeInv` (types, and how the two buffers of send_file_data and what it has
sent divide the message it is at); `StreamInv` (a position on the stream is what is
still to come and how much of the first of that has gone by, so chunks without bytes
need no case of their own; the wire has the units in a row from the receiver's
position to the sender's; once a chunk is refused the server stands behind its
header, so it can take data for an invalid header but for no other one); `FilesInv`
(what is stored, or written, are the chunks gone by, and a broken one can only be the
last, when the sender is dead). That a read of a header gives a whole header of one
chunk, and a read of data only that chunk's, follows from the row on the wire:
Framed by itself says nothing of what lies behind the first unit.
TransferAllHandedOver, which needs the same assumption for a download, follows from
StreamInv: with the wire empty and the sender between chunks, both ends are at the
same place of the stream, so whatever was sent and not refused is read. It is the
safety half of OnlyEmptyLost: that the wire gets empty needs fairness.
TransferStepsRunOut, which needs TypeInv only, is the other part that can be proved: a
step of the sender begins a message, ends it, or sends or moves on what is left of it; a
step of the receiver leaves the sender alone and asks for a chunk, takes bytes off the
wire or ends a chunk. So a transfer ends, split headers, deaths, refusals and time-outs
included, unless both ends stop taking steps.

**Only model-checked**: every liveness property (the prover does not do liveness under
fairness). Of ShutdownCompletes, GetEnds, CleanPutReplicates, CommandEnds, OnlyEmptyLost and
GetReturns the theorems named ...RunOut prove the part that is not fairness:
a bound or a well-founded order that every step of those who must act goes down in. That
the steps are taken, because some action is enabled and scheduled until the goal is
reached, is left to TLC. NoStall has no such theorem: clients keep sending, so the pool
has no end to come nearer to.

## 6. What is not modelled, and what is assumed

* The composition of the worker pool with what clients send (`Server`, section 2).
* The thread-safe log file, printing, exit statuses, uthash, experiments, and a
  missing `dfc.conf`, with which dfc ends at once.
* readdir and rename do not fail (the code ignores it when they do). A chunk list is
  one atomic look at the directory (files are only ever added to it, by rename).
* Puts have distinct timestamps, also puts of different files (StampsAssumption). Two
  puts in the same 100 microseconds would share temp file names; this is in the hazards.
* ChunkStore and Placement have one file name, hence one `Offset`; Session does not use
  Offset, and lets each name's chunks be on any servers.
* Bytes that are no header are not taken for one: chunk records or names left in a
  socket after a cut list, or a chunk's data after a refusal, make the next header
  check fail. How much of them a read then takes is left open.
* A recv of -1 is used as a length (utils.c:101): fwrite then gets SIZE_MAX. What that
  does is undefined, so ChunkTransfer stops in the state "undefined", and in ChunkStore
  get goes on with a cut chunk or fails. These are the faults "late_data"; the
  theorems allow them, no passing run has them, and GetReturns, which counts only a
  result as an end, is claimed without them.
* In the passing `transfer` run a download's header arrives whole, as it does when
  one send carries it; transfer_split lifts that.
* The recv of a server's receive_file_data is not interrupted by a signal.
* In Session servers do not go down and their disks do not change, a chunk's data
  arrives whole, and the file is written without failure once get has opened it. What
  query_file_names reads behind its buffer, when a list is longer, is one name `Garbled`
  or none; that it may also end the process is left out.
* A client that neither sends nor closes keeps a worker in its peek and the server from
  ending: NoStall and ShutdownCompletes assume that clients go on (hazard at server.c:111).
* That get asks only one of a chunk's two servers, and fails when that connection has
  broken, is how the code is: GetSurvivesFailures excuses it (hazard at client.c:229).
  A wrong "complete" that `list` prints after a late answer is excused by VerdictRight
  (hazard at client.c:476). No comment of the repository promises otherwise.
