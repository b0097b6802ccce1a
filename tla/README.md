# A TLA+ verification project for mini-llmcache

mini-llmcache keeps the KV cache of vLLM engines in a server process: finished
chunks of a prompt are stored there and read back when another request has the
same prefix.  This directory models the server with its storage threads and
files, the message queue, the vLLM connector and the device transfers, checks
the models with TLC on small instances, and proves with TLAPS, for every
instance, every invariant the runs check: of the pool and the lock protocol of
L1, the server and its sessions, the message queue, the connector, the transfer
pipeline, the KV layouts, the file store and the hash chain.

## 1. The system

| Part (`mini_llmcache/`) | State | Operations | What makes it correct |
|---|---|---|---|
| `l1/memory.py` pool | `brk`, free lists per size, `used_bytes` | `allocate`, `free` | slices never overlap, no byte is lost |
| `l1/manager.py` L1 | `entries`: slice, write lock, read count, temporary flag | `reserve_write`, `finish_write`, `finish_write_and_reserve_read`, `reserve_read`, `reserve_read_prefix`, `finish_read`, `promote`, `delete` | a writer is alone, a held chunk stays, a readable chunk is complete, a temporary chunk goes with its last hold |
| `l1/eviction.py` | recency list, thread | listener callbacks, `get_victims`, `run` | evicts only what nobody uses; makes room while it can |
| `l1/prefetch_controller.py` | `jobs`, `hits`, `held`, thread | `prefetch`, `resolve`, `start_session`, `release`, `release_first`, `end_session` | every lookup resolves; every hold is given back once |
| `l1/store_controller.py` | `pending`, thread | `on_write_finished`, `run` | every write reaches all adapters, with its own bytes |
| `l2/` adapters | files or a dict, task queue, futures, worker | `store`, `lookup`, `load` | what is kept under a key is that chunk |
| `server.py` | `deployments`, `instances` | one handler per message | a RETRIEVE returns the chunks the lookup promised |
| `mq.py` | sockets, send queue, pending replies | a thread per request, replies | replies are neither lost nor mixed up |
| `integration/vllm_connector.py` | one tracker per request, futures | vLLM's hooks | holds are freed, loads finish, waterlines only rise |
| `l0/transfer.py` | three staging buffers, two streams | `to_host`, `from_host` | a buffer is reused only when its copy is done |
| `utils/hasher.py`, `protocol.py` | none | `chunk_hashes`, `ChunkKey` | a key stands for one chunk of one model, split and sized as its reader expects |
| `l0/kv_format.py` | none | `detect`, `normalize` | the first axis of every view is the block axis |
| `utils/device.py` | none | picks the accelerator namespace | |

How they interact.  The connector sends messages; `MQServer.on_recv` starts a
thread for each, so messages of one client are handled in any order.  LOOKUP
queues a job; the prefetch thread takes read holds on the L1 prefix, asks the
adapters for the rest, loads it into temporary entries and *resolves*: the
holds move into `held[request]`.  FREE_LOOKUP_LOCKS, RETRIEVE and END_SESSION
drop them.  STORE reserves, copies and finishes; `finish_write` notifies the
recency list and the store thread, which holds the chunks, queues them at every
adapter and waits.  The evictor wakes up every second.  `L1Manager.lock`
serialises the L1 methods and `PrefetchController.lock` the session tables; all
that happens between two locked sections may interleave.

On the engine's side vLLM calls the connector's hooks in steps: the scheduler
matches and allocates, `build_connector_meta` turns trackers into operations,
and the worker starts the loads, runs the forward pass, copies out what is to be
stored and reports what has finished.  Loads land in threads of their own.
Every copy between device and host goes through a pipeline of two streams and
three slots.  All messages pass through one I/O thread per process, which other
threads wake through a pipe, except for the chunks of a RETRIEVE.

What is hard here: the windows between locked sections (`end_session`,
`release_first`, `retrieve` until its send, the evictor's stale victims), slices
that adapters and sockets read long after they were handed out, messages that
overtake each other, aborts and timeouts that end a session while it is being
resolved, adapters that fail or answer less than they promised, a pool that
runs out in the middle of a list, blocks that change owners while transfers are
under way, streams that run behind the host, wakeups that race the queue they
announce, and crashes between the steps of a file's creation.  `PROJECT.json` lists each at its line.

## 2. The modules

```
PoolAllocator <- L1Manager <- LRUPolicy <- L2Adapter <- StorageManager <- CacheServer <- MCCacheServer
                     ^
                 L1Contract <- MCL1Contract                            (TLC)
                     ^------ L1ContractProofs                          (proofs)
                     ^------ INSTANCE in CacheServer                   (refinement)
CacheServer <- CacheServerHandlerProofs <- CacheServerProofs <- CacheServerSessionProofs
                     ^------ INSTANCE of L1ContractProofs

SocketLoop <- MessageQueue <- MCMessageQueue, MessageQueueProofs
RPC <-------- INSTANCE in MessageQueue                                 (refinement)
Connector <- MCConnector, ConnectorProofs
KVLayout <- Transfer <- MCTransfer, TransferProofs
ChunkKeys <- FileStore <- MCFileStore, FileStoreProofs
```

* **PoolAllocator**: the bump pointer and the free lists.  A byte carries the
  chunk it belongs to, which is all the properties distinguish.  A free list is
  a set, `allocate` takes any of its offsets.  `allocate_none` is the refused
  call: what the bump pointer still yielded goes to the free list.
* **L1Manager**: one operator per method, one locked section each.
* **L1Contract**: the abstract specification of L1.  Clients reserve, fill,
  publish, hold, drop and discard; an evictor deletes; `writing` and `holds`
  record what each client owns.  The guards are the lock protocol of the
  docstring of `manager.py`: publish what you filled, drop what you hold.
* **LRUPolicy**: the recency list.  `on_finish_read` is the pair of
  notifications of `finish_read`; the notifications run inside the locked
  section that sends them, so they are conjuncts of the same step.
* **L2Adapter**: queue, worker and futures.  The worker handles one key per
  step; `Lose` removes a file from outside; `TaskFails` is any exception.
* **StorageManager**: the prefetch, store and eviction threads as records with
  a program counter.  A step is a locked section, a queue operation or a wait.
* **CacheServer**: handlers as a set of records, and the connector's view of a
  request (`cl`): looking, resolved, load, loading, running, finished.  `lost`
  is a history variable: the holds `end_session` popped without releasing them.
  Chunk counts stand for token counts: all ranges the server sees are cut at
  chunk boundaries.  `UpdateStateAfterAlloc` has vLLM's choice to load or, when
  blocks could not be allocated at once, not to.
* **SocketLoop**: one endpoint's socket, queue, pipe and I/O thread.  A thread
  in `send` has queued and not yet written its byte: `waking` counts those.
* **MessageQueue**: clients with uids and futures, a server with a thread per
  request.  `submit` is three steps, `submit`, `File` and `Put`, between which other
  threads of the client run: the one with the hooks (`HookIsFree`: it is in one
  `submit` at a time) and the load threads with their acks (`LoadAck`).  A reply carries the request it answers (`of`), which is what the
  properties compare.  `PostSend` may raise after the reply has left, which
  sends a second one.  `Crash` empties all that lives in the server's process.
* **RPC**: what the layer promises: a call is settled at most once, and the way
  its own handler ended.
* **Connector**: the trackers and block tables, as vLLM's hooks see them.  The
  scheduler, the block pool and the forward pass are external and as free as
  vLLM is: any number of local hits, any number of tokens per step, preemption
  and aborts at any step.  A slot of the KV cache holds `<<request, token>>` when
  it was filled correctly.  The cache server answers a lookup with any number of
  chunks; a RETRIEVE fails or brings the right bytes, which is what CacheServer
  and Transfer show.  `failed` and `stray` are history: the requests with a failed
  RETRIEVE, and those aborted while a load was in flight.
* **KVLayout**: shapes and the geometry a transfer is built on, as operators; the
  block axis is a mark the code does not see.  Every layer has tensors of its own
  layout and sizes.
* **Transfer**: the host thread of one pipeline and the two streams it fills.
  An event counts its records, so a wait refers to the record that was the last
  one when it was enqueued.  A call may end with an exception: for a blob of the
  wrong size, or because the time of an event is read too early.
* **ChunkKeys**: hash chain, keys and file names, as operators.
* **FileStore**: the files of FSAdapter, page by page, under a server that
  registers engines, stores, mirrors, evicts and prefetches, and is killed or
  loses power.  L2Adapter treats the store of a chunk as one step; FileStore shows
  what is behind that step.  It carries the identity of a chunk (tokens, model,
  rank, size), where CacheServer carries the locks.  `seen` is history: the engines
  that ever registered over the files.

The modules are composed where components share state.  Elsewhere one module's
property is another's assumption: `ImplementsRPC` justifies that
CacheServer and Connector treat a call as a request and its answer; `LandsOwnBytes`
and `ExtractsOwnBytes` justify that Connector copies a chunk in one step.

Operators marked `Mutant` are defects the properties must notice; no
specification uses them.

## 3. What TLC checks

Every instance has chunks of one byte unless stated otherwise.

| Run | Instance | Shows |
|---|---|---|
| `l1_contract` | 2 clients, 2 chunks, sizes 1 and 2, 4 bytes; clients are symmetric | the contract's invariants, conservation of bytes, stability of held slices |
| `shared` | 2 requests, prompts `h1 h2` and `h1`, pool of 1 chunk, mock L2 | retrieves find and send their own chunks; the recency list matches the table; nothing is left at rest |
| `aborts` | 2 requests of one prompt, aborts at any moment, one with query timeouts | every step of the server is a step of L1Contract |
| `faults` | 1 request, 2 file adapters in any initial state, failing tasks, lost files | the same, when threads die, and when one adapter starts a load and another finishes it |
| `liveness` | 1 request, 2 ranks, a file adapter in any initial state, pool of 2 chunks, fair threads | a chunk is a hit only if all ranks have it; lookups resolve, writes are mirrored, room is made, all holds return |
| `queue` | 1 client, 2 requests of any kind, a load thread at work, a pipe of 3 bytes read one by one, shutdown, a crash, fair threads | the client sees RPC; sends exclude each other; no wakeup is lost; replies find their own future once; shutdown leaves at most acks behind; requests are answered and close returns |
| `transfer` | 2 calls of 1, 4 or 7 chunks of 2 blocks, each direction, exceptions; 2 layers of any of 4 layouts each, 3 or 4 blocks, padding 0 or 1, other sizes 2 or 3 | chunks leave and land with their own bytes; the block axis of every layer is found |
| `connector` | a request with a prompt of 2 to 4 tokens, up to 4 tokens, and one of 1 token, over 4 blocks of 1 token, chunks of 2; fair vLLM and server | what counts as computed is there; STOREs send whole chunks of the right tokens, one after the other; loads stay in their own blocks; finished requests are freed, loads are reported |
| `files` | 2 deployments of one model, with world sizes 2 and 1 and chunks of 1 and 2 bytes; a prompt of 2 equal chunks and a rest, one that branches off after the first; 2 pages a chunk, L1 of 2 chunks, a kill or a power failure | a final file is whole, a loaded chunk is whole, an engine finds chunks of its tokens and rank under its keys, its own ones while no other deployment of its model registers |
| `hold_leak`, `send_after_free`, `l2_failure` | violations | see findings |

Why the bounds are enough to meet the interesting cases: a pool of one chunk
evicts and reuses a slice at every store, so a stale slice is soon another
chunk's; two requests with a common prefix share temporary chunks, promote them
and drop them in all orders; two chunk sizes in four bytes fragment and exhaust
the pool; two ranks and two chunks distinguish keys from chunks; two adapters
give every split of a load.  `Aborts`, `L2MayFail` and `MayLose` are constants
that switch the environment's faults on, `Timeouts` is the set of requests whose
queries may time out.  Nothing else is bounded there: the queues are bounded by
the number of requests and chunks.

In the other modules: two requests let a reply overtake another one, and one of
them may be the UNREGISTER of a shutdown (`MaxUid`) and the other the ack of a load
thread whose RETRIEVE came before (`Loading`), numbered before it and queued behind it
or after `close`; a pipe of three bytes read
one at a time reaches the half-read pipe.  `PipeSize` exceeds what can be unread
when a client closes, as 64 KiB does in practice; otherwise `close` itself would
block.  Seven chunks use every slot twice and one three times, and four are the
first to use one twice; a second call meets the events of the first, and what an
exception left on the streams (`MaxCalls`).  Prompts of two to four tokens have
local hits before, inside and behind a chunk, and cached prefixes that end with
and before the prompt (`PromptLens`, `MaxTokens`); the second request is there to
take blocks the first one gave back.  Two pages tell an empty, a partial and a
whole file apart, and equal chunks at different places tell a chained hash from
a plain one; the two deployments share the keys of rank 0, so that each finds chunks
the other stored, in L1 and, over a restart, in files; one restart (`MaxRestarts`) meets every state of the files.  Among
the layouts every other size may be the 2 of K and V or the number of blocks; caches
of two blocks or fewer are excluded (`LayoutAssumption`): they cannot be told
from the K and V axis.

`connector` and `transfer` do not check deadlock: requests finish and calls end.
`faults` and `l2_failure` do not: a dead prefetch thread leaves the connector
polling for ever, which is what `l2_failure` is about.  In the other runs the
only state without further work is `Waiting`, an idle server.

**Fairness.**  Each background thread, each adapter's worker and the handlers of
each request are weakly fair: they are operating system threads that wait only
for what their guards say.  Clients owe nothing, except where a property starts
from what they did; files need not disappear and tasks need not fail.
`queue`: the I/O threads, the threads in `submit`, `send` and `close` and each handler
are weakly fair; clients need not call or shut down, the server need not crash.
`transfer` and `files` check safety only.  `connector`:
vLLM keeps stepping, replies come and load threads run; scheduling, preempting
and aborting are vLLM's choice.

**Findings.**

1. `hold_leak`: `end_session` releases, unlocks, then pops.  A `resolve` in
   between puts its holds into `held`, and the pop forgets them.  The chunks are
   never evicted again.
2. `send_after_free`: the END_SESSION of an aborted request releases the holds a
   RETRIEVE of that request relies on; the reply then carries whatever the slice
   was reused for.
3. `l2_failure`: the first exception of an adapter ends the prefetch thread;
   every lookup stays pending, although the guide promises fail-open.
`aborts` and `faults` show how far these reach: even then no L1 invariant breaks,
because the contract counts forgotten holds as held.

**Where the properties stop.**  Some properties hold only with an exception or
for some environments, because the code does not keep what its comments suggest:

* `ComputedIsFilled` and `StoresOwnBytes` except a request whose RETRIEVE failed:
  `_finish_load` sets `done` all the same, so vLLM computes on blocks that were
  never filled, and the connector stores the result (`vllm_connector.py:351`).
* The same two, and `LoadsOwnBlocks`, except requests aborted during a load:
  `get_finished` looks at `store_futures` only, so the blocks are freed while the
  load thread may still write to them (`vllm_connector.py:371`).
* `FinalIsWhole` except after a power failure, since nothing is synced
  (`fs.py:34`).  `LoadedIsWhole` shows that the consequence is a shorter load,
  though one that repeats, as `store` never replaces the file.
* `RetrievesOwnChunks` says of every chunk that its tokens, its rank and its file name
  are right, and that it is the engine's own only under `OneDeployment`: keys do not
  contain the world size (`protocol.py:26`), and file names map `/` and `-` to
  the same character (`fs.py:18`).  When another deployment of the model registers, the
  server hands its chunks to both: without the condition TLC finds it after two
  registrations and a store.
* `BlocksAreFound` except layers whose blocks are along another axis than those of the
  first (`SameAxis`): `register_kv_caches` passes `detect` the first tensor and
  `normalize` applies its answer to all (`kv_format.py:53`).
* `ShutdownFlushes` except acks: a load thread may submit its TRANSFER_ACK behind the
  UNREGISTER, or after `close`, and the I/O thread then leaves it in the queue.  The
  server only logs it.
* `L2Integrity` is checked where tasks do not fail (`shared`).  With failing ones it is
  not checked but proved (`AdaptersKeepOwnChunks`).
* `LandsOwnBytes` speaks of calls that return: one that raises leaves without
  `kernel_stream.synchronize()` (`transfer.py:172`).  `to_host` raises when the
  time of its end event is read before the event has happened (`transfer.py:146`).
* `SendsAreExclusive` is about sends: `recv_multipart` in the I/O thread does not
  take `send_lock` (`mq.py:89`).
* `RequestsAreAnswered` except after a crash: a reply that dies with the server is
  awaited for ever, by `shutdown` too (`vllm_connector.py:394`).

## 4. What is proved

`L1ContractProofs` proves, for every pool size, every set of chunk sizes, every
finite key set and every finite set of clients (`PoolAssumption`,
`ClientAssumption`), that L1Contract satisfies

* `TypeCorrect`, `MemoryIsDisjoint`, `CountsAreExact`, `WritersAreExclusive`,
  `ReadersSeeWholeChunks`, `TemporariesAreReferenced`, `NoByteIsLost`
  (`BytesConserved`): each an invariant;
* `HeldSlicesAreStable`: the action property `StableWhileHeld`.

The argument.  The inductive invariant `IInv` is the conjunction of the first six
invariants; none is inductive alone.  A chunk stays complete because a writer
only writes to its own slice and slices are disjoint; its slice is not freed
because the read count is exactly the number of holders, so the evictor sees a
zero only when nobody holds it; a discarded chunk has no reader because nobody
can hold what is write-locked.  There is one lemma per action.  Those of the
two reads share `HoldStep`, those of `Evict` and `Discard` share `RemoveStep`.

Its first part has the arithmetic: the slices a bump yields lie between the old
and the new pointer and do not overlap (`BumpedSlices`), what an allocation
hands out is apart from all that is live or stays free (`TakenSlices`), a
refused allocation keeps disjointness although it moves the pointer
(`SlicesRefused`), a free does too (`SlicesFreed`); and a hold taken or dropped
changes the number of holders by one (`HoldsAdded`, `HoldsDropped`).

`HeldSlicesAreStable` follows from `IInv` before and after the step: an entry
that survives keeps its slice, and only `Fill` writes, into a locked slice.

`NoByteIsLost` rests on one more invariant, `Accounted`: `used_bytes` is the sum of
the live slices, and every byte below `brk` is in a live or a free slice (`Tiled`).
With disjoint slices the second gives `brk` as a sum, because a set of disjoint
slices has as many bytes as their sizes add up to.  The sum itself is a fold over a
set; its laws (one slice more, one less, two sets apart) are stated as lemmas.  They
come from cardinalities: a slice stands for the pairs `<<slice, n>>` with `n` up to
its size, and the fold counts them (`SizeIsUnits`), or there would be a least set of
slices for which it did not.

`CacheServerHandlerProofs` and `CacheServerProofs`, for any requests, prompts,
ranks, chunks, adapters and pool, with aborts, timeouts, failing adapters and lost
files: `ServerImplementsContract` (the refinement `ImplementsContract`),
`AdaptersKeepOwnChunks` (`L2Integrity`) and `EvictorSeesReadable`
(`LRUMatchesEntries`).  They rest on `ServerInvariance`, which has three parts.

* `ProtoInv` is about who owns what.  `OnceInv`: a request is looked up once, by a
  message, a job or the prefetch thread.  `AheadInv`: until then it holds nothing and
  its handlers find nothing to release.  `HoldInv`: a hold is in one place, in `held`,
  at the prefetch thread, in one handler that is about to drop it, or in `lost`.
  `WriteInv`: a chunk is written by one handler or by the prefetch thread.  `PfInv`
  and `PrefixInv`: the lists of the prefetch thread are parts of the request's keys,
  distinct and apart.  `StInv`: so are those of the store thread.  `TaskInv` and
  `FutureInv`: a submitter has one task at an adapter, about what it waits for, so an
  adapter never fills a slice that its submitter has given back.
* `L1!IInv` is the invariant of the contract, with `Writing` and `Holds` read off the
  threads.  It is what makes the rest inductive: a held chunk is there when it is
  dropped, a reserved one is nobody else's.
* `DataInv` is about bytes: the slices a thread carries are those of its chunks, what
  a STORE has copied and a load has filled is there, and what an adapter has read or
  stored is the chunk of its key.

Each action of `Next` is shown to be a step of `L1!Next` by a lawful client or to
leave L1 alone, and to keep `ProtoInv` and `DataInv`; `L1!IInv` then follows from the
proofs about the contract, which are instantiated and not repeated.
`EvictorSeesReadable` adds one invariant, `LRUInv`.  The two instances of the contract,
of the module the refinement names and of the one with its proofs, are shown equal.

`CacheServerSessionProofs`: what a request can rely on when it runs to its end,
`Patient`: `~Aborts` and `Timeouts = {}`, the instance of `shared`.  It is an assumption
because the code does not give it otherwise: with aborts `hold_leak` and
`send_after_free` show `NoHoldForgotten` and `RetrieveSendsOwnBytes` violated.  Proved are
`RetrievesFindChunks` (`RetrieveNeverMisses`), `RetrievesSendOwnBytes` and
`QuietIsClean` (`QuiescentClean`).  Nothing is claimed about `NoHoldForgotten`: without
aborts END_SESSION comes after `resolve`, and the race of its release and its pop does
not arise.  `Inv` says where a hold may
be, but not that it is still there when a handler comes for it.  `SessionInv` adds what
a request has in `held` at each point of its tracker.  The messages of a request are
handled in any order, so FREE_LOOKUP_LOCKS may run before, between or after the steps
of the RETRIEVE; it does no harm because it drops the first keys of the lookup, those
vLLM had itself, and the RETRIEVE the rest.  So as long as a FREE is due, `held` begins
with its keys (`LocalsHeld`), and as long as a RETRIEVE is, it contains the others.
END_SESSION is sent after the answer to the RETRIEVE, but may still overtake the FREE,
which then finds nothing to drop.  With this a chunk that is retrieved is
held from the lookup until it is sent, so the contract keeps it in its slice
(`SendInv`); and when all is quiet nobody is left to be counted as a holder.

`MessageQueueProofs`, for any clients, number of requests and pipe size, with any
number of crashes: `WakeupsAreKept` (`NoLostWakeup`), `SendsExclude`
(`SendsAreExclusive`), `ShutdownIsClean` (`ShutdownFlushes`) and
`QueueImplementsRPC` (the refinement `ImplementsRPC`).  The invariants build on
each other.  `WakeInv`: wherever the I/O thread has not yet begun to empty a
filled queue, a byte is in the pipe or a thread is about to write one.
`OrderInv`: a uid occurs only behind the counter that issues it, in one place of
its way, from the thread that submits it on; uids need not be in order in the queue.
`LockInv`: who sends holds the lock.  `CloseInv`: a client closes after its UNREGISTER
was answered.  `ByeInv`: once the UNREGISTER is numbered only acks are submitted beside
it, and once it is queued only acks are behind it; so when it was answered everything
else had left the queue before it.  `ReplyInv`: what is queued, in an inbox or in a
handler answers the request it names, and a second reply to a request comes
behind the first, which takes the future out of `pending`; so a future is
settled once, and as its own handler ended.

`ConnectorProofs`, for any block and chunk size (the second a multiple of the
first), any number of blocks, any requests, prompts and generated lengths:
`StoresFollow` (`StoresAreConsecutive`), `LoadsStayHome` (`LoadsOwnBlocks`),
`ComputedStaysFilled` (`ComputedIsFilled`) and `StoresSendOwnBytes`
(`StoresOwnBytes`).  `StatusInv` says which hooks may still come for a request;
`StoreInv` that `num_stored_tokens` is the end of the last STORE or of the one
that is due; `TableInv` that no block is in two tables, that a tracker's
`block_ids` is the table as of the last hook, and that a load in flight is the
one its tracker describes; `ProgressInv` that the counters are ordered as the
hooks advance them and cut at chunks; `FillInv` that the slots below the computed
tokens, or below the local hits while a load is under way, hold their own tokens.

`TransferProofs`, for any number and size of calls, blocks per chunk and both
directions: `ChunksLeaveWhole` (`ExtractsOwnBytes`) and `ChunksLandWhole`
(`LandsOwnBytes`).  A direction is one pipeline: a stream that fills slots and
one that drains them.  `StreamInv`: a queue is a sequence of triples, wait, move,
record, and the records of an event have rising numbers beyond the last one that
has happened.  `PairInv`: every drain waits for the record of the fill of the
same chunk, and the fill of the next chunk of a slot for the record of that
drain.  Hence a slot is never overwritten early: a fill at the head whose slot
has yet to be drained would wait for a record that is still to happen.
`ToHostInv` and `FromHostInv` follow a chunk's bytes through queue, slot and host
buffer.

The geometry of a worker does not change, so `AxesAreBlocks` (`BlocksAreFound`) is about
all registrations: any number of layers, any block counts, paddings and sizes of the
other axes that `LayoutAssumption` allows.  The code flattens tuples of tensors: a
flattened list is characterised by the places where its parts begin (`FlatExists`), by
looking at the least or greatest place where they would go wrong.  Then `LayerCases` goes through the
four backends: in each, `detect` answers `FA_KV_FIRST` exactly when the blocks are the
second axis, or refuses the layout (`DetectsAxis`).

`FileStoreProofs`, for any engines, prompts, chunk and page sizes and number of
restarts: `FilesAreWhole` (`FinalIsWhole`), `EntriesAreWhole` (`LoadedIsWhole`)
and `ChunksAreOwn` (`RetrievesOwnChunks`).  `FileInv` ties the worker's progress
to the page it writes or reads, and what the server knows to engines that registered
(`Known`).  `OwnInv` says that all that is kept, in L1, under `tmp` and in the final
directory, is the chunk one of these engines stores under that name, in a slice of an
engine whose files have the same names.  No assumption keeps deployments apart: with
`OneDeployment` both engines are of the reader's deployment, and without it the tokens,
the rank and the file name are still those of the key.

There too: `HashesIdentifyPrefixes`, for any chunk size and token
sequences: equal hashes at any places mean equal prefixes, so a key found in the
cache stands for the tokens asked for.  BLAKE3 is taken to be injective.  The
proof looks at the least place where two chains differ (`LeastNat`, from the
well-foundedness of the naturals), which replaces induction.

Only model-checked are the liveness properties, which need fairness and `ENABLED`:
`LookupResolves`, `WritesAreMirrored`, `EvictionMakesRoom`, `HoldsAreReturned`,
`RequestsAreAnswered`, `CloseReturns`, `FinishedIsFreed` and `LoadsAreReported`.  Deadlock freedom, where a run checks it, is model-checked too.

## 5. Plan

Every component that has state is modelled, and every invariant, action property
and refinement of the passing runs is proved.  What the model should follow when the
code changes: `PfResolve` and the steps of END_SESSION, if sessions get a lock that
covers release and pop (then `NoHoldForgotten` should hold with aborts, too, and be worth
a theorem); RETRIEVE, if its send holds what it sends; `OneDeployment`, if keys get the
world size; and `RequestsAreAnswered`, if `shutdown` gets a timeout.

## 6. Not modelled

`utils/device.py` (chooses a namespace at import), the benchmarks, log lines and
bandwidth figures, the command line, `GET_CHUNK_SIZE` and `TRANSFER_ACK` on the
server's side (they change no state), pickling and frame layout, socket options.
External, and modelled only as far as the code uses them: ZMQ, the operating
system and its files, the accelerator's streams and events, vLLM's scheduler,
block pool and forward pass.  BLAKE3 is taken to be injective.  The layers of a
chunk travel in one operation of a stream.  Connector leaves the lookup locks to
CacheServer (`FREE_LOOKUP_LOCKS`, `alloc_seen`); CacheServer in turn takes the
chunk hashes of a request from `Prompt`.
The evictor's walk over the recency list is one step; in the code a chunk may be
held or dropped during the walk, which changes which victims are proposed and
not which are deleted, since `delete` checks each again.
