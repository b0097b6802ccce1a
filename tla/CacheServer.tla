----------------------------- MODULE CacheServer -----------------------------
(***************************************************************************)
(* The cache server (mini_llmcache/server.py) over its storage stack, with *)
(* the connectors (integration/vllm_connector.py) as its clients.          *)
(*                                                                         *)
(* MQServer runs every request in a thread of its own, so handlers is a    *)
(* set: messages of one client may be handled in any order.  A handler is  *)
(* a record with a program counter; a step is one locked section, one copy *)
(* or one send.  A request id is looked up once, by the scheduler's        *)
(* connector; its worker ranks then RETRIEVE and STORE their own chunks.   *)
(*                                                                         *)
(* Token ranges are counted in chunks: every range the server sees is cut  *)
(* at chunk boundaries by the connector and by chunk_hashes.               *)
(***************************************************************************)
EXTENDS StorageManager

CONSTANTS
  WorldSize,    \* tensor-parallel ranks of the deployment
  Prompt,       \* Prompt[r]: the chunk hashes of request r's tokens
  StoreThread,  \* the store controller, as a client of L1
  Aborts,       \* requests may finish before they run
  Timeouts      \* the requests whose QUERY_PREFETCH_STATUS may time out

\* The hashes of a prompt are distinct: each is chained to the one before it.
ASSUME ServerAssumption ==
  /\ WorldSize \in Nat \ {0}
  /\ StoreThread \notin Requests \cup {NoRequest}
  /\ IsFiniteSet(Requests)
  /\ \A r \in Requests :
       /\ Prompt[r] \in Seq(Range(Prompt[r]))
       /\ IsInjective(Prompt[r])
       /\ Range(Prompt[r]) \X (0 .. (WorldSize - 1)) \subseteq Keys
  /\ Aborts \in BOOLEAN
  /\ Timeouts \subseteq Requests

VARIABLES
  deployed,   \* deployments has this model and world size
  instances,  \* the registered ranks
  handlers,   \* the running handler threads
  cl,         \* cl[r]: the connector's tracker of request r
  lost        \* history: holds that end_session dropped from held only

serverVars == <<deployed, instances, handlers>>
vars == <<smVars, serverVars, cl, lost>>

Ranks == 0 .. (WorldSize - 1)

\* keys_for: for each hash, one key per rank.
keys_for(hashes, ranks) ==
  [i \in 1 .. (Len(hashes) * Len(ranks)) |->
     <<hashes[((i - 1) \div Len(ranks)) + 1],
       ranks[((i - 1) % Len(ranks)) + 1]>>]

AllRanks == [i \in 1 .. WorldSize |-> i - 1]
LookupKeys(r) == keys_for(Prompt[r], AllRanks)

\* op_keys: the chunks [start, end) of one rank.
op_keys(r, rank, start, end) == keys_for(SubSeq(Prompt[r], start + 1, end), <<rank>>)

\* A handler thread.  A transfer is one op of one rank: its chunks start at
\* index start.  keys are the keys the next step is about, objs the slices
\* it got for them, n a count of chunks.
Handler(kind, r, n) ==
  [kind |-> kind, rid |-> r, pc |-> "start", rank |-> 0, start |-> 0,
   keys |-> <<>>, objs |-> <<>>, n |-> n]

Transfers(kind, r, start, end) ==
  {[Handler(kind, r, 0) EXCEPT !.rank = rank, !.start = start,
                               !.keys = op_keys(r, rank, start, end)] :
     rank \in Ranks}

\* A tracker: lm and vllm are lmcache_hits and vllm_hits, stored is
\* num_stored_tokens.
NewTracker == [pc |-> "new", lm |-> 0, vllm |-> 0, stored |-> 0]

Init ==
  /\ SMInit
  /\ deployed = FALSE
  /\ instances = {}
  /\ handlers = {}
  /\ cl = [r \in Requests |-> NewTracker]
  /\ lost = [r \in Requests |-> {}]

-----------------------------------------------------------------------------

(***************************************************************************)
(* The connectors.  Messages are handed to the server by starting their    *)
(* handlers.                                                               *)
(***************************************************************************)
Spawn(new) == handlers' = handlers \cup new

\* register_kv_caches and shutdown, each a call that waits for its reply.
\* The ranks register when the engine starts, before it serves requests.
Register(rank) ==
  /\ rank \notin instances
  /\ \A r \in Requests : cl[r].pc = "new"
  /\ instances' = instances \cup {rank}
  /\ deployed' = TRUE
  /\ UNCHANGED <<smVars, handlers, cl, lost>>

Unregister(rank) ==
  /\ rank \in instances
  /\ \A r \in Requests : cl[r].pc = "finished"
  /\ instances' = instances \ {rank}
  /\ UNCHANGED <<smVars, deployed, handlers, cl, lost>>

\* get_num_new_matched_tokens: the first call submits the LOOKUP.  All
\* ranks have registered, or the server was restarted since and knows none.
SubmitLookup(r) ==
  /\ cl[r].pc = "new"
  /\ instances \in {{}, Ranks}
  /\ cl' = [cl EXCEPT ![r].pc = "looking"]
  /\ Spawn({Handler("LOOKUP", r, 0)})
  /\ UNCHANGED <<smVars, deployed, instances, lost>>

\* Mutant: the hits are rounded up to whole chunks.
QueryRoundedUp(r) ==
  /\ cl[r].pc = "looking"
  /\ hits[r].state = "resolved"
  /\ \E vllm \in 0 .. Len(Prompt[r]) :
       LET lm == (hits[r].l1 + hits[r].l2 + WorldSize - 1) \div WorldSize
       IN  cl' = [cl EXCEPT ![r] = [pc |-> "resolved", lm |-> lm,
                                    vllm |-> vllm, stored |-> lm]]
  /\ UNCHANGED <<smVars, serverVars, lost>>

\* Each call polls QUERY_PREFETCH_STATUS until it is resolved.
Query(r) ==
  /\ cl[r].pc = "looking"
  /\ hits[r].state = "resolved"
  /\ \E vllm \in 0 .. Len(Prompt[r]) :
       LET lm == (hits[r].l1 + hits[r].l2) \div WorldSize
       IN  cl' = [cl EXCEPT ![r] = [pc |-> "resolved", lm |-> lm,
                                    vllm |-> vllm, stored |-> lm]]
  /\ UNCHANGED <<smVars, serverVars, lost>>

QueryTimeout(r) ==
  /\ r \in Timeouts
  /\ cl[r].pc = "looking"
  /\ cl' = [cl EXCEPT ![r].pc = "resolved"]
  /\ UNCHANGED <<smVars, serverVars, lost>>

\* Mutant: the locks of the chunks to be loaded are freed as well.
UpdateStateFreesAll(r, load_pending) ==
  /\ cl[r].pc = "resolved"
  /\ load_pending => cl[r].lm > cl[r].vllm
  /\ cl' = [cl EXCEPT ![r].pc = IF load_pending THEN "load" ELSE "running"]
  /\ Spawn(IF cl[r].lm = 0 THEN {} ELSE {Handler("FREE", r, cl[r].lm)})
  /\ UNCHANGED <<smVars, deployed, instances, lost>>

\* update_state_after_alloc: free the lookup locks no RETRIEVE will use.
\* When vLLM could not allocate blocks at once it asks for the matched
\* tokens again, is told 0 and loads nothing.
UpdateStateAfterAlloc(r, load_pending) ==
  /\ cl[r].pc = "resolved"
  /\ load_pending => cl[r].lm > cl[r].vllm
  /\ LET free_until == IF load_pending THEN cl[r].vllm ELSE cl[r].lm
     IN  /\ cl' = [cl EXCEPT ![r].pc = IF load_pending THEN "load"
                                       ELSE "running"]
         /\ Spawn(IF free_until = 0 THEN {}
                  ELSE {Handler("FREE", r, free_until)})
  /\ UNCHANGED <<smVars, deployed, instances, lost>>

\* start_load_kv: every rank retrieves its chunks ...
SubmitRetrieve(r) ==
  /\ cl[r].pc = "load"
  /\ cl' = [cl EXCEPT ![r].pc = "loading"]
  /\ Spawn(Transfers("RETRIEVE", r, cl[r].vllm, cl[r].lm))
  /\ UNCHANGED <<smVars, deployed, instances, lost>>

\* ... and the request runs once every rank has its reply.
LoadsDone(r) ==
  /\ cl[r].pc = "loading"
  /\ \A h \in handlers :
       h.kind = "RETRIEVE" /\ h.rid = r => h.pc \notin {"start", "send"}
  /\ cl' = [cl EXCEPT ![r].pc = "running"]
  /\ UNCHANGED <<smVars, serverVars, lost>>

\* wait_for_save: every rank stores the whole chunks computed since.
SubmitStore(r, end) ==
  /\ cl[r].pc = "running"
  /\ end \in (cl[r].stored + 1) .. Len(Prompt[r])
  /\ cl' = [cl EXCEPT ![r].stored = end]
  /\ Spawn(Transfers("STORE", r, cl[r].stored, end))
  /\ UNCHANGED <<smVars, deployed, instances, lost>>

\* request_finished, for a request that ran or was aborted.
RequestFinished(r) ==
  /\ \/ cl[r].pc = "running"
     \/ Aborts /\ cl[r].pc \in {"looking", "resolved", "load", "loading"}
  /\ cl' = [cl EXCEPT ![r] = [NewTracker EXCEPT !.pc = "finished"]]
  /\ Spawn({Handler("END", r, 0)})
  /\ UNCHANGED <<smVars, deployed, instances, lost>>

Client(r) ==
  \/ SubmitLookup(r) \/ Query(r) \/ QueryTimeout(r)
  \/ \E load_pending \in BOOLEAN : UpdateStateAfterAlloc(r, load_pending)
  \/ SubmitRetrieve(r) \/ LoadsDone(r)
  \/ \E end \in 1 .. Len(Prompt[r]) : SubmitStore(r, end)
  \/ RequestFinished(r)

-----------------------------------------------------------------------------

(***************************************************************************)
(* The handlers.                                                           *)
(***************************************************************************)
At(h, kind, pc) == h.kind = kind /\ h.pc = pc
Becomes(h, next) == handlers' = (handlers \ {h}) \cup {next}
Ends(h) == handlers' = handlers \ {h}

\* lookup and start_session: the session becomes pending and its job is
\* queued.  Without a registered engine the job has no keys.
HandleLookup(h) ==
  /\ At(h, "LOOKUP", "start")
  /\ hits' = [hits EXCEPT ![h.rid] = Pending]
  /\ jobs' = Append(jobs, [rid |-> h.rid,
                           keys |-> IF deployed THEN LookupKeys(h.rid)
                                    ELSE <<>>])
  /\ Ends(h)
  /\ UNCHANGED <<l1Vars, order, l2Vars, held, pf, storeVars, ev, deployed,
                 instances, cl, lost>>

\* release, first half: the keys still in held leave it ...
Release(h, keys) ==
  /\ held' = [held EXCEPT ![h.rid] = Without(@, Range(keys))]
  /\ Becomes(h, [h EXCEPT !.pc = "finish",
                          !.keys = Selected(keys, Range(held[h.rid]))])
  /\ UNCHANGED <<l1Vars, order, l2Vars, jobs, hits, pf, storeVars, ev,
                 deployed, instances, cl, lost>>

\* Mutant: release never reaches L1.
FinishReleaseSkipped(h) ==
  UNCHANGED <<l1Vars, order, l2Vars, prefetchVars, storeVars, ev, deployed,
              instances, cl, lost>>

\* ... second half: their read counts drop.
FinishRelease(h) ==
  /\ finish_read(Range(h.keys))
  /\ on_finish_read(h.keys)
  /\ UNCHANGED <<l2Vars, prefetchVars, storeVars, ev, deployed, instances,
                 cl, lost>>

\* free_locks: release_first reads the first count keys, then releases them.
FreeFirst(h) ==
  /\ At(h, "FREE", "start")
  /\ LET n == Min({h.n * WorldSize, Len(held[h.rid])})
     IN  Becomes(h, [h EXCEPT !.pc = "release",
                              !.keys = First(n, held[h.rid])])
  /\ UNCHANGED <<smVars, deployed, instances, cl, lost>>

FreeRelease(h) == At(h, "FREE", "release") /\ Release(h, h.keys)
FreeFinish(h) == At(h, "FREE", "finish") /\ FinishRelease(h) /\ Ends(h)

\* Mutant: end_session pops the holds without releasing them.
EndReleaseNothing(h) == At(h, "END", "start") /\ Release(h, <<>>)

\* end_session: release everything, then forget the request.  What held
\* still has when it is popped is never released.
EndRelease(h) == At(h, "END", "start") /\ Release(h, held[h.rid])
EndFinish(h) ==
  /\ At(h, "END", "finish")
  /\ FinishRelease(h)
  /\ Becomes(h, [h EXCEPT !.pc = "pop", !.keys = <<>>])

EndPop(h) ==
  /\ At(h, "END", "pop")
  /\ hits' = [hits EXCEPT ![h.rid] = Absent]
  /\ held' = [held EXCEPT ![h.rid] = <<>>]
  /\ lost' = [lost EXCEPT ![h.rid] = @ \cup Range(held[h.rid])]
  /\ Ends(h)
  /\ UNCHANGED <<l1Vars, order, l2Vars, jobs, pf, storeVars, ev, deployed,
                 instances, cl>>

\* Mutant: the holds are released before the chunks are sent.
RetrieveReadAndRelease(h) ==
  /\ At(h, "RETRIEVE", "start")
  /\ IF h.rank \in instances /\ Range(h.keys) \subseteq DOMAIN entries
     THEN /\ finish_read(Range(h.keys) \cap Range(held[h.rid]))
          /\ on_finish_read(h.keys)
          /\ held' = [held EXCEPT ![h.rid] = Without(@, Range(h.keys))]
          /\ Becomes(h, [h EXCEPT !.pc = "send", !.objs = ObjsOf(h.keys)])
     ELSE Ends(h) /\ UNCHANGED <<l1Vars, order, held>>
  /\ UNCHANGED <<l2Vars, jobs, hits, pf, storeVars, ev, deployed, instances,
                 cl, lost>>

\* retrieve: collect the slices; a KeyError becomes an error reply.
RetrieveRead(h) ==
  /\ At(h, "RETRIEVE", "start")
  /\ IF h.rank \in instances /\ Range(h.keys) \subseteq DOMAIN entries
     THEN Becomes(h, [h EXCEPT !.pc = "send", !.objs = ObjsOf(h.keys)])
     ELSE Ends(h)
  /\ UNCHANGED <<smVars, deployed, instances, cl, lost>>

\* send_now copies the slices into the socket, then post_send runs.
RetrieveSend(h) ==
  /\ At(h, "RETRIEVE", "send")
  /\ Becomes(h, [h EXCEPT !.pc = "promote", !.objs = <<>>])
  /\ UNCHANGED <<smVars, deployed, instances, cl, lost>>

RetrievePromote(h) ==
  /\ At(h, "RETRIEVE", "promote")
  /\ promote(Range(h.keys))
  /\ Becomes(h, [h EXCEPT !.pc = "release"])
  /\ UNCHANGED <<order, l2Vars, prefetchVars, storeVars, ev, deployed,
                 instances, cl, lost>>

RetrieveRelease(h) == At(h, "RETRIEVE", "release") /\ Release(h, h.keys)
RetrieveFinish(h) ==
  At(h, "RETRIEVE", "finish") /\ FinishRelease(h) /\ Ends(h)

\* store: reserve the missing chunks; those present are skipped.
StoreReserve(h) ==
  /\ At(h, "STORE", "start")
  /\ h.rank \in instances
  /\ LET written == Selected(h.keys, Missing(Range(h.keys)))
     IN  /\ reserve_write(Range(h.keys), ChunkNBytes, FALSE)
         /\ Becomes(h, [h EXCEPT
                          !.pc = IF written = <<>> THEN "finish" ELSE "copy",
                          !.keys = written,
                          !.objs = [i \in 1 .. Len(written) |->
                                      entries'[written[i]].obj]])
  /\ UNCHANGED <<order, l2Vars, prefetchVars, storeVars, ev, deployed,
                 instances, cl, lost>>

\* The pool is full: nothing is written, and nothing is announced.
StoreReserveNone(h) ==
  /\ At(h, "STORE", "start")
  /\ h.rank \in instances
  /\ reserve_write_none(Range(h.keys), ChunkNBytes)
  /\ Becomes(h, [h EXCEPT !.pc = "finish", !.keys = <<>>])
  /\ UNCHANGED <<order, l2Vars, prefetchVars, storeVars, ev, deployed,
                 instances, cl, lost>>

\* instances[...] raises for a rank that has unregistered.
StoreUnknown(h) ==
  /\ At(h, "STORE", "start")
  /\ h.rank \notin instances
  /\ Ends(h)
  /\ UNCHANGED <<smVars, deployed, instances, cl, lost>>

StoreCopy(h) ==
  /\ At(h, "STORE", "copy")
  /\ write_bytes(h.objs[h.n + 1], h.keys[h.n + 1])
  /\ Becomes(h, [h EXCEPT !.n = @ + 1,
                          !.pc = IF h.n + 1 = Len(h.keys) THEN "finish"
                                 ELSE "copy"])
  /\ UNCHANGED <<allocVars, entries, order, l2Vars, prefetchVars, storeVars,
                 ev, deployed, instances, cl, lost>>

\* finish_write announces the list to the store controller even when it is
\* empty.
StoreFinish(h) ==
  /\ At(h, "STORE", "finish")
  /\ finish_write(Range(h.keys))
  /\ on_created(h.keys)
  /\ on_write_finished(h.keys)
  /\ Ends(h)
  /\ UNCHANGED <<l2Vars, prefetchVars, st, ev, deployed, instances, cl, lost>>

Handle(h) ==
  \/ HandleLookup(h)
  \/ FreeFirst(h) \/ FreeRelease(h) \/ FreeFinish(h)
  \/ EndRelease(h) \/ EndFinish(h) \/ EndPop(h)
  \/ RetrieveRead(h) \/ RetrieveSend(h) \/ RetrievePromote(h)
  \/ RetrieveRelease(h) \/ RetrieveFinish(h)
  \/ StoreReserve(h) \/ StoreReserveNone(h) \/ StoreUnknown(h)
  \/ StoreCopy(h) \/ StoreFinish(h)

-----------------------------------------------------------------------------

\* A step of the storage stack.
Background ==
  /\ \/ Prefetch \/ Store \/ Eviction
     \/ \E a \in Adapters : Worker(a) \/ Storage(a)
  /\ UNCHANGED <<serverVars, cl, lost>>

Quiet ==
  /\ \A r \in Requests : cl[r].pc = "finished"
  /\ handlers = {}
  /\ jobs = <<>> /\ pf = PfIdle
  /\ pending = <<>> /\ st = StIdle

\* Every request is served and the server waits for more.
Waiting == Quiet /\ UNCHANGED vars

Next ==
  \/ \E r \in Requests : Client(r)
  \/ \E rank \in Ranks : Register(rank) \/ Unregister(rank)
  \/ \E h \in handlers : Handle(h)
  \/ Background
  \/ Waiting

Spec == Init /\ [][Next]_vars

\* The operating system runs every thread that can run.  Clients are not
\* obliged to do anything, and the storage not to fail.
Fairness ==
  /\ WF_vars(Background /\ Prefetch)
  /\ WF_vars(Background /\ Store)
  /\ WF_vars(Background /\ Eviction)
  /\ \A a \in Adapters : WF_vars(Background /\ Worker(a))
  /\ \A r \in Requests :
       WF_vars(\E h \in handlers : h.rid = r /\ Handle(h))

FairSpec == Spec /\ Fairness

-----------------------------------------------------------------------------

(***************************************************************************)
(* The threads and handlers as clients of L1.                              *)
(***************************************************************************)
L1Clients == Requests \cup {StoreThread}

\* The keys some handlers are about.
KeysOf(some) == UNION {Range(h.keys) : h \in some}

\* The chunks being written for request r: by its STORE handlers, and by
\* the prefetch thread when it works for r.
WritingFor(r) ==
  KeysOf({h \in handlers : h.rid = r /\ h.kind = "STORE" /\ h.pc \in {"copy", "finish"}})
    \cup (IF pf.rid = r THEN Range(pf.load) ELSE {})

\* The chunks held for request r: by its session, by the prefetch thread,
\* by handlers between the two halves of release, and by nobody any more.
HeldFor(r) ==
  Range(held[r])
    \cup (IF pf.rid = r THEN Range(pf.hit) ELSE {})
    \cup KeysOf({h \in handlers : h.rid = r /\ h.kind # "STORE" /\ h.pc = "finish"})
    \cup lost[r]

Writing == [c \in L1Clients |-> IF c = StoreThread THEN {} ELSE WritingFor(c)]
Holds == [c \in L1Clients |-> IF c = StoreThread THEN Range(st.keys)
                              ELSE HeldFor(c)]

Contract == INSTANCE L1Contract WITH
  Clients <- L1Clients,
  KeyLists <- {LookupKeys(r) : r \in Requests} \cup {<<>>},
  writing <- Writing,
  holds <- Holds

(***************************************************************************)
(* Properties.                                                             *)
(***************************************************************************)

\* The server's threads and handlers obey the lock protocol of L1 in every
\* interleaving: each of their steps is a step of a lawful client.
ImplementsContract == Contract!Spec

\* A RETRIEVE sends the bytes of the chunks it was asked for: between
\* read and send no slice it collected is freed and reused.
RetrieveSendsOwnBytes ==
  \A h \in handlers : At(h, "RETRIEVE", "send") =>
    \A i \in 1 .. Len(h.keys) : HasBytes(h.objs[i], h.keys[i])

\* A RETRIEVE finds every chunk the lookup promised, however the handlers
\* of FREE_LOOKUP_LOCKS, other requests and the evictor interleave with it.
RetrieveNeverMisses ==
  \A h \in handlers : At(h, "RETRIEVE", "start") =>
    \A k \in Range(h.keys) : readable(k)

\* What an adapter keeps under a key is that chunk: no store task reads a
\* slice that has been reused for another chunk.
L2Integrity ==
  \A a \in Adapters : \A k \in DOMAIN stored[a] : stored[a][k] = k

\* The evictor sees exactly the readable chunks, each once: none is
\* forgotten in L1 and none outlives its entry in the list.
LRUMatchesEntries ==
  /\ Range(order) = {k \in DOMAIN entries : readable(k)}
  /\ Len(order) = Cardinality(Range(order))

\* end_session forgets no hold: what it pops from held was released.
NoHoldForgotten == \A r \in Requests : lost[r] = {}

\* When all requests are over L1 has no lock, no hold and no temporary
\* entry left, and the prefetcher no session.
QuiescentClean ==
  Quiet => /\ \A k \in DOMAIN entries : is_evictable(k) /\ ~entries[k].is_temporary
           /\ \A r \in Requests : hits[r] = Absent /\ held[r] = <<>>

\* Every lookup is resolved.
LookupResolves ==
  \A r \in Requests :
    hits[r].state = "pending" ~> hits[r].state # "pending"

\* A finished write reaches every adapter unless it leaves L1 first.
WritesAreMirrored ==
  \A k \in Keys :
    (\E i \in 1 .. Len(pending) : k \in Range(pending[i])) ~>
      (k \notin DOMAIN entries \/ \A a \in Adapters : k \in DOMAIN stored[a])

\* Above the watermark the evictor makes room as long as it can.
EvictionMakesRoom ==
  (AboveWatermark /\ \E k \in Keys : is_evictable(k)) ~>
    (~AboveWatermark \/ \A k \in Keys : ~is_evictable(k))

\* A finished request gives all its holds back.
HoldsAreReturned ==
  \A r \in Requests :
    cl[r].pc = "finished" ~> [](HeldFor(r) = {} /\ WritingFor(r) = {})

=============================================================================
