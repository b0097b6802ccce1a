----------------------------- MODULE Connector ------------------------------
(***************************************************************************)
(* MiniConnector of mini_llmcache/integration/vllm_connector.py: trackers, *)
(* transfer operations and the block tables they are made from.            *)
(*                                                                         *)
(* vLLM (external) calls the hooks in steps: it schedules requests, asks   *)
(* for the metadata of the step (BuildMeta), and its worker starts loads,  *)
(* runs the forward pass, saves and reports what has finished.  Loads land *)
(* in threads of their own.  The cache server's answers are arbitrary;     *)
(* a RETRIEVE that succeeds brings the right bytes.                        *)
(*                                                                         *)
(* A slot of the GPU cache is <<block, offset>>; it holds <<r, p>> when it *)
(* has the KV of token p of request r, computed from right predecessors.   *)
(***************************************************************************)
EXTENDS Integers, Sequences, SequencesExt, FiniteSetsExt

CONSTANTS
  Requests,
  NumBlocks,              \* GPU blocks
  block_size, chunk_size,
  PromptLens,             \* the numbers of prompt tokens, by request
  MaxTokens               \* MaxTokens[r]: bound, tokens of r in the end

ASSUME ConnectorAssumption ==
  /\ block_size \in Nat \ {0} /\ chunk_size \in Nat \ {0}
  /\ chunk_size % block_size = 0
  /\ PromptLens \subseteq [Requests -> Nat \ {0}]
  /\ NumBlocks \in Nat
  /\ MaxTokens \in [Requests -> Nat]
  /\ \A p \in PromptLens, r \in Requests : p[r] <= MaxTokens[r]

VARIABLES
  \* vLLM
  prompt, status, ntok, ncomp, table, gpu, phase, sched, recved, finished_ids,
  \* the scheduler's connector
  trackers, meta,
  \* the worker's connector
  loads, load_futures, stores, pending_sends,
  \* history: what the STOREs have sent, the requests with a RETRIEVE that
  \* failed, the requests aborted while a load was in flight
  sent, failed, stray

vllmVars == <<status, ntok, ncomp, table, recved>>
workerVars == <<loads, load_futures, stores, pending_sends, sent, failed>>
vars == <<vllmVars, gpu, phase, sched, finished_ids, trackers, meta, workerVars,
          stray, prompt>>

GpuBlocks == 1 .. NumBlocks
Offsets == 0 .. (block_size - 1)
Nothing == <<>>
NoTracker == [tracked |-> FALSE]
Idle == [k |-> 0]

BlocksFor(n) == (n + block_size - 1) \div block_size
Slot(t, p) == <<t[p \div block_size + 1], p % block_size>>
\* Python's list[a:b]
Sliced(s, a, b) == SubSeq(s, a + 1, Min({b, Len(s)}))

RequestTracker ==
  [lmcache_hits |-> 0, vllm_hits |-> 0, block_ids |-> <<>>,
   num_computed_tokens |-> 0, num_stored_tokens |-> 0,
   lookup_resolved |-> FALSE, load_pending |-> FALSE]

Init ==
  /\ status = [r \in Requests |-> "new"]
  /\ prompt \in PromptLens
  /\ ntok = prompt
  /\ ncomp = [r \in Requests |-> 0]
  /\ table = [r \in Requests |-> <<>>]
  /\ gpu = [s \in GpuBlocks \X Offsets |-> Nothing]
  /\ phase = "schedule"
  /\ sched = [r \in Requests |-> Idle]
  /\ recved = {}
  /\ finished_ids = {}
  /\ trackers = [r \in Requests |-> NoTracker]
  /\ meta = [load |-> {}, store |-> {}]
  /\ loads = {}
  /\ load_futures = {}
  /\ stores = [r \in Requests |-> 0]
  /\ pending_sends = {}
  /\ sent = [r \in Requests |-> <<>>]
  /\ failed = {}
  /\ stray = {}

-----------------------------------------------------------------------------

(***************************************************************************)
(* Operations from trackers.                                               *)
(***************************************************************************)
LoadStoreOp(r, start, end, skip, block_ids) ==
  [r |-> r, start |-> start, end |-> end, skip |-> skip, block_ids |-> block_ids]

ChunkStart(t) == (t.vllm_hits \div chunk_size) * chunk_size

\* Mutant: the blocks start at vllm_hits, the chunks at a chunk boundary.
generate_retrieve_op_unaligned(r, t) ==
  LoadStoreOp(r, ChunkStart(t), t.lmcache_hits, t.vllm_hits - ChunkStart(t),
              Sliced(t.block_ids, t.vllm_hits \div block_size,
                     t.lmcache_hits \div block_size))

generate_retrieve_op(r, t) ==
  LoadStoreOp(r, ChunkStart(t), t.lmcache_hits, t.vllm_hits - ChunkStart(t),
              Sliced(t.block_ids, ChunkStart(t) \div block_size,
                     t.lmcache_hits \div block_size))

available(r, t) ==
  Min({ntok[r], Len(t.block_ids) * block_size, t.num_computed_tokens})

\* The end of the STORE that is due, num_stored_tokens when none is.
StoreEnd(r, t) ==
  LET num_chunks == (available(r, t) - t.num_stored_tokens) \div chunk_size
  IN  IF num_chunks <= 0 THEN t.num_stored_tokens
      ELSE t.num_stored_tokens + num_chunks * chunk_size

generate_store_op(r, t) ==
  LoadStoreOp(r, t.num_stored_tokens, StoreEnd(r, t), 0,
              Sliced(t.block_ids, t.num_stored_tokens \div block_size,
                     StoreEnd(r, t) \div block_size))

-----------------------------------------------------------------------------

(***************************************************************************)
(* vLLM's scheduler and the hooks it calls, in phase "schedule".           *)
(***************************************************************************)
Used == UNION {ToSet(table[r]) : r \in Requests}
FreeBlocks == SetToSeq(GpuBlocks \ Used)
\* allocate_slots: n more blocks for t, if there are as many.
Fits(n) == n <= Len(FreeBlocks)
Grown(t, n) == t \o SubSeq(FreeBlocks, 1, n)

Arrive(r) ==
  /\ status[r] = "new"
  /\ status' = [status EXCEPT ![r] = "waiting"]
  /\ UNCHANGED <<ntok, ncomp, table, recved, gpu, phase, sched, finished_ids,
                 trackers, meta, workerVars, stray, prompt>>

\* The answers of get_num_new_matched_tokens to a request with local hits:
\* the tracker it leaves, and the tokens it promises, or Pending.
Pending == -1
QueryAnswers(r, t, local) ==
  LET Hit(h) == [t EXCEPT !.lookup_resolved = TRUE, !.lmcache_hits = h,
                          !.vllm_hits = local, !.num_stored_tokens = h]
      Hits == {k * chunk_size : k \in 0 .. prompt[r] \div chunk_size}
  IN  {[t |-> Hit(h), ext |-> Max({h - local, 0})] : h \in Hits}
      \cup {[t |-> t, ext |-> Pending],
            [t |-> [t EXCEPT !.lookup_resolved = TRUE], ext |-> 0]} \* it raised

\* Mutant: lookup_resolved is not looked at.
MatchesAgain(r, local) ==
  QueryAnswers(r, IF trackers[r] = NoTracker THEN RequestTracker ELSE trackers[r], local)

Matches(r, local) ==
  CASE trackers[r] = NoTracker -> QueryAnswers(r, RequestTracker, local)
    [] trackers[r] # NoTracker /\ trackers[r].lookup_resolved ->
         {[t |-> trackers[r], ext |-> 0]}
    [] OTHER -> QueryAnswers(r, trackers[r], local)

\* update_state_after_alloc with the request's blocks; the lookup locks it
\* frees are the subject of CacheServer.
update_state_after_alloc(t, blocks, ext) ==
  [t EXCEPT !.block_ids = @ \o Sliced(blocks, Len(@), Len(blocks)),
            !.load_pending = @ \/ ext > 0]

\* A scheduled request computes k tokens from the n-th on.
Scheduled(r, kind, new, n, k) ==
  sched' = [sched EXCEPT ![r] = [kind |-> kind, new |-> new, computed |-> n, k |-> k]]

\* A waiting or preempted request: match it and, when the answer is not
\* pending and the blocks suffice, allocate; it then loads or runs.
ScheduleWaiting(r) ==
  /\ phase = "schedule" /\ status[r] \in {"waiting", "preempted"} /\ sched[r] = Idle
  /\ \E local \in 0 .. (ntok[r] - 1) :
       /\ local % block_size = 0
       /\ \E m \in Matches(r, local) :
            \/ \* pending, or no room
               /\ trackers' = [trackers EXCEPT ![r] = m.t]
               /\ m.t # trackers[r]
               /\ UNCHANGED <<status, ncomp, table, gpu, sched>>
            \/ /\ m.ext >= 0
               /\ \E k \in IF m.ext > 0 THEN {0} ELSE 1 .. (ntok[r] - local) :
                    LET n == local + m.ext
                        new == Grown(<<>>, BlocksFor(n + k))
                    IN  /\ Fits(BlocksFor(n + k))
                        /\ table' = [table EXCEPT ![r] = new]
                        /\ trackers' = [trackers EXCEPT ![r] =
                                          update_state_after_alloc(m.t, new, m.ext)]
                        /\ ncomp' = [ncomp EXCEPT ![r] = n]
                        \* blocks found in vLLM's own prefix cache
                        /\ gpu' = [s \in DOMAIN gpu |->
                             IF \E p \in 0 .. (local - 1) : s = Slot(new, p)
                             THEN CHOOSE x \in {r} \X (0 .. (local - 1)) : s = Slot(new, x[2])
                             ELSE gpu[s]]
                        /\ IF m.ext > 0
                           THEN /\ status' = [status EXCEPT ![r] = "loading"]
                                /\ UNCHANGED sched
                           ELSE /\ status' = [status EXCEPT ![r] = "running"]
                                /\ Scheduled(r, IF status[r] = "waiting" THEN "new"
                                                ELSE "resumed", new, n, k)
  /\ UNCHANGED <<ntok, recved, phase, finished_ids, meta, workerVars, stray, prompt>>

\* A request whose load has been reported goes on behind the loaded tokens,
\* with at least one token to compute.
ScheduleLoaded(r) ==
  /\ phase = "schedule" /\ status[r] = "loading" /\ r \in recved /\ sched[r] = Idle
  /\ LET n == Min({ncomp[r], ntok[r] - 1})
     IN  \E k \in 1 .. (ntok[r] - n) :
           LET more == BlocksFor(n + k) - Len(table[r])
               new == Grown(table[r], Max({more, 0}))
           IN  /\ Fits(more)
               /\ table' = [table EXCEPT ![r] = new]
               /\ trackers' = [trackers EXCEPT ![r] =
                                 update_state_after_alloc(@, new, 0)]
               /\ ncomp' = [ncomp EXCEPT ![r] = n]
               /\ Scheduled(r, "new", new, n, k)
  /\ status' = [status EXCEPT ![r] = "running"]
  /\ recved' = recved \ {r}
  /\ UNCHANGED <<ntok, gpu, phase, finished_ids, meta, workerVars, stray, prompt>>

ScheduleRunning(r) ==
  /\ phase = "schedule" /\ status[r] = "running" /\ sched[r] = Idle
  /\ \E k \in 1 .. (ntok[r] - ncomp[r]) :
       LET more == Max({BlocksFor(ncomp[r] + k) - Len(table[r]), 0})
       IN  /\ Fits(more)
           /\ table' = [table EXCEPT ![r] = Grown(@, more)]
           /\ Scheduled(r, "cached", Grown(<<>>, more), ncomp[r], k)
  /\ UNCHANGED <<status, ntok, ncomp, recved, gpu, phase, finished_ids, trackers,
                 meta, workerVars, stray, prompt>>

Preempt(r) ==
  /\ phase = "schedule" /\ status[r] = "running" /\ sched[r] = Idle
  /\ status' = [status EXCEPT ![r] = "preempted"]
  /\ table' = [table EXCEPT ![r] = <<>>]
  /\ ncomp' = [ncomp EXCEPT ![r] = 0]
  /\ UNCHANGED <<ntok, recved, gpu, phase, sched, finished_ids, trackers, meta,
                 workerVars, stray, prompt>>

\* A client gives a request up between two steps, also while it loads.
Abort(r) ==
  /\ phase = "schedule" /\ \A q \in Requests : sched[q] = Idle
  /\ status[r] \in {"waiting", "preempted", "running", "loading"}
  /\ status' = [status EXCEPT ![r] = "finished"]
  /\ trackers' = [trackers EXCEPT ![r] = NoTracker]
  /\ recved' = recved \ {r}
  /\ finished_ids' = finished_ids \cup {r}
  /\ stray' = IF r \in load_futures THEN stray \cup {r} ELSE stray
  /\ UNCHANGED <<ntok, ncomp, table, gpu, phase, sched, meta, workerVars, prompt>>

\* Mutant: a resumed request keeps its old block table.
TableKept(t, s) == t.block_ids \o (IF s.kind = "cached" THEN s.new ELSE <<>>)

Table(t, s) == IF s.kind = "cached" THEN t.block_ids \o s.new ELSE s.new

\* build_connector_meta: the RETRIEVEs that are pending, then the trackers
\* as of the scheduler's output, then the STOREs that are due.
BuildMeta ==
  LET Known == {r \in Requests : trackers[r] # NoTracker}
      Loading == {r \in Known : trackers[r].load_pending}
      Asked(r) == [trackers[r] EXCEPT !.load_pending = FALSE]
      Computed(r) == LET t == Asked(r) s == sched[r]
                     IN  [t EXCEPT !.block_ids = Table(t, s),
                                   !.num_computed_tokens = s.computed + s.k]
      Running == {r \in Known : sched[r] # Idle}
      Due == {r \in Running : StoreEnd(r, Computed(r)) > Computed(r).num_stored_tokens}
  IN  /\ phase = "schedule"
      /\ meta' = [load |-> {generate_retrieve_op(r, trackers[r]) : r \in Loading},
                  store |-> {generate_store_op(r, Computed(r)) : r \in Due}]
      /\ trackers' = [r \in Requests |->
           IF r \in Running
           THEN [Computed(r) EXCEPT !.num_stored_tokens = StoreEnd(r, Computed(r))]
           ELSE IF r \in Loading THEN Asked(r) ELSE trackers[r]]
      /\ phase' = "load"
      /\ UNCHANGED <<vllmVars, gpu, sched, finished_ids, workerVars, stray, prompt>>

-----------------------------------------------------------------------------

(***************************************************************************)
(* The worker's connector.                                                 *)
(***************************************************************************)
\* start_load_kv: a RETRIEVE and a load thread for each operation.
StartLoad ==
  /\ phase = "load"
  /\ loads' = loads \cup {[op |-> o, at |-> "reply"] : o \in meta.load}
  /\ load_futures' = load_futures \cup {o.r : o \in meta.load}
  /\ phase' = "forward"
  /\ UNCHANGED <<vllmVars, gpu, sched, finished_ids, trackers, meta,
                 stores, pending_sends, sent, failed, stray, prompt>>

\* The forward pass writes the scheduled tokens; what it computes is right
\* when everything it attends to is.
Forward ==
  LET Right(r) == \A p \in 0 .. (sched[r].computed - 1) :
                    gpu[Slot(table[r], p)] = <<r, p>>
      Writes == {x \in UNION {{r} \X (0 .. (MaxTokens[r] - 1)) : r \in Requests} :
                   /\ sched[x[1]] # Idle
                   /\ x[2] \in sched[x[1]].computed ..
                                 (sched[x[1]].computed + sched[x[1]].k - 1)}
      At(s) == {x \in Writes : Slot(table[x[1]], x[2]) = s}
  IN  /\ phase = "forward"
      /\ gpu' = [s \in DOMAIN gpu |->
                   IF At(s) = {} THEN gpu[s]
                   ELSE LET x == CHOOSE x \in At(s) : TRUE
                        IN  IF Right(x[1]) THEN x ELSE Nothing]
      /\ ncomp' = [r \in Requests |-> IF sched[r] = Idle THEN ncomp[r]
                                      ELSE sched[r].computed + sched[r].k]
      /\ phase' = "save"
      /\ UNCHANGED <<status, ntok, table, recved, sched, finished_ids, trackers,
                     meta, workerVars, stray, prompt>>

\* What to_host reads through the blocks of an operation.
BytesOf(o) == [p \in 1 .. Len(o.block_ids) * block_size |-> gpu[Slot(o.block_ids, p - 1)]]

\* wait_for_save: copy out and submit.
WaitForSave ==
  LET Saves(r) == {o \in meta.store : o.r = r}
  IN  /\ phase = "save"
      /\ stores' = [r \in Requests |-> stores[r] + Cardinality(Saves(r))]
      /\ sent' = [r \in Requests |->
           IF Saves(r) = {} THEN sent[r]
           ELSE LET o == CHOOSE o \in Saves(r) : TRUE
                IN  Append(sent[r], [start |-> o.start, end |-> o.end,
                                     bytes |-> BytesOf(o)])]
      /\ phase' = "report"
      /\ UNCHANGED <<vllmVars, gpu, sched, finished_ids, trackers, meta,
                     loads, load_futures, pending_sends, failed, stray, prompt>>

\* A STORE is answered, by a result or an exception.
StoreReply(r) ==
  /\ stores[r] > 0
  /\ stores' = [stores EXCEPT ![r] = @ - 1]
  /\ UNCHANGED <<vllmVars, gpu, phase, sched, finished_ids, trackers, meta,
                 loads, load_futures, pending_sends, sent, failed, stray, prompt>>

Moves(l, at) == loads' = (loads \ {l}) \cup {[l EXCEPT !.at = at]}

\* Mutant: done is not set in a finally clause.
LoadFailsNoFinally(l) ==
  /\ l.at = "reply"
  /\ Moves(l, "failed")
  /\ failed' = failed \cup {l.op.r}
  /\ UNCHANGED <<vllmVars, gpu, phase, sched, finished_ids, trackers, meta,
                 load_futures, stores, pending_sends, sent, stray, prompt>>

\* _finish_load without chunks: the exception is printed and done is set.
LoadFails(l) ==
  /\ l.at = "reply"
  /\ Moves(l, "done")
  /\ failed' = failed \cup {l.op.r}
  /\ UNCHANGED <<vllmVars, gpu, phase, sched, finished_ids, trackers, meta,
                 load_futures, stores, pending_sends, sent, stray, prompt>>

\* _finish_load: the chunks have come.
LoadReply(l) ==
  /\ l.at = "reply"
  /\ Moves(l, "scatter")
  /\ UNCHANGED <<vllmVars, gpu, phase, sched, finished_ids, trackers, meta,
                 load_futures, stores, pending_sends, sent, failed, stray, prompt>>

\* from_host of the chunks of [start, end) into the blocks behind skip,
\* then done.set().
Scatter(l) ==
  LET o == l.op
      skip == (o.skip \div block_size) * block_size
      Tokens == skip .. (Len(o.block_ids) * block_size - 1)
  IN  /\ l.at = "scatter"
      /\ Moves(l, "done")
      /\ gpu' = [s \in DOMAIN gpu |->
           IF \E p \in Tokens : s = Slot(o.block_ids, p)
           THEN <<o.r, o.start + CHOOSE p \in Tokens : s = Slot(o.block_ids, p)>>
           ELSE gpu[s]]
      /\ UNCHANGED <<vllmVars, phase, sched, finished_ids, trackers, meta,
                     load_futures, stores, pending_sends, sent, failed, stray, prompt>>

\* Mutant: done does not look at done_event.
LoadDoneOnReply(r) == \A l \in loads : l.op.r = r => l.at # "reply"

\* DeviceFuture.done of a load
LoadDone(r) == \A l \in loads : l.op.r = r => l.at = "done"

\* Mutant: a request is reported in the step it finishes or never.
SendsForgotten == finished_ids

Sends == pending_sends \cup finished_ids

\* get_finished; vLLM then frees the blocks of what has finished sending,
\* and knows what has finished loading.  A request that has computed all its
\* tokens gets another one or finishes, which calls request_finished.
GetFinished ==
  LET sending == {r \in Sends : stores[r] = 0}
      recving == {r \in load_futures : LoadDone(r)}
      Complete == {r \in Requests : sched[r] # Idle /\ ncomp[r] = ntok[r]}
  IN  /\ phase = "report"
      /\ pending_sends' = Sends \ sending
      /\ load_futures' = load_futures \ recving
      /\ loads' = {l \in loads : l.op.r \in recving => l.at # "done"}
      /\ recved' = recved \cup {r \in recving : status[r] = "loading"}
      /\ table' = [r \in Requests |-> IF r \in sending THEN <<>> ELSE table[r]]
      /\ \E Ends \in SUBSET Complete :
           /\ \A r \in Complete : ntok[r] = MaxTokens[r] => r \in Ends
           /\ ntok' = [r \in Requests |->
                         IF r \in Complete \ Ends THEN ntok[r] + 1 ELSE ntok[r]]
           /\ status' = [r \in Requests |-> CASE r \in sending -> "gone"
                                              [] r \in Ends -> "finished"
                                              [] OTHER -> status[r]]
           /\ trackers' = [r \in Requests |->
                             IF r \in Ends THEN NoTracker ELSE trackers[r]]
           /\ finished_ids' = Ends
      /\ phase' = "schedule"
      /\ sched' = [r \in Requests |-> Idle]
      /\ meta' = [load |-> {}, store |-> {}]
      /\ UNCHANGED <<ncomp, gpu, stores, sent, failed, stray, prompt>>

-----------------------------------------------------------------------------

Schedule(r) ==
  ScheduleWaiting(r) \/ ScheduleLoaded(r) \/ ScheduleRunning(r)
Worker == StartLoad \/ Forward \/ WaitForSave \/ GetFinished
LoadStep(l) == LoadReply(l) \/ LoadFails(l) \/ Scatter(l)

Next ==
  \/ \E r \in Requests :
       Arrive(r) \/ Schedule(r) \/ Preempt(r) \/ Abort(r) \/ StoreReply(r)
  \/ BuildMeta
  \/ Worker
  \/ \E l \in loads : LoadStep(l)

Spec == Init /\ [][Next]_vars

\* vLLM keeps stepping, the server answers and threads run.
FairSpec ==
  /\ Spec
  /\ WF_vars(BuildMeta) /\ WF_vars(Worker)
  /\ \A r \in Requests :
       /\ WF_vars(StoreReply(r))
       /\ WF_vars(\E l \in loads : l.op.r = r /\ LoadStep(l))

-----------------------------------------------------------------------------

\* Whatever vLLM counts as computed is there: the tokens a running request
\* attends to were computed, found in the prefix cache or loaded into its own
\* blocks, at the right place, and nothing has overwritten them since.  Not
\* so after a RETRIEVE of the request has failed, which get_finished reports
\* like one that succeeded, or when a load outlived its aborted request.
ComputedIsFilled ==
  stray = {} =>
    \A r \in Requests : status[r] = "running" /\ r \notin failed =>
      \A p \in 0 .. (ncomp[r] - 1) : gpu[Slot(table[r], p)] = <<r, p>>

\* A STORE sends whole chunks, of the tokens its keys stand for: the block
\* table in the tracker is the request's own one also after preemptions, and
\* the forward pass has written the tokens.  The exceptions are the same.
StoresOwnBytes ==
  stray = {} =>
    \A r \in Requests \ failed : \A n \in 1 .. Len(sent[r]) :
      LET s == sent[r][n]
      IN  /\ s.start % chunk_size = 0 /\ s.end % chunk_size = 0
          /\ s.bytes = [p \in 1 .. (s.end - s.start) |-> <<r, s.start + p - 1>>]

\* "What has been stored is never stored again", nor skipped: the STOREs of
\* a request follow each other, through preemption and recomputation.
StoresAreConsecutive ==
  \A r \in Requests : \A n \in 1 .. (Len(sent[r]) - 1) :
    sent[r][n].end = sent[r][n + 1].start

\* A load thread writes only into blocks that still belong to its request,
\* unless the request was aborted while it loaded.
LoadsOwnBlocks ==
  \A l \in loads : l.at # "done" /\ l.op.r \notin stray =>
    ToSet(l.op.block_ids) \subseteq ToSet(table[l.op.r])

\* The blocks of a finished request are given back, although the free is
\* delayed until its STOREs are answered.
FinishedIsFreed == \A r \in Requests : status[r] = "finished" ~> status[r] = "gone"

\* A load that was announced is reported.
LoadsAreReported == \A r \in Requests : r \in load_futures ~> r \notin load_futures

=============================================================================
