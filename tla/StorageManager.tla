--------------------------- MODULE StorageManager ---------------------------
(***************************************************************************)
(* The storage stack of the server (mini_llmcache/storage_manager.py): L1, *)
(* the L2 adapters and the three background threads that share them.       *)
(*                                                                         *)
(*   prefetch  resolves the lookups of the queue jobs, one at a time       *)
(*   store     mirrors every finished write into all adapters              *)
(*   eviction  deletes cold chunks when the pool is above the watermark    *)
(*                                                                         *)
(* A thread is a record with a program counter pc; one step is one locked  *)
(* section, one queue operation or one wait for futures.  A thread that    *)
(* dies of an exception stays at pc "dead" with what it held.              *)
(***************************************************************************)
EXTENDS L2Adapter

CONSTANTS
  Requests,    \* the request ids
  NoRequest,   \* the request of an idle thread
  ChunkNBytes  \* bytes of one chunk of the deployment

ASSUME RequestAssumption ==
  /\ NoRequest \notin Requests
  /\ ChunkNBytes \in Sizes

VARIABLES
  jobs,     \* PrefetchController.jobs: lookups to resolve, [rid, keys]
  hits,     \* PrefetchController.hits, absent keys included
  held,     \* PrefetchController.held: the keys in insertion order
  pf,       \* the prefetch thread
  pending,  \* StoreController.pending: lists of written keys
  st,       \* the store thread
  ev        \* the eviction thread

prefetchVars == <<jobs, hits, held, pf>>
storeVars == <<pending, st>>
smVars == <<l1Vars, order, l2Vars, prefetchVars, storeVars, ev>>

Absent == [state |-> "absent", l1 |-> 0, l2 |-> 0]
Pending == [state |-> "pending", l1 |-> 0, l2 |-> 0]
Resolved(l1, l2) == [state |-> "resolved", l1 |-> l1, l2 |-> l2]

\* The prefetch thread: rid and keys of its job, the missing keys, the keys
\* it holds for reading (hit, the first l1 of them found in L1), the keys it
\* reserved and still has to load with their slices (load, objs), how many
\* of them it loaded, the hits of each adapter and the adapters it tried.
PfIdle ==
  [pc |-> "get", rid |-> NoRequest, missing |-> <<>>, hit |-> <<>>, l1 |-> 0,
   load |-> <<>>, objs |-> <<>>, loaded |-> 0,
   l2_hits |-> [a \in Adapters |-> 0], tried |-> {}]

StIdle == [pc |-> "get", keys |-> <<>>, objs |-> <<>>]

EvIdle == [pc |-> "sleep", victims |-> {}]

SMInit ==
  /\ L1Init
  /\ LRUInit
  /\ L2Init
  /\ jobs = <<>>
  /\ hits = [r \in Requests |-> Absent]
  /\ held = [r \in Requests |-> <<>>]
  /\ pf = PfIdle
  /\ pending = <<>>
  /\ st = StIdle
  /\ ev = EvIdle

\* read(keys): the slices of keys, which the caller expects to exist.
ObjsOf(keys) == [i \in 1 .. Len(keys) |-> entries[keys[i]].obj]

\* The first n elements of a list, and the rest.
First(n, list) == SubSeq(list, 1, n)
After(n, list) == SubSeq(list, n + 1, Len(list))

-----------------------------------------------------------------------------

(***************************************************************************)
(* PrefetchController.run and prefetch.                                    *)
(***************************************************************************)

\* Take a job and hold its readable prefix.  Without missing chunks, or
\* without adapters, nothing is looked up, reserved or loaded.
PfGet ==
  /\ pf.pc = "get"
  /\ jobs # <<>>
  /\ LET keys == Head(jobs).keys
         n == PrefixHits(keys)
         missing == After(n, keys)
     IN  /\ reserve_read_prefix(keys)
         /\ pf' = [PfIdle EXCEPT
                     !.pc = IF missing = <<>> \/ NumAdapters = 0
                            THEN "resolve" ELSE "lookup",
                     !.rid = Head(jobs).rid,
                     !.missing = missing,
                     !.hit = First(n, keys),
                     !.l1 = n]
  /\ jobs' = Tail(jobs)
  /\ UNCHANGED <<order, l2Vars, hits, held, storeVars, ev>>

\* lookup_l2s: ask every adapter, then wait for all answers.
PfLookup ==
  /\ pf.pc = "lookup"
  /\ submit(Adapters, "prefetch", "lookup", pf.missing, <<>>)
  /\ pf' = [pf EXCEPT !.pc = "lookups"]
  /\ UNCHANGED <<l1Vars, order, jobs, hits, held, storeVars, ev>>

\* Mutant: without L2 hits the adapters are asked again.
PfLookupsRetry ==
  /\ pf.pc = "lookups"
  /\ AllDone("prefetch")
  /\ LET l2_hits == [a \in Adapters |-> futures[a]["prefetch"].result]
     IN  pf' = [pf EXCEPT
                  !.pc = IF \E a \in Adapters : l2_hits[a] > 0
                         THEN "reserve" ELSE "lookup",
                  !.l2_hits = l2_hits]
  /\ Consume("prefetch")
  /\ UNCHANGED <<l1Vars, order, jobs, hits, held, storeVars, ev>>

PfLookups ==
  /\ pf.pc = "lookups"
  /\ AllDone("prefetch")
  /\ LET l2_hits == [a \in Adapters |-> futures[a]["prefetch"].result]
     IN  pf' = [pf EXCEPT
                  !.pc = IF \E a \in Adapters : l2_hits[a] > 0
                         THEN "reserve" ELSE "resolve",
                  !.l2_hits = l2_hits]
  /\ Consume("prefetch")
  /\ UNCHANGED <<l1Vars, order, jobs, hits, held, storeVars, ev>>

\* future.result() raises in the prefetch thread, which nothing catches.
PfDies ==
  /\ pf.pc \in {"lookups", "loading"}
  /\ Raises("prefetch")
  /\ pf' = [pf EXCEPT !.pc = "dead"]
  /\ UNCHANGED <<l1Vars, order, l2Vars, jobs, hits, held, storeVars, ev>>

\* reserve_load: one temporary slot per chunk, until the best adapter's
\* hits are covered, a chunk turns up in L1 meanwhile, or the pool is full.
MostHits == Max({pf.l2_hits[a] : a \in Adapters})
NextLoad == pf.missing[Len(pf.load) + 1]

PfReserve ==
  /\ pf.pc = "reserve"
  /\ NextLoad \notin DOMAIN entries
  /\ reserve_write({NextLoad}, ChunkNBytes, TRUE)
  /\ pf' = [pf EXCEPT !.load = Append(@, NextLoad),
                      !.objs = Append(@, entries'[NextLoad].obj),
                      !.pc = IF Len(pf.load) + 1 = MostHits
                             THEN "load" ELSE "reserve"]
  /\ UNCHANGED <<order, l2Vars, jobs, hits, held, storeVars, ev>>

PfReserveStops ==
  /\ pf.pc = "reserve"
  /\ IF NextLoad \in DOMAIN entries THEN UNCHANGED l1Vars
     ELSE reserve_write_none({NextLoad}, ChunkNBytes)
  /\ pf' = [pf EXCEPT !.pc = IF pf.load = <<>> THEN "resolve" ELSE "load"]
  /\ UNCHANGED <<order, l2Vars, jobs, hits, held, storeVars, ev>>

\* load_from_l2s: the adapters not tried yet, most hits first, as long as
\* they have more than what is loaded.
Useful(a) ==
  /\ a \notin pf.tried
  /\ pf.loaded < Len(pf.load)
  /\ pf.l2_hits[a] > pf.loaded

Best(a) ==
  /\ Useful(a)
  /\ \A b \in Adapters \ pf.tried :
       \/ pf.l2_hits[b] < pf.l2_hits[a]
       \/ pf.l2_hits[b] = pf.l2_hits[a] /\ b >= a

\* Mutant: the next adapter gets all slices again, not objs[loaded:].
PfLoadMisaligned(a) ==
  /\ pf.pc = "load"
  /\ Best(a)
  /\ submit({a}, "prefetch", "load", After(pf.loaded, pf.load), pf.objs)
  /\ pf' = [pf EXCEPT !.pc = "loading", !.tried = @ \cup {a}]
  /\ UNCHANGED <<l1Vars, order, jobs, hits, held, storeVars, ev>>

PfLoad(a) ==
  /\ pf.pc = "load"
  /\ Best(a)
  /\ submit({a}, "prefetch", "load",
            After(pf.loaded, pf.load), After(pf.loaded, pf.objs))
  /\ pf' = [pf EXCEPT !.pc = "loading", !.tried = @ \cup {a}]
  /\ UNCHANGED <<l1Vars, order, jobs, hits, held, storeVars, ev>>

PfLoaded(a) ==
  /\ pf.pc = "loading"
  /\ futures[a]["prefetch"].state = "done"
  /\ pf' = [pf EXCEPT !.pc = "load",
                      !.loaded = @ + futures[a]["prefetch"].result]
  /\ Consume("prefetch")
  /\ UNCHANGED <<l1Vars, order, jobs, hits, held, storeVars, ev>>

\* The loaded chunks become readable and held ...
PfPublish ==
  /\ pf.pc = "load"
  /\ \A a \in Adapters : ~Useful(a)
  /\ LET loaded == First(pf.loaded, pf.load)
         rest == After(pf.loaded, pf.load)
     IN  /\ finish_write_and_reserve_read(Range(loaded))
         /\ on_created(loaded)
         /\ pf' = [pf EXCEPT !.pc = IF rest = <<>> THEN "resolve"
                                    ELSE "discard",
                             !.hit = @ \o loaded,
                             !.load = rest]
  /\ UNCHANGED <<l2Vars, jobs, hits, held, storeVars, ev>>

\* ... and the slots of the others are given back.
PfDiscard ==
  /\ pf.pc = "discard"
  /\ delete(Range(pf.load), TRUE)
  /\ on_removed(Range(pf.load))
  /\ pf' = [pf EXCEPT !.pc = "resolve", !.load = <<>>]
  /\ UNCHANGED <<l2Vars, jobs, hits, held, storeVars, ev>>

\* resolve: publish the result and hand the holds over to the session ...
PfResolve ==
  /\ pf.pc = "resolve"
  /\ IF hits[pf.rid].state # "absent"
     THEN /\ hits' = [hits EXCEPT ![pf.rid] =
                        Resolved(pf.l1, Len(pf.hit) - pf.l1)]
          /\ held' = [held EXCEPT ![pf.rid] = pf.hit]
          /\ pf' = PfIdle
     ELSE /\ pf' = [pf EXCEPT !.pc = "unhold"]
          /\ UNCHANGED <<hits, held>>
  /\ UNCHANGED <<l1Vars, order, l2Vars, jobs, storeVars, ev>>

\* Mutant: resolve returns without finish_read when the session has ended.
PfForget ==
  /\ pf.pc = "unhold"
  /\ pf' = PfIdle
  /\ UNCHANGED <<l1Vars, order, l2Vars, jobs, hits, held, storeVars, ev>>

\* ... or drop them, if the session has ended.
PfUnhold ==
  /\ pf.pc = "unhold"
  /\ finish_read(Range(pf.hit))
  /\ on_finish_read(pf.hit)
  /\ pf' = PfIdle
  /\ UNCHANGED <<l2Vars, jobs, hits, held, storeVars, ev>>

Prefetch ==
  \/ PfGet \/ PfLookup \/ PfLookups \/ PfDies \/ PfReserve \/ PfReserveStops
  \/ \E a \in Adapters : PfLoad(a) \/ PfLoaded(a)
  \/ PfPublish \/ PfDiscard \/ PfResolve \/ PfUnhold

-----------------------------------------------------------------------------

(***************************************************************************)
(* StoreController, which exists only when there are adapters.             *)
(***************************************************************************)
on_write_finished(keys) ==
  pending' = IF NumAdapters = 0 THEN pending ELSE Append(pending, keys)

\* Mutant: the queue is emptied but only its first list is mirrored.
StGetClears ==
  /\ st.pc = "get"
  /\ pending # <<>>
  /\ LET keys == Head(pending)
         locked == Selected(keys, Reservable(Range(keys)))
     IN  /\ reserve_read(Range(keys))
         /\ st' = IF locked = <<>> THEN StIdle
                  ELSE [pc |-> "submit", keys |-> locked,
                        objs |-> ObjsOf(locked)]
  /\ pending' = <<>>
  /\ UNCHANGED <<order, l2Vars, prefetchVars, ev>>

\* Hold the chunks that are still there; without any, take the next list.
StGet ==
  /\ st.pc = "get"
  /\ pending # <<>>
  /\ LET keys == Head(pending)
         locked == Selected(keys, Reservable(Range(keys)))
     IN  /\ reserve_read(Range(keys))
         /\ st' = IF locked = <<>> THEN StIdle
                  ELSE [pc |-> "submit", keys |-> locked,
                        objs |-> ObjsOf(locked)]
  /\ pending' = Tail(pending)
  /\ UNCHANGED <<order, l2Vars, prefetchVars, ev>>

StSubmit ==
  /\ st.pc = "submit"
  /\ submit(Adapters, "store", "store", st.keys, st.objs)
  /\ st' = [st EXCEPT !.pc = "wait"]
  /\ UNCHANGED <<l1Vars, order, prefetchVars, pending, ev>>

\* Mutant: the holds are dropped without waiting for the adapters.
StDoNotWait ==
  /\ st.pc = "wait"
  /\ finish_read(Range(st.keys))
  /\ on_finish_read(st.keys)
  /\ Consume("store")
  /\ st' = StIdle
  /\ UNCHANGED <<prefetchVars, pending, ev>>

StWait ==
  /\ st.pc = "wait"
  /\ AllDone("store")
  /\ finish_read(Range(st.keys))
  /\ on_finish_read(st.keys)
  /\ Consume("store")
  /\ st' = StIdle
  /\ UNCHANGED <<prefetchVars, pending, ev>>

StDies ==
  /\ st.pc = "wait"
  /\ Raises("store")
  /\ st' = [st EXCEPT !.pc = "dead"]
  /\ UNCHANGED <<l1Vars, order, l2Vars, prefetchVars, pending, ev>>

Store == StGet \/ StSubmit \/ StWait \/ StDies

-----------------------------------------------------------------------------

(***************************************************************************)
(* EvictionController.run: check the usage, pick the victims, delete those *)
(* that are still unlocked.  Each is a locked section of its own.          *)
(***************************************************************************)
EvCheck ==
  /\ ev.pc = "sleep"
  /\ AboveWatermark
  /\ ev' = [ev EXCEPT !.pc = "scan"]
  /\ UNCHANGED <<l1Vars, order, l2Vars, prefetchVars, storeVars>>

EvScan ==
  /\ ev.pc = "scan"
  /\ ev' = [pc |-> "delete", victims |-> get_victims]
  /\ UNCHANGED <<l1Vars, order, l2Vars, prefetchVars, storeVars>>

EvDelete ==
  /\ ev.pc = "delete"
  /\ on_removed(Deletable(ev.victims, FALSE))
  /\ delete(ev.victims, FALSE)
  /\ ev' = EvIdle
  /\ UNCHANGED <<l2Vars, prefetchVars, storeVars>>

Eviction == EvCheck \/ EvScan \/ EvDelete

\* A step of the worker of an adapter.
Worker(a) ==
  /\ Work(a)
  /\ UNCHANGED <<allocVars, entries, order, prefetchVars, storeVars, ev>>

\* A step of the world the adapters depend on.
Storage(a) ==
  /\ TaskFails(a) \/ \E k \in Keys : Lose(a, k)
  /\ UNCHANGED <<allocVars, entries, order, prefetchVars, storeVars, ev>>

=============================================================================
