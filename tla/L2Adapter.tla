----------------------------- MODULE L2Adapter -----------------------------
(***************************************************************************)
(* The L2 adapters (mini_llmcache/l2): each owns a queue and a worker      *)
(* thread that runs store, lookup and load one after the other and puts    *)
(* the outcome on the future of the task.                                  *)
(*                                                                         *)
(* A submitter is a thread that waits for all its futures before it        *)
(* submits again, so one future per adapter and submitter is enough.       *)
(* Files are external: what another process removes from the storage       *)
(* directory is the action Lose, what the operating system refuses is the  *)
(* action TaskFails.                                                       *)
(***************************************************************************)
EXTENDS LRUPolicy

CONSTANTS
  NumAdapters,  \* the adapters are 1 .. NumAdapters, in command-line order
  FSAdapters,   \* the adapters that keep files (the others are mocks)
  L2Start,      \* the sets of chunks earlier runs may have left in a file
                \* adapter
  L2MayFail,    \* store, lookup and load may raise
  MayLose       \* a chunk may disappear from an adapter

ASSUME AdapterAssumption ==
  /\ NumAdapters \in Nat
  /\ FSAdapters \subseteq 1 .. NumAdapters
  /\ L2Start \subseteq SUBSET Keys
  /\ L2MayFail \in BOOLEAN
  /\ MayLose \in BOOLEAN

VARIABLES
  stored,   \* stored[a][k]: whose bytes adapter a keeps under key k
  tasks,    \* tasks[a]: the queue of the worker of a
  futures   \* futures[a][who]: the outcome of the last task of who

l2Vars == <<stored, tasks, futures>>

Adapters == 1 .. NumAdapters
Submitters == {"prefetch", "store"}

NoFuture == [state |-> "none", result |-> 0]
Task(who, op, keys, objs) ==
  [who |-> who, op |-> op, keys |-> keys, objs |-> objs, done |-> 0]

\* A server starts over the files of earlier runs; a mock starts empty.
L2Init ==
  /\ stored \in [Adapters -> {[k \in S |-> k] : S \in L2Start \cup {{}}}]
  /\ \A a \in Adapters :
       DOMAIN stored[a] \in (IF a \in FSAdapters THEN L2Start ELSE {{}})
  /\ tasks = [a \in Adapters |-> <<>>]
  /\ futures = [a \in Adapters |-> [who \in Submitters |-> NoFuture]]

\* Queue a task at every adapter of the set as.
submit(as, who, op, keys, objs) ==
  /\ tasks' = [a \in Adapters |->
                 IF a \in as THEN Append(tasks[a], Task(who, op, keys, objs))
                 ELSE tasks[a]]
  /\ futures' = [a \in Adapters |->
                   IF a \in as
                   THEN [futures[a] EXCEPT ![who].state = "pending"]
                   ELSE futures[a]]
  /\ UNCHANGED stored

\* result() on the futures of who, one after the other: all return, or one
\* raises after those before it have returned.
AllDone(who) == \A a \in Adapters : futures[a][who].state = "done"
Raises(who) ==
  \E a \in Adapters :
    /\ futures[a][who].state = "failed"
    /\ \A b \in 1 .. (a - 1) : futures[b][who].state \in {"none", "done"}

\* The submitter takes the outcomes of who.
Consume(who) ==
  /\ futures' = [a \in Adapters |-> [futures[a] EXCEPT ![who] = NoFuture]]
  /\ UNCHANGED <<tasks, stored>>

-----------------------------------------------------------------------------

\* The worker's current task, its next key and the slice of that key.
Current(a) == Head(tasks[a])
NextKey(a) == Current(a).keys[Current(a).done + 1]
NextObj(a) == Current(a).objs[Current(a).done + 1]
LastKey(a) == Current(a).done + 1 = Len(Current(a).keys)

Running(a, op) == tasks[a] # <<>> /\ Current(a).op = op

Complete(a, state, result) ==
  /\ futures' = [futures EXCEPT ![a][Current(a).who] =
                   [state |-> state, result |-> result]]
  /\ tasks' = [tasks EXCEPT ![a] = Tail(@)]

\* One key of the task is done; the last one completes it.
Advance(a) ==
  IF LastKey(a) THEN Complete(a, "done", Len(Current(a).keys))
  ELSE /\ tasks' = [tasks EXCEPT ![a][1].done = @ + 1]
       /\ UNCHANGED futures

\* The bytes of a slice, as one tag: the chunk they are, or Junk.
Bytes(obj) ==
  IF \E k \in Keys : HasBytes(obj, k)
  THEN CHOOSE k \in Keys : HasBytes(obj, k) ELSE Junk

\* store: FSAdapter keeps an existing file, MockAdapter overwrites.
store(a) ==
  /\ Running(a, "store")
  /\ stored' =
       IF a \in FSAdapters /\ NextKey(a) \in DOMAIN stored[a] THEN stored
       ELSE [stored EXCEPT ![a] =
               [k \in DOMAIN @ \cup {NextKey(a)} |->
                  IF k = NextKey(a) THEN Bytes(NextObj(a)) ELSE @[k]]]
  /\ Advance(a)
  /\ UNCHANGED pool

\* lookup: the length of the contiguous stored prefix.
lookup(a) ==
  LET keys == Current(a).keys
  IN  /\ Running(a, "lookup")
      /\ \E n \in 0 .. Len(keys) :
           /\ \A i \in 1 .. n : keys[i] \in DOMAIN stored[a]
           /\ n < Len(keys) => keys[n + 1] \notin DOMAIN stored[a]
           /\ Complete(a, "done", n)
      /\ UNCHANGED <<pool, stored>>

\* load: fill the next slice, or stop at the first missing chunk.
load(a) ==
  /\ Running(a, "load")
  /\ IF NextKey(a) \in DOMAIN stored[a]
     THEN write_bytes(NextObj(a), stored[a][NextKey(a)]) /\ Advance(a)
     ELSE Complete(a, "done", Current(a).done) /\ UNCHANGED pool
  /\ UNCHANGED stored

\* The task raises: the worker puts the exception on the future.
TaskFails(a) ==
  /\ L2MayFail
  /\ tasks[a] # <<>>
  /\ Complete(a, "failed", 0)
  /\ UNCHANGED <<pool, stored>>

Work(a) == store(a) \/ lookup(a) \/ load(a)

Lose(a, k) ==
  /\ MayLose
  /\ a \in FSAdapters
  /\ k \in DOMAIN stored[a]
  /\ stored' = [stored EXCEPT ![a] = Restrict(@, DOMAIN @ \ {k})]
  /\ UNCHANGED <<pool, tasks, futures>>

=============================================================================
