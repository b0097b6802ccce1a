-------------------------- MODULE CacheServerProofs --------------------------
(***************************************************************************)
(* The server implements L1Contract, for every number of requests, ranks,  *)
(* chunks and adapters, with aborts, timeouts and failures: the steps of   *)
(* the background threads, the data of every step, and the theorems.       *)
(***************************************************************************)
EXTENDS CacheServerHandlerProofs

(***************************************************************************)
(* The adapters' queues.                                                   *)
(***************************************************************************)

\* A task is queued at every adapter of a set.
QueuedAt(as, t) ==
  \A a \in Adapters : \A i \in 1 .. Len(tasks'[a]) :
    \/ i \in 1 .. Len(tasks[a]) /\ tasks'[a][i] = tasks[a][i]
    \/ a \in as /\ i = Len(tasks[a]) + 1 /\ tasks'[a][i] = t

PendingAt(as, who) ==
  \A a \in Adapters, w \in Submitters :
    IF a \in as /\ w = who THEN futures'[a][w].state = "pending"
    ELSE futures'[a][w] = futures[a][w]

\* submit, with the types of what it builds.
LEMMA Submitted ==
  ASSUME AdapterType, NEW as, NEW who \in Submitters, NEW op \in {"store", "lookup", "load"},
         NEW keys \in Seq(Keys), NEW objs \in Seq(MemoryObj), submit(as, who, op, keys, objs)
  PROVE  /\ AdapterType' /\ stored' = stored
         /\ QueuedAt(as, Task(who, op, keys, objs)) /\ PendingAt(as, who)
<1> DEFINE t == Task(who, op, keys, objs)
<1>1. /\ tasks \in [Adapters -> Seq(TaskRec)] /\ futures \in [Adapters -> [Submitters -> FutureRec]]
      /\ stored' = stored /\ DOMAIN stored = Adapters
  BY DEF AdapterType, submit
<1>2. t \in TaskRec
  BY DEF Task, TaskRec
<1> HIDE DEF t
<1>3. /\ tasks' = [a \in Adapters |-> IF a \in as THEN Append(tasks[a], t) ELSE tasks[a]]
      /\ futures' = [a \in Adapters |->
           IF a \in as THEN [futures[a] EXCEPT ![who].state = "pending"] ELSE futures[a]]
  BY DEF submit, t
<1>4. \A a \in Adapters :
        /\ Append(tasks[a], t) \in Seq(TaskRec) /\ Len(Append(tasks[a], t)) = Len(tasks[a]) + 1
        /\ \A i \in 1 .. Len(tasks[a]) : Append(tasks[a], t)[i] = tasks[a][i]
        /\ Append(tasks[a], t)[Len(tasks[a]) + 1] = t
        /\ Len(tasks[a]) \in Nat
  <2> TAKE a \in Adapters
  <2>1. tasks[a] \in Seq(TaskRec)
    BY <1>1
  <2> QED BY <1>2, <2>1, AppendProperties
<1>5. tasks' \in [Adapters -> Seq(TaskRec)]
  BY <1>1, <1>3, <1>4
<1>6. \A a \in Adapters, w \in Submitters :
        /\ futures'[a][w] \in FutureRec
        /\ IF a \in as /\ w = who THEN futures'[a][w].state = "pending"
           ELSE futures'[a][w] = futures[a][w]
  <2> TAKE a \in Adapters, w \in Submitters
  <2>1. futures[a] \in [Submitters -> FutureRec] /\ futures[a][w] \in FutureRec
    BY <1>1
  <2>2. CASE a \notin as
    BY <1>3, <2>1, <2>2
  <2>3. CASE a \in as
    <3>1. futures'[a] = [futures[a] EXCEPT ![who].state = "pending"]
      BY <1>3, <2>3
    <3>2. futures'[a][w] = IF w = who THEN [futures[a][w] EXCEPT !.state = "pending"] ELSE futures[a][w]
      BY <2>1, <3>1
    <3> QED BY <2>1, <2>3, <3>2 DEF FutureRec
  <2> QED BY <2>2, <2>3
<1>7. futures' \in [Adapters -> [Submitters -> FutureRec]]
  <2>1. \A a \in Adapters : futures'[a] \in [Submitters -> FutureRec]
    <3> TAKE a \in Adapters
    <3>1. futures[a] \in [Submitters -> FutureRec]
      BY <1>1
    <3>2. futures'[a] = [w \in Submitters |-> futures'[a][w]]
      <4>1. CASE a \in as
        <5>1. futures'[a] = [futures[a] EXCEPT ![who].state = "pending"]
          BY <1>3, <4>1
        <5> QED BY <3>1, <5>1
      <4>2. CASE a \notin as
        BY <1>3, <3>1, <4>2
      <4> QED BY <4>1, <4>2
    <3> QED BY <1>6, <3>2
  <2> QED BY <1>3, <2>1
<1>8. \A a \in Adapters : \A i \in 1 .. Len(tasks'[a]) :
        \/ i \in 1 .. Len(tasks[a]) /\ tasks'[a][i] = tasks[a][i]
        \/ a \in as /\ i = Len(tasks[a]) + 1 /\ tasks'[a][i] = t
  <2> TAKE a \in Adapters
  <2> TAKE i \in 1 .. Len(tasks'[a])
  <2>1. CASE a \notin as
    <3>1. tasks'[a] = tasks[a]
      BY <1>3, <2>1
    <3> QED BY <3>1
  <2>2. CASE a \in as
    <3>1. tasks'[a] = Append(tasks[a], t)
      BY <1>3, <2>2
    <3>2. i \in 1 .. Len(tasks[a]) \/ i = Len(tasks[a]) + 1
      BY <1>4, <3>1
    <3> QED BY <1>4, <2>2, <3>1, <3>2
  <2> QED BY <2>1, <2>2
<1>9. QueuedAt(as, t) /\ PendingAt(as, who)
  BY <1>6, <1>8 DEF QueuedAt, PendingAt
<1> QED BY <1>1, <1>5, <1>7, <1>9 DEF AdapterType, t

\* The outcomes of a submitter are taken.
LEMMA Consumed ==
  ASSUME AdapterType, NEW who \in Submitters, Consume(who)
  PROVE  /\ AdapterType' /\ stored' = stored /\ tasks' = tasks
         /\ \A a \in Adapters, w \in Submitters :
              futures'[a][w] = IF w = who THEN NoFuture ELSE futures[a][w]
         /\ NoFuture.state = "none"
<1>1. /\ futures \in [Adapters -> [Submitters -> FutureRec]]
      /\ futures' = [a \in Adapters |-> [futures[a] EXCEPT ![who] = NoFuture]]
      /\ tasks' = tasks /\ stored' = stored
  BY DEF AdapterType, Consume
<1>2. NoFuture \in FutureRec /\ NoFuture.state = "none"
  BY DEF NoFuture, FutureRec
<1>3. \A a \in Adapters : futures[a] \in [Submitters -> FutureRec]
  BY <1>1
<1>4. futures' \in [Adapters -> [Submitters -> FutureRec]]
  BY <1>1, <1>2, <1>3
<1>5. \A a \in Adapters, w \in Submitters :
        futures'[a][w] = IF w = who THEN NoFuture ELSE futures[a][w]
  BY <1>1, <1>3
<1> QED BY <1>1, <1>2, <1>4, <1>5 DEF AdapterType

\* The first task of a has left its queue, and its future is resolved.
TaskOver(a, state, result) ==
  /\ tasks' \in [Adapters -> Seq(TaskRec)] /\ futures' \in [Adapters -> [Submitters -> FutureRec]]
  /\ Current(a) = tasks[a][1] /\ Current(a).who \in Submitters /\ 1 \in 1 .. Len(tasks[a])
  /\ \A b \in Adapters : b # a => tasks'[b] = tasks[b]
  /\ \A i \in 1 .. Len(tasks'[a]) : i + 1 \in 1 .. Len(tasks[a]) /\ tasks'[a][i] = tasks[a][i + 1]
  /\ \A b \in Adapters, w \in Submitters :
       futures'[b][w] = IF b = a /\ w = Current(a).who THEN [state |-> state, result |-> result]
                        ELSE futures[b][w]

\* The worker takes the task off its queue.
LEMMA Completed ==
  ASSUME AdapterType, NEW a \in Adapters, tasks[a] # <<>>, NEW state \in {"done", "failed"},
         NEW result \in Nat, Complete(a, state, result)
  PROVE  TaskOver(a, state, result)
<1>1. /\ tasks \in [Adapters -> Seq(TaskRec)] /\ futures \in [Adapters -> [Submitters -> FutureRec]]
      /\ futures' = [futures EXCEPT ![a][Current(a).who] = [state |-> state, result |-> result]]
      /\ tasks' = [tasks EXCEPT ![a] = Tail(tasks[a])]
  BY DEF AdapterType, Complete
<1> DEFINE s == tasks[a]
           f == [state |-> state, result |-> result]
<1>2. s \in Seq(TaskRec) /\ s # <<>>
  BY <1>1
<1>3. /\ Head(s) = s[1] /\ Head(s) \in TaskRec /\ 1 \in 1 .. Len(s) /\ Tail(s) \in Seq(TaskRec)
      /\ Len(Tail(s)) = Len(s) - 1 /\ Len(s) \in Nat
      /\ \A i \in 1 .. Len(Tail(s)) : Tail(s)[i] = s[i + 1]
  BY <1>2, HeadTailProperties
<1>4. Current(a) = s[1] /\ Current(a).who \in Submitters
  BY <1>3 DEF Current, TaskRec
<1>5. f \in FutureRec
  BY DEF FutureRec
<1> HIDE DEF f
<1>6. tasks' \in [Adapters -> Seq(TaskRec)] /\ tasks'[a] = Tail(s) /\ \A b \in Adapters : b # a => tasks'[b] = tasks[b]
  BY <1>1, <1>3
<1>7. \A b \in Adapters : futures[b] \in [Submitters -> FutureRec]
  BY <1>1
<1>8. futures' = [futures EXCEPT ![a][Current(a).who] = f]
  BY <1>1 DEF f
<1>9. \A b \in Adapters : futures'[b] = IF b = a THEN [futures[a] EXCEPT ![Current(a).who] = f] ELSE futures[b]
  BY <1>1, <1>8
<1>10. \A b \in Adapters : futures'[b] \in [Submitters -> FutureRec]
  BY <1>4, <1>5, <1>7, <1>9
<1>11. futures' \in [Adapters -> [Submitters -> FutureRec]]
  BY <1>1, <1>8, <1>10
<1>12. \A b \in Adapters, w \in Submitters :
         futures'[b][w] = IF b = a /\ w = Current(a).who THEN f ELSE futures[b][w]
  BY <1>4, <1>7, <1>9
<1>13. \A i \in 1 .. Len(tasks'[a]) : i + 1 \in 1 .. Len(s)
  BY <1>3, <1>6
<1>14. \A i \in 1 .. Len(tasks'[a]) : tasks'[a][i] = tasks[a][i + 1]
  BY <1>3, <1>6
<1> QED BY <1>3, <1>4, <1>6, <1>11, <1>12, <1>13, <1>14 DEF f, TaskOver

-----------------------------------------------------------------------------

(***************************************************************************)
(* The prefetch thread.                                                    *)
(***************************************************************************)

\* Types of the thread's lists.
LEMMA PfFacts ==
  ASSUME Inv
  PROVE  /\ pf \in PfRec /\ pf.missing \in Seq(Keys) /\ pf.hit \in Seq(Keys) /\ pf.load \in Seq(Keys)
         /\ pf.objs \in Seq(MemoryObj) /\ pf.loaded \in Nat /\ pf.l1 \in Nat /\ pf.l1 <= Len(pf.hit)
         /\ pf.l2_hits \in [Adapters -> Nat] /\ pf.tried \in SUBSET Adapters
         /\ AdapterType /\ order \in Seq(Keys)
<1>1. pf \in PfRec /\ pf.l1 <= Len(pf.hit) /\ AdapterType /\ order \in Seq(Keys)
  BY DEF Inv, ProtoInv, TypeInv, ThreadType
<1> QED BY <1>1 DEF PfRec

\* A queued task.
LEMMA TaskFacts ==
  ASSUME Inv, NEW a \in Adapters, NEW i \in 1 .. Len(tasks[a])
  PROVE  /\ tasks[a][i] \in TaskRec /\ tasks[a][i].who \in Submitters /\ TaskOf(a, tasks[a][i])
         /\ tasks[a][i].keys \in Seq(Keys) /\ tasks[a][i].done \in Nat
<1>1. tasks[a] \in Seq(TaskRec)
  BY DEF Inv, ProtoInv, TypeInv, AdapterType
<1>2. tasks[a][i] \in TaskRec
  BY <1>1
<1>3. TaskOf(a, tasks[a][i])
  BY DEF Inv, ProtoInv, TaskInv
<1> QED BY <1>2, <1>3 DEF TaskRec

\* What a step of the thread on its request leaves alone.
LEMMA PfFrame ==
  ASSUME Inv, UNCHANGED <<handlers, cl, lost, jobs, hits, held, storeVars, ev>>,
         pf' \in PfRec, pf'.rid = pf.rid, pf'.l1 <= Len(pf'.hit), order' \in Seq(Keys), AdapterType',
         \A h \in handlers : Writes(h) => Range(h.keys) \cap Range(pf'.load) = {},
         PfInv', PrefixInv', TaskInv', FutureInv'
  PROVE  ProtoInv'
<1>0. UNCHANGED <<handlers, cl, lost, jobs, hits, held, pending, st, ev>>
  BY DEF storeVars
<1>1. TypeInv'
  <2>1. ServerType'
    BY <1>0 DEF Inv, ProtoInv, TypeInv, ServerType
  <2>2. ThreadType'
    BY <1>0 DEF Inv, ProtoInv, TypeInv, ThreadType
  <2> QED BY <2>1, <2>2 DEF TypeInv
<1>2. OnceInv'
  BY <1>0 DEF Inv, ProtoInv, OnceInv, Queued
<1>3. AheadInv'
  BY <1>0 DEF Inv, ProtoInv, AheadInv, Ahead, AheadOf, Queued, LookedUp
<1>4. HoldInv'
  BY <1>0 DEF Inv, ProtoInv, HoldInv
<1>5. WriteInv'
  BY <1>0 DEF Inv, ProtoInv, WriteInv
<1>6. StInv'
  BY <1>0 DEF Inv, ProtoInv, StInv
<1> QED BY <1>1, <1>2, <1>3, <1>4, <1>5, <1>6 DEF ProtoInv

\* The owners when the handlers do not move.
LEMMA HandlersStay ==
  ASSUME UNCHANGED handlers
  PROVE  \A r, k : (HandlerWrites(r, k)' <=> HandlerWrites(r, k))
                   /\ (HandlerDrops(r, k)' <=> HandlerDrops(r, k))
BY DEF HandlerWrites, HandlerDrops, Writes, Drops

\* A step that leaves the chunks of the thread where they are.
LEMMA OwnersKept ==
  ASSUME UNCHANGED <<handlers, held, lost>>, pf'.rid = pf.rid, pf'.hit = pf.hit, pf'.load = pf.load,
         Range(st'.keys) = Range(st.keys)
  PROVE  Writing' = Writing /\ Holds' = Holds
<1>1. \A r \in Requests : WritingFor(r)' = WritingFor(r) /\ HeldFor(r)' = HeldFor(r)
  BY HandlersStay, OwnersStay
<1>2. Writing' = Writing
  BY <1>1, SameWriting
<1>3. \A c \in L1Clients : (IF c = StoreThread THEN Range(st'.keys) ELSE HeldFor(c)') =
                           (IF c = StoreThread THEN Range(st.keys) ELSE HeldFor(c))
  BY <1>1, Owners
<1> QED BY <1>2, <1>3, Owners

\* The adapters are asked.
LEMMA PfLookupStep ==
  ASSUME Inv, PfLookup, UNCHANGED <<handlers, cl, lost>>
  PROVE  [L1!Next]_(L1!vars) /\ ProtoInv'
<1>0. /\ pf.pc = "lookup" /\ submit(Adapters, "prefetch", "lookup", pf.missing, <<>>)
      /\ pf' = [pf EXCEPT !.pc = "lookups"]
      /\ UNCHANGED <<l1Vars, order, jobs, hits, held, storeVars, ev>>
  BY DEF PfLookup
<1>1. /\ pf \in PfRec /\ pf.missing \in Seq(Keys) /\ AdapterType /\ order \in Seq(Keys)
      /\ pf.l1 <= Len(pf.hit)
  BY PfFacts
<1>2. pf' \in PfRec /\ pf'.pc = "lookups" /\ pf'.rid = pf.rid /\ pf'.hit = pf.hit /\ pf'.load = pf.load
      /\ pf'.l1 = pf.l1 /\ pf'.missing = pf.missing /\ pf'.objs = pf.objs /\ pf'.loaded = pf.loaded
  BY <1>0, <1>1 DEF PfRec
<1> DEFINE e == <<>>
           t == Task("prefetch", "lookup", pf.missing, e)
<1>3. /\ "prefetch" \in Submitters /\ "store" \in Submitters
      /\ e \in Seq(MemoryObj) /\ Submitters = {"prefetch", "store"} /\ "lookup" \in {"store", "lookup", "load"}
      /\ submit(Adapters, "prefetch", "lookup", pf.missing, e)
  BY <1>0 DEF Submitters
<1> HIDE DEF e
<1>4. /\ AdapterType' /\ stored' = stored
      /\ \A a \in Adapters : \A i \in 1 .. Len(tasks'[a]) :
           \/ i \in 1 .. Len(tasks[a]) /\ tasks'[a][i] = tasks[a][i]
           \/ i = Len(tasks[a]) + 1 /\ tasks'[a][i] = t
      /\ \A a \in Adapters, w \in Submitters :
           IF w = "prefetch" THEN futures'[a][w].state = "pending"
           ELSE futures'[a][w] = futures[a][w]
  <2>1. AdapterType' /\ stored' = stored /\ QueuedAt(Adapters, t) /\ PendingAt(Adapters, "prefetch")
    BY <1>1, <1>3, Submitted
  <2> HIDE DEF t
  <2> QED BY <2>1 DEF QueuedAt, PendingAt
<1>5. \A a \in Adapters : \A i \in 1 .. Len(tasks[a]) :
        tasks[a][i].who = "store" /\ TaskOf(a, tasks[a][i]) /\ tasks[a][i].op = "store"
  <2> TAKE a \in Adapters
  <2> TAKE i \in 1 .. Len(tasks[a])
  <2>1. tasks[a][i].who \in Submitters
    BY TaskFacts
  <2>2. TaskOf(a, tasks[a][i])
    BY TaskFacts
  <2> QED BY <1>0, <1>3, <2>1, <2>2 DEF TaskOf
<1>6. st' = st
  BY <1>0 DEF storeVars
<1>7. t.who = "prefetch" /\ t.op = "lookup" /\ t.keys = pf.missing
  BY DEF Task
<1> HIDE DEF t
<1>8. TaskInv'
  <2>1. ASSUME NEW a \in Adapters, NEW i \in 1 .. Len(tasks'[a]) PROVE TaskOf(a, tasks[a][i])'
    <3>1. CASE i \in 1 .. Len(tasks[a]) /\ tasks'[a][i] = tasks[a][i]
      <4>1. futures'[a]["store"] = futures[a]["store"]
        BY <1>3, <1>4
      <4> QED BY <1>5, <1>6, <3>1, <4>1 DEF TaskOf
    <3>2. CASE tasks'[a][i] = t
      <4>1. futures'[a]["prefetch"].state = "pending"
        BY <1>3, <1>4
      <4> QED BY <1>2, <1>7, <3>2, <4>1 DEF TaskOf
    <3> QED BY <1>4, <3>1, <3>2 DEF t
  <2>2. ASSUME NEW a \in Adapters, NEW i \in 1 .. Len(tasks'[a]), NEW j \in 1 .. Len(tasks'[a]),
               tasks'[a][i].who = tasks'[a][j].who
        PROVE  i = j
    <3>1. \/ i \in 1 .. Len(tasks[a]) /\ tasks'[a][i] = tasks[a][i]
          \/ i = Len(tasks[a]) + 1 /\ tasks'[a][i] = t
      BY <1>4 DEF t
    <3>2. \/ j \in 1 .. Len(tasks[a]) /\ tasks'[a][j] = tasks[a][j]
          \/ j = Len(tasks[a]) + 1 /\ tasks'[a][j] = t
      BY <1>4 DEF t
    <3> QED BY <1>5, <1>7, <2>2, <3>1, <3>2 DEF Inv, ProtoInv, TaskInv
  <2> QED BY <2>1, <2>2 DEF TaskInv
<1>9. FutureInv'
  <2>1. \A a \in Adapters : futures'[a]["store"] = futures[a]["store"] /\ futures'[a]["prefetch"].state = "pending"
    BY <1>3, <1>4
  <2> QED BY <1>2, <1>6, <2>1 DEF Inv, ProtoInv, FutureInv
<1>10. PfInv' /\ PrefixInv'
  <2>1. PfInv'
    BY <1>0, <1>2 DEF Inv, ProtoInv, PfInv
  <2>2. UNCHANGED <<hits, cl>>
    BY <1>0
  <2>3. PrefixInv'
    BY <1>0, <1>2, <2>2 DEF Inv, ProtoInv, PrefixInv
  <2> QED BY <2>1, <2>3
<1>11. \A h \in handlers : Writes(h) => Range(h.keys) \cap Range(pf'.load) = {}
  BY <1>2 DEF Inv, ProtoInv, WriteInv
<1>12. ProtoInv'
  BY <1>0, <1>1, <1>2, <1>4, <1>8, <1>9, <1>10, <1>11, PfFrame
<1>13. Writing' = Writing /\ Holds' = Holds
  BY <1>0, <1>2, <1>6, OwnersKept
<1> QED BY <1>0, <1>12, <1>13, NoL1Step

\* Steps of the thread that only take the outcomes of its tasks.
LEMMA PfConsumeStep ==
  ASSUME Inv, Consume("prefetch"), UNCHANGED <<handlers, cl, lost, l1Vars, order, jobs, hits, held, storeVars, ev>>,
         \A a \in Adapters : futures[a]["prefetch"].state # "pending",
         pf' \in PfRec, pf'.rid = pf.rid, pf'.hit = pf.hit, pf'.load = pf.load, pf'.l1 = pf.l1,
         pf'.pc \in {"reserve", "resolve", "load"}, PfInv', PrefixInv'
  PROVE  [L1!Next]_(L1!vars) /\ ProtoInv'
<1>1. AdapterType /\ order \in Seq(Keys) /\ pf.l1 <= Len(pf.hit)
  BY PfFacts
<1>2. "prefetch" \in Submitters /\ "store" \in Submitters /\ Submitters = {"prefetch", "store"}
  BY DEF Submitters
<1>3. /\ AdapterType' /\ tasks' = tasks
      /\ \A a \in Adapters : futures'[a]["prefetch"].state = "none" /\ futures'[a]["store"] = futures[a]["store"]
  BY <1>1, <1>2, Consumed
<1>4. \A a \in Adapters : \A i \in 1 .. Len(tasks[a]) :
        TaskOf(a, tasks[a][i]) /\ tasks[a][i].who = "store" /\ tasks[a][i].op = "store"
  <2> TAKE a \in Adapters
  <2> TAKE i \in 1 .. Len(tasks[a])
  <2>1. tasks[a][i].who \in Submitters
    BY TaskFacts
  <2>2. TaskOf(a, tasks[a][i])
    BY TaskFacts
  <2> QED BY <1>2, <2>1, <2>2 DEF TaskOf
<1>5. st' = st
  BY DEF storeVars
<1>6. TaskInv'
  <2>1. ASSUME NEW a \in Adapters, NEW i \in 1 .. Len(tasks[a]) PROVE TaskOf(a, tasks[a][i])'
    <3>1. TaskOf(a, tasks[a][i]) /\ tasks[a][i].who = "store" /\ tasks[a][i].op = "store"
      BY <1>4
    <3>2. tasks'[a][i] = tasks[a][i] /\ futures'[a]["store"] = futures[a]["store"]
      BY <1>3
    <3> QED BY <1>5, <3>1, <3>2 DEF TaskOf
  <2> QED BY <1>3, <2>1 DEF Inv, ProtoInv, TaskInv
<1>7. FutureInv'
  BY <1>3, <1>5 DEF Inv, ProtoInv, FutureInv
<1>8. \A h \in handlers : Writes(h) => Range(h.keys) \cap Range(pf'.load) = {}
  BY DEF Inv, ProtoInv, WriteInv
<1>9. ProtoInv'
  BY <1>1, <1>3, <1>6, <1>7, <1>8, PfFrame
<1>10. Writing' = Writing /\ Holds' = Holds
  BY <1>5, OwnersKept
<1> QED BY <1>9, <1>10, NoL1Step

\* The prefetch thread has every adapter's hits.
LEMMA PfLookupsStep ==
  ASSUME Inv, PfLookups, UNCHANGED <<handlers, cl, lost>>
  PROVE  [L1!Next]_(L1!vars) /\ ProtoInv'
<1> DEFINE H == [a \in Adapters |-> futures[a]["prefetch"].result]
           pc == IF \E a \in Adapters : H[a] > 0 THEN "reserve" ELSE "resolve"
<1>0. /\ pf.pc = "lookups" /\ AllDone("prefetch") /\ Consume("prefetch")
      /\ pf' = [pf EXCEPT !.pc = pc, !.l2_hits = H]
      /\ UNCHANGED <<l1Vars, order, jobs, hits, held, storeVars, ev>>
  BY DEF PfLookups
<1>1. /\ pf \in PfRec /\ AdapterType
  BY PfFacts
<1>2. \A a \in Adapters : /\ futures[a]["prefetch"].state = "done"
                          /\ futures[a]["prefetch"].result \in Nat
                          /\ futures[a]["prefetch"].result <= Len(pf.missing)
  <2>1. \A a \in Adapters : futures[a]["prefetch"] \in FutureRec
    BY <1>1 DEF AdapterType, Submitters
  <2> QED BY <1>0, <2>1 DEF AllDone, FutureRec, Inv, ProtoInv, FutureInv
<1>3. H \in [Adapters -> Nat] /\ \A a \in Adapters : H[a] <= Len(pf.missing)
  BY <1>2
<1>4. pc \in {"reserve", "resolve"} /\ (pc = "reserve" => \E a \in Adapters : H[a] > 0)
  OBVIOUS
<1> HIDE DEF pc, H
<1>5. /\ pf' \in PfRec /\ pf'.pc = pc /\ pf'.l2_hits = H /\ pf'.rid = pf.rid /\ pf'.hit = pf.hit
      /\ pf'.load = pf.load /\ pf'.l1 = pf.l1 /\ pf'.missing = pf.missing /\ pf'.objs = pf.objs
      /\ pf'.loaded = pf.loaded
  BY <1>0, <1>1, <1>3, <1>4 DEF PfRec
<1>6. pf.load = <<>> /\ pf.loaded = 0 /\ pf.rid \in Requests /\ Len(pf.load) = 0
  BY <1>0 DEF Inv, ProtoInv, PfInv
<1>7. PfInv'
  BY <1>3, <1>4, <1>5, <1>6 DEF Inv, ProtoInv, PfInv
<1>8. PrefixInv'
  <2>1. UNCHANGED <<hits, cl>>
    BY <1>0
  <2> QED BY <1>0, <1>4, <1>5, <2>1 DEF Inv, ProtoInv, PrefixInv
<1> QED BY <1>0, <1>2, <1>4, <1>5, <1>7, <1>8, PfConsumeStep

\* The prefetch thread consumes the result of a load.
LEMMA PfLoadedStep ==
  ASSUME Inv, NEW a \in Adapters, PfLoaded(a), UNCHANGED <<handlers, cl, lost>>
  PROVE  [L1!Next]_(L1!vars) /\ ProtoInv'
<1> DEFINE n == pf.loaded + futures[a]["prefetch"].result
<1>0. /\ pf.pc = "loading" /\ futures[a]["prefetch"].state = "done" /\ Consume("prefetch")
      /\ pf' = [pf EXCEPT !.pc = "load", !.loaded = n]
      /\ UNCHANGED <<l1Vars, order, jobs, hits, held, storeVars, ev>>
  BY DEF PfLoaded
<1>1. /\ pf \in PfRec /\ AdapterType /\ pf.loaded \in Nat
  BY PfFacts
<1>2. futures[a]["prefetch"].result \in Nat
  BY <1>1 DEF AdapterType, Submitters, FutureRec
<1>3. \A b \in Adapters : futures[b]["prefetch"].state # "pending"
  BY <1>0 DEF Inv, ProtoInv, FutureInv
<1>4. n \in Nat
  BY <1>1, <1>2
<1> HIDE DEF n
<1>5. /\ pf' \in PfRec /\ pf'.pc = "load" /\ pf'.l2_hits = pf.l2_hits /\ pf'.rid = pf.rid /\ pf'.hit = pf.hit
      /\ pf'.load = pf.load /\ pf'.l1 = pf.l1 /\ pf'.missing = pf.missing /\ pf'.objs = pf.objs
  BY <1>0, <1>1, <1>4 DEF PfRec
<1>7. PfInv'
  BY <1>0, <1>5 DEF Inv, ProtoInv, PfInv
<1>8. PrefixInv'
  <2>1. UNCHANGED <<hits, cl>>
    BY <1>0
  <2> QED BY <1>0, <1>5, <2>1 DEF Inv, ProtoInv, PrefixInv
<1> QED BY <1>0, <1>3, <1>5, <1>7, <1>8, PfConsumeStep

\* The thread dies where it is.
LEMMA PfDiesStep ==
  ASSUME Inv, PfDies, UNCHANGED <<handlers, cl, lost>>
  PROVE  [L1!Next]_(L1!vars) /\ ProtoInv'
<1>0. /\ pf.pc \in {"lookups", "loading"} /\ pf' = [pf EXCEPT !.pc = "dead"]
      /\ UNCHANGED <<l1Vars, order, stored, tasks, futures, jobs, hits, held, storeVars, ev>>
  BY DEF PfDies, l2Vars
<1>1. pf \in PfRec /\ AdapterType /\ order \in Seq(Keys) /\ pf.l1 <= Len(pf.hit)
  BY PfFacts
<1>2. /\ pf' \in PfRec /\ pf'.pc = "dead" /\ pf'.l2_hits = pf.l2_hits /\ pf'.rid = pf.rid /\ pf'.hit = pf.hit
      /\ pf'.load = pf.load /\ pf'.l1 = pf.l1 /\ pf'.missing = pf.missing /\ pf'.objs = pf.objs
      /\ pf'.loaded = pf.loaded
  BY <1>0, <1>1 DEF PfRec
<1>3. PfInv'
  BY <1>0, <1>2 DEF Inv, ProtoInv, PfInv
<1>4. UNCHANGED <<hits, cl, st>>
  BY <1>0 DEF storeVars
<1>5. PrefixInv'
  BY <1>0, <1>2, <1>4 DEF Inv, ProtoInv, PrefixInv
<1>6. TaskInv'
  <2>1. ASSUME NEW a \in Adapters, NEW i \in 1 .. Len(tasks[a]) PROVE TaskOf(a, tasks[a][i])'
    <3>1. TaskOf(a, tasks[a][i])
      BY DEF Inv, ProtoInv, TaskInv
    <3> QED BY <1>0, <1>2, <1>4, <3>1 DEF TaskOf
  <2> QED BY <1>0, <2>1 DEF Inv, ProtoInv, TaskInv
<1>7. FutureInv'
  BY <1>0, <1>2, <1>4 DEF Inv, ProtoInv, FutureInv
<1>8. AdapterType'
  BY <1>0, <1>1 DEF AdapterType
<1>9. \A h \in handlers : Writes(h) => Range(h.keys) \cap Range(pf'.load) = {}
  BY <1>2 DEF Inv, ProtoInv, WriteInv
<1>10. ProtoInv'
  BY <1>0, <1>1, <1>2, <1>3, <1>5, <1>6, <1>7, <1>8, <1>9, PfFrame
<1>11. Writing' = Writing /\ Holds' = Holds
  BY <1>0, <1>2, <1>4, OwnersKept
<1> QED BY <1>0, <1>10, <1>11, NoL1Step

\* Between its tasks the thread has none in the queues.
LEMMA PfTasksStay ==
  ASSUME Inv, UNCHANGED <<tasks, futures, st>>, pf.pc \notin {"lookups", "loading", "dead"},
         pf'.pc \notin {"lookups", "loading", "dead"}
  PROVE  TaskInv' /\ FutureInv'
<1>1. TaskInv'
  <2>1. ASSUME NEW a \in Adapters, NEW i \in 1 .. Len(tasks[a]) PROVE TaskOf(a, tasks[a][i])'
    <3>1. TaskOf(a, tasks[a][i]) /\ tasks[a][i].who \in {"prefetch", "store"}
      BY TaskFacts DEF Submitters
    <3> QED BY <3>1 DEF TaskOf
  <2> QED BY <2>1 DEF Inv, ProtoInv, TaskInv
<1>2. FutureInv'
  BY DEF Inv, ProtoInv, FutureInv
<1> QED BY <1>1, <1>2

\* A set of numbers with an upper bound has a greatest one.
LEMMA GreatestNat ==
  ASSUME NEW S, S \subseteq Nat, S # {}, NEW b \in Nat, \A x \in S : x <= b
  PROVE  Max(S) \in S /\ \A x \in S : x <= Max(S)
<1> DEFINE T == {n \in Nat : \A x \in S : x <= n}
<1>1. PICK m \in T : \A y \in T : ~(y < m)
  <2>1. T \subseteq Nat /\ b \in T
    OBVIOUS
  <2> QED BY <2>1, LeastNat
<1>2. m \in Nat /\ \A x \in S : x \in Nat /\ x <= m
  BY <1>1
<1>3. m \in S
  <2> SUFFICES ASSUME m \notin S PROVE FALSE
    OBVIOUS
  <2>1. \A x \in S : x < m
    BY <1>2
  <2>2. m # 0
    <3>1. PICK x \in S : TRUE
      OBVIOUS
    <3>2. x \in Nat /\ x < m
      BY <1>2, <2>1
    <3> QED BY <1>2, <3>2
  <2>3. m - 1 \in Nat /\ \A x \in S : x <= m - 1
    BY <1>2, <2>1, <2>2
  <2>4. m - 1 \in T
    BY <2>3
  <2> HIDE DEF T
  <2>5. ~(m - 1 < m)
    BY <1>1, <2>4
  <2> QED BY <1>2, <2>5
<1>4. \E x \in S : \A y \in S : x >= y
  BY <1>2, <1>3
<1>5. Max(S) \in S /\ \A y \in S : Max(S) >= y
  BY <1>4 DEF Max
<1> QED BY <1>2, <1>5

\* The next chunk to load.
LEMMA NextLoadFacts ==
  ASSUME Inv, pf.pc = "reserve"
  PROVE  /\ Len(pf.load) + 1 \in 1 .. Len(pf.missing) /\ NextLoad \in Keys
         /\ Len(pf.load) + 1 <= MostHits /\ \E a \in Adapters : pf.l2_hits[a] = MostHits
<1> DEFINE S == {pf.l2_hits[a] : a \in Adapters}
<1>1. /\ pf.missing \in Seq(Keys) /\ pf.load \in Seq(Keys) /\ pf.l2_hits \in [Adapters -> Nat]
  BY PfFacts
<1>2. /\ \A a \in Adapters : pf.l2_hits[a] <= Len(pf.missing)
      /\ \E a \in Adapters : Len(pf.load) < pf.l2_hits[a]
  BY DEF Inv, ProtoInv, PfInv
<1>3. S \subseteq Nat /\ S # {} /\ Len(pf.missing) \in Nat /\ \A x \in S : x <= Len(pf.missing)
  BY <1>1, <1>2
<1>4. Max(S) \in S /\ \A x \in S : x <= Max(S)
  BY <1>3, GreatestNat
<1>5. MostHits = Max(S)
  BY DEF MostHits
<1>6. PICK a \in Adapters : Len(pf.load) < pf.l2_hits[a]
  BY <1>2
<1>7. /\ pf.l2_hits[a] \in Nat /\ Len(pf.load) \in Nat /\ pf.l2_hits[a] <= Len(pf.missing)
      /\ Len(pf.missing) \in Nat /\ pf.l2_hits[a] \in S
  BY <1>1, <1>2
<1>8. \E c \in Adapters : pf.l2_hits[c] = MostHits
  BY <1>4, <1>5
<1>9. MostHits \in Nat /\ pf.l2_hits[a] <= MostHits
  BY <1>3, <1>4, <1>5, <1>7
<1> HIDE DEF S
<1>10. Len(pf.load) + 1 \in 1 .. Len(pf.missing) /\ Len(pf.load) + 1 <= MostHits
  BY <1>6, <1>7, <1>9
<1> QED BY <1>1, <1>8, <1>10 DEF NextLoad

\* A slot is reserved.
LEMMA PfReserveStep ==
  ASSUME Inv, PfReserve, UNCHANGED <<handlers, cl, lost>>
  PROVE  [L1!Next]_(L1!vars) /\ ProtoInv'
<1> DEFINE k == NextLoad
           L == Append(pf.load, NextLoad)
           o == entries'[NextLoad].obj
           O == Append(pf.objs, entries'[NextLoad].obj)
           pc == IF Len(pf.load) + 1 = MostHits THEN "load" ELSE "reserve"
<1>0. /\ pf.pc = "reserve" /\ k \notin DOMAIN entries /\ reserve_write({k}, ChunkNBytes, TRUE)
      /\ pf' = [pf EXCEPT !.load = L, !.objs = O, !.pc = pc]
      /\ UNCHANGED <<order, stored, tasks, futures, jobs, hits, held, storeVars, ev>>
  BY DEF PfReserve, l2Vars
<1>1. /\ pf \in PfRec /\ AdapterType /\ order \in Seq(Keys) /\ pf.l1 <= Len(pf.hit)
      /\ pf.load \in Seq(Keys) /\ pf.objs \in Seq(MemoryObj) /\ pf.missing \in Seq(Keys)
      /\ pf.l2_hits \in [Adapters -> Nat]
  BY PfFacts
<1>2. k \in Keys /\ Len(pf.load) + 1 \in 1 .. Len(pf.missing)
  BY <1>0, NextLoadFacts
<1>3. pf.rid \in Requests /\ IsInjective(pf.load)
  BY <1>0 DEF Inv, ProtoInv, PfInv
<1>r. PICK r \in Requests : r = pf.rid
  BY <1>3
<1>4. k \notin Range(pf.load)
  BY <1>0, WrittenHasEntry
<1>5. L \in Seq(Keys) /\ Len(L) = Len(pf.load) + 1 /\ Range(L) = Range(pf.load) \cup {k} /\ IsInjective(L)
  BY <1>1, <1>2, <1>3, <1>4, Appended
<1>6. /\ \A i \in 1 .. Len(pf.load) : L[i] = pf.load[i]
      /\ L[Len(pf.load) + 1] = k
  BY <1>1, <1>2, AppendProperties
<1>7. pc \in {"load", "reserve"}
  OBVIOUS
<1>8. pf'.load = L /\ pf'.rid = pf.rid /\ pf'.hit = pf.hit
  BY <1>0, <1>1 DEF PfRec
<1>9. st' = st /\ UNCHANGED <<hits, cl>>
  BY <1>0 DEF storeVars
<1>10. Missing({k}) = {k}
  BY <1>0 DEF Missing
<1> HIDE DEF k, L, O, pc
<1>11. WritingFor(r)' = WritingFor(r) \cup {k}
  <2>1. \A x : x \in WritingFor(r)' <=> x \in WritingFor(r) \/ x = k
    BY <1>r, <1>5, <1>8, HandlersStay, WritingIs, WritingIsNext
  <2> QED BY <2>1
<1>12. \A q \in Requests : q # r => WritingFor(q)' = WritingFor(q)
  <2> TAKE q \in Requests
  <2> HAVE q # r
  <2>1. \A x : x \in WritingFor(q)' <=> x \in WritingFor(q)
    BY <1>r, <1>8, HandlersStay, WritingIs, WritingIsNext
  <2> QED BY <2>1
<1>13. \A q \in Requests : HeldFor(q)' = HeldFor(q)
  <2> TAKE q \in Requests
  <2>1. \A x : x \in HeldFor(q)' <=> x \in HeldFor(q)
    BY <1>0, <1>8, HandlersStay, HeldIs, HeldIsNext
  <2> QED BY <2>1
<1>14. [L1!Next]_(L1!vars)
  <2>1. Holds' = Holds
    BY <1>9, <1>13, SameHolds
  <2>2. Writing' = [Writing EXCEPT ![r] = WritingFor(r) \cup {k}] /\ r \in L1Clients /\ Writing[r] = WritingFor(r)
    BY <1>3, <1>11, <1>12, WritingChanges
  <2>3. {k} \in SUBSET Keys /\ TRUE \in BOOLEAN
    BY <1>2
  <2> QED BY <1>0, <1>10, <2>1, <2>2, <2>3, DoReserveWrite
<1>15. o \in MemoryObj
  <2>1. L1!IInv /\ [L1!Next]_(L1!vars)
    BY <1>14 DEF Inv
  <2>2. entries' \in [DOMAIN entries' -> Entry]
    BY <2>1, EntriesTyped
  <2>3. k \in DOMAIN entries'
    BY <1>0, ReservedEntries
  <2> QED BY <2>2, <2>3 DEF Entry, k
<1>16. O \in Seq(MemoryObj)
  BY <1>1, <1>15 DEF O
<1>17. /\ pf' \in PfRec /\ pf'.pc = pc /\ pf'.l2_hits = pf.l2_hits /\ pf'.l1 = pf.l1
       /\ pf'.missing = pf.missing /\ pf'.loaded = pf.loaded
  BY <1>0, <1>1, <1>5, <1>7, <1>16 DEF PfRec
<1>18. PfInv'
  <2>1. ASSUME pc = "reserve" PROVE \E a \in Adapters : Len(L) < pf.l2_hits[a]
    <3>1. Len(pf.load) + 1 <= MostHits /\ Len(pf.load) + 1 # MostHits
      BY <1>0, <2>1, NextLoadFacts DEF pc
    <3>2. PICK a \in Adapters : pf.l2_hits[a] = MostHits
      BY <1>0, NextLoadFacts
    <3>3. MostHits \in Nat /\ Len(pf.load) \in Nat
      BY <1>1, <3>2
    <3>4. Len(L) < pf.l2_hits[a]
      BY <1>5, <3>1, <3>2, <3>3
    <3> QED BY <3>4
  <2> QED BY <1>0, <1>5, <1>7, <1>8, <1>17, <2>1 DEF Inv, ProtoInv, PfInv
<1>19. PrefixInv'
  <2>1. Begins(pf.load, pf.missing)
    BY <1>0 DEF Inv, ProtoInv, PrefixInv
  <2>2. Begins(L, pf.missing)
    <3>1. \A i \in 1 .. Len(L) : i \in 1 .. Len(pf.load) \/ i = Len(pf.load) + 1
      BY <1>1, <1>5
    <3>2. k = pf.missing[Len(pf.load) + 1]
      BY DEF k, NextLoad
    <3> QED BY <1>2, <1>5, <1>6, <2>1, <3>1, <3>2 DEF Begins
  <2> QED BY <1>0, <1>7, <1>8, <1>9, <1>17, <2>2 DEF Inv, ProtoInv, PrefixInv
<1>20. TaskInv' /\ FutureInv'
  BY <1>0, <1>7, <1>9, <1>17, PfTasksStay
<1>21. \A h \in handlers : Writes(h) => Range(h.keys) \cap Range(pf'.load) = {}
  <2>1. \A h \in handlers : Writes(h) => k \notin Range(h.keys)
    BY <1>0, WrittenHasEntry
  <2> QED BY <1>5, <1>8, <2>1 DEF Inv, ProtoInv, WriteInv
<1>22. AdapterType'
  BY <1>0, <1>1 DEF AdapterType
<1>23. ProtoInv'
  BY <1>0, <1>1, <1>8, <1>17, <1>18, <1>19, <1>20, <1>21, <1>22, PfFrame
<1> QED BY <1>14, <1>23

\* A step of the thread that only moves it on.
LEMMA PfMove ==
  ASSUME Inv, NEW pc \in {"resolve", "load", "unhold"}, pf' = [pf EXCEPT !.pc = pc],
         pf.pc \in {"reserve", "resolve"}, pc = "load" => pf.pc = "reserve",
         pc \in {"resolve", "unhold"} => pf.load = <<>>,
         UNCHANGED <<handlers, cl, lost, order, stored, tasks, futures, jobs, hits, held, storeVars, ev>>
  PROVE  ProtoInv' /\ Writing' = Writing /\ Holds' = Holds
<1>1. /\ pf \in PfRec /\ AdapterType /\ order \in Seq(Keys) /\ pf.l1 <= Len(pf.hit)
  BY PfFacts
<1>2. /\ pf' \in PfRec /\ pf'.pc = pc /\ pf'.l2_hits = pf.l2_hits /\ pf'.rid = pf.rid /\ pf'.hit = pf.hit
      /\ pf'.load = pf.load /\ pf'.l1 = pf.l1 /\ pf'.missing = pf.missing /\ pf'.objs = pf.objs
      /\ pf'.loaded = pf.loaded
  BY <1>1 DEF PfRec
<1>3. UNCHANGED <<hits, cl, st>>
  BY DEF storeVars
<1>4. PfInv'
  BY <1>2 DEF Inv, ProtoInv, PfInv
<1>5. PrefixInv'
  BY <1>2, <1>3 DEF Inv, ProtoInv, PrefixInv
<1>6. TaskInv' /\ FutureInv'
  BY <1>2, <1>3, PfTasksStay
<1>7. \A h \in handlers : Writes(h) => Range(h.keys) \cap Range(pf'.load) = {}
  BY <1>2 DEF Inv, ProtoInv, WriteInv
<1>8. AdapterType'
  BY <1>1 DEF AdapterType
<1>9. ProtoInv'
  BY <1>1, <1>2, <1>4, <1>5, <1>6, <1>7, <1>8, PfFrame
<1> QED BY <1>2, <1>3, <1>9, OwnersKept

\* The prefetch thread reserves no more.
LEMMA PfReserveStopsStep ==
  ASSUME Inv, PfReserveStops, UNCHANGED <<handlers, cl, lost>>
  PROVE  [L1!Next]_(L1!vars) /\ ProtoInv'
<1> DEFINE pc == IF pf.load = <<>> THEN "resolve" ELSE "load"
<1>0. /\ pf.pc = "reserve" /\ pf' = [pf EXCEPT !.pc = pc]
      /\ UNCHANGED <<order, stored, tasks, futures, jobs, hits, held, storeVars, ev>>
      /\ UNCHANGED l1Vars \/ reserve_write_none({NextLoad}, ChunkNBytes)
  BY DEF PfReserveStops, l2Vars
<1>1. pc \in {"resolve", "load"} /\ (pc = "resolve" => pf.load = <<>>)
  OBVIOUS
<1> HIDE DEF pc
<1>2. ProtoInv' /\ Writing' = Writing /\ Holds' = Holds
  BY <1>0, <1>1, PfMove
<1>3. {NextLoad} \in SUBSET Keys
  BY <1>0, NextLoadFacts
<1> QED BY <1>0, <1>2, <1>3, NoL1Step, DoReserveWriteNone

\* An adapter is asked for the chunks that are still to be loaded.
LEMMA PfLoadStep ==
  ASSUME Inv, NEW c \in Adapters, PfLoad(c), UNCHANGED <<handlers, cl, lost>>
  PROVE  [L1!Next]_(L1!vars) /\ ProtoInv'
<1> DEFINE K == After(pf.loaded, pf.load)
           O == After(pf.loaded, pf.objs)
           t == Task("prefetch", "load", K, O)
<1>0. /\ pf.pc = "load" /\ pf.loaded < Len(pf.load) /\ submit({c}, "prefetch", "load", K, O)
      /\ pf' = [pf EXCEPT !.pc = "loading", !.tried = @ \cup {c}]
      /\ UNCHANGED <<l1Vars, order, jobs, hits, held, storeVars, ev>>
  BY DEF PfLoad, Best, Useful
<1>1. /\ pf \in PfRec /\ AdapterType /\ order \in Seq(Keys) /\ pf.l1 <= Len(pf.hit)
      /\ pf.load \in Seq(Keys) /\ pf.objs \in Seq(MemoryObj) /\ pf.loaded \in Nat
      /\ pf.tried \in SUBSET Adapters
  BY PfFacts
<1>2. pf.loaded <= Len(pf.load) /\ pf.loaded <= Len(pf.objs) /\ Len(pf.load) \in Nat /\ Len(pf.objs) \in Nat
  BY <1>0, <1>1 DEF Inv, DataInv, PfData, Slices
<1>3. K \in Seq(Keys) /\ Len(K) = Len(pf.load) - pf.loaded
  BY <1>1, <1>2, RestOf
<1>4. O \in Seq(MemoryObj)
  BY <1>1, <1>2, RestOf
<1>5. pf' \in PfRec /\ pf'.pc = "loading" /\ pf'.rid = pf.rid /\ pf'.hit = pf.hit /\ pf'.load = pf.load
      /\ pf'.l1 = pf.l1 /\ pf'.missing = pf.missing /\ pf'.objs = pf.objs /\ pf'.loaded = pf.loaded
      /\ pf'.l2_hits = pf.l2_hits
  BY <1>0, <1>1 DEF PfRec
<1>6. "prefetch" \in Submitters /\ "store" \in Submitters /\ Submitters = {"prefetch", "store"}
  BY DEF Submitters
<1>7. /\ t.who = "prefetch" /\ t.op = "load" /\ t.keys = K /\ t.objs = O /\ t.done = 0
      /\ t.done < Len(t.keys)
  <2> HIDE DEF K, O
  <2>1. t.who = "prefetch" /\ t.op = "load" /\ t.keys = K /\ t.objs = O /\ t.done = 0
    BY DEF Task
  <2>2. 0 < Len(K)
    BY <1>0, <1>1, <1>2, <1>3
  <2> QED BY <2>1, <2>2
<1>8. AdapterType' /\ stored' = stored /\ QueuedAt({c}, t) /\ PendingAt({c}, "prefetch")
  BY <1>0, <1>1, <1>3, <1>4, <1>6, Submitted
<1>9. K' = K /\ O' = O
  BY <1>5 DEF After
<1> HIDE DEF K, O, t
<1>10. /\ \A a \in Adapters : \A i \in 1 .. Len(tasks'[a]) :
            \/ i \in 1 .. Len(tasks[a]) /\ tasks'[a][i] = tasks[a][i]
            \/ a = c /\ i = Len(tasks[a]) + 1 /\ tasks'[a][i] = t
       /\ \A a \in Adapters, w \in Submitters :
            IF a = c /\ w = "prefetch" THEN futures'[a][w].state = "pending"
            ELSE futures'[a][w] = futures[a][w]
  BY <1>8 DEF QueuedAt, PendingAt
<1>11. \A a \in Adapters : \A i \in 1 .. Len(tasks[a]) :
         tasks[a][i].who = "store" /\ TaskOf(a, tasks[a][i]) /\ tasks[a][i].op = "store"
  <2> TAKE a \in Adapters
  <2> TAKE i \in 1 .. Len(tasks[a])
  <2>1. tasks[a][i].who \in Submitters
    BY TaskFacts
  <2>2. TaskOf(a, tasks[a][i])
    BY TaskFacts
  <2> QED BY <1>0, <1>6, <2>1, <2>2 DEF TaskOf
<1>12. st' = st
  BY <1>0 DEF storeVars
<1>13. TaskInv'
  <2>1. ASSUME NEW a \in Adapters, NEW i \in 1 .. Len(tasks'[a]) PROVE TaskOf(a, tasks[a][i])'
    <3>1. CASE i \in 1 .. Len(tasks[a]) /\ tasks'[a][i] = tasks[a][i]
      <4>1. futures'[a]["store"] = futures[a]["store"]
        BY <1>6, <1>10
      <4>2. TaskOf(a, tasks[a][i]) /\ tasks[a][i].who = "store" /\ tasks[a][i].op = "store"
        BY <1>11, <3>1
      <4> QED BY <1>12, <3>1, <4>1, <4>2 DEF TaskOf
    <3>2. CASE a = c /\ tasks'[a][i] = t
      <4>1. futures'[a]["prefetch"].state = "pending"
        BY <1>6, <1>10, <3>2
      <4>2. t.keys = K' /\ t.objs = O'
        BY <1>7, <1>9
      <4>3. t.keys = After(pf'.loaded, pf'.load) /\ t.objs = After(pf'.loaded, pf'.objs)
        BY <4>2 DEF K, O
      <4> QED BY <1>5, <1>7, <3>2, <4>1, <4>3 DEF TaskOf
    <3> QED BY <1>10, <3>1, <3>2
  <2>2. ASSUME NEW a \in Adapters, NEW i \in 1 .. Len(tasks'[a]), NEW j \in 1 .. Len(tasks'[a]),
               tasks'[a][i].who = tasks'[a][j].who
        PROVE  i = j
    <3>1. \/ i \in 1 .. Len(tasks[a]) /\ tasks'[a][i] = tasks[a][i]
          \/ i = Len(tasks[a]) + 1 /\ tasks'[a][i] = t
      BY <1>10
    <3>2. \/ j \in 1 .. Len(tasks[a]) /\ tasks'[a][j] = tasks[a][j]
          \/ j = Len(tasks[a]) + 1 /\ tasks'[a][j] = t
      BY <1>10
    <3>3. CASE i \in 1 .. Len(tasks[a]) /\ j \in 1 .. Len(tasks[a])
      <4>1. tasks'[a][i] = tasks[a][i] /\ tasks'[a][j] = tasks[a][j]
        BY <1>7, <1>11, <2>2, <3>1, <3>2, <3>3
      <4> QED BY <2>2, <3>3, <4>1 DEF Inv, ProtoInv, TaskInv
    <3> QED BY <1>7, <1>11, <2>2, <3>1, <3>2, <3>3
  <2> QED BY <2>1, <2>2 DEF TaskInv
<1>14. FutureInv'
  <2>1. \A a \in Adapters : futures[a]["prefetch"].state = "none"
    BY <1>0 DEF Inv, ProtoInv, FutureInv
  <2>2. \A a \in Adapters : futures'[a]["store"] = futures[a]["store"]
    BY <1>6, <1>10
  <2>3. \A a \in Adapters : a # c => futures'[a]["prefetch"].state = "none"
    BY <1>6, <1>10, <2>1
  <2> QED BY <1>5, <1>12, <2>2, <2>3 DEF Inv, ProtoInv, FutureInv
<1>15. PfInv'
  BY <1>0, <1>5 DEF Inv, ProtoInv, PfInv
<1>16. PrefixInv'
  <2>1. UNCHANGED <<hits, cl>>
    BY <1>0
  <2> QED BY <1>0, <1>5, <2>1 DEF Inv, ProtoInv, PrefixInv
<1>17. \A h \in handlers : Writes(h) => Range(h.keys) \cap Range(pf'.load) = {}
  BY <1>5 DEF Inv, ProtoInv, WriteInv
<1>18. ProtoInv'
  BY <1>0, <1>1, <1>5, <1>8, <1>13, <1>14, <1>15, <1>16, <1>17, PfFrame
<1>19. Writing' = Writing /\ Holds' = Holds
  BY <1>0, <1>5, <1>12, OwnersKept
<1> QED BY <1>0, <1>18, <1>19, NoL1Step

\* The loaded chunks become readable and held.
LEMMA PfPublishStep ==
  ASSUME Inv, PfPublish, UNCHANGED <<handlers, cl, lost>>
  PROVE  [L1!Next]_(L1!vars) /\ ProtoInv'
<1> DEFINE F == First(pf.loaded, pf.load)
           E == After(pf.loaded, pf.load)
           H == pf.hit \o First(pf.loaded, pf.load)
           pc == IF E = <<>> THEN "resolve" ELSE "discard"
<1>0. /\ pf.pc = "load" /\ finish_write_and_reserve_read(Range(F)) /\ on_created(F)
      /\ pf' = [pf EXCEPT !.pc = pc, !.hit = H, !.load = E]
      /\ UNCHANGED <<stored, tasks, futures, jobs, hits, held, storeVars, ev>>
  BY DEF PfPublish, l2Vars
<1>1. /\ pf \in PfRec /\ AdapterType /\ order \in Seq(Keys) /\ pf.l1 <= Len(pf.hit)
      /\ pf.load \in Seq(Keys) /\ pf.objs \in Seq(MemoryObj) /\ pf.loaded \in Nat
      /\ pf.hit \in Seq(Keys) /\ pf.missing \in Seq(Keys) /\ pf.l1 \in Nat
  BY PfFacts
<1>2. /\ pf.loaded <= Len(pf.load) /\ Len(pf.load) \in Nat
      /\ Slices(pf.objs, pf.load) /\ FilledTo(pf.objs, pf.load, pf.loaded)
  BY <1>0, <1>1 DEF Inv, DataInv, PfData, FilledTo
<1>3. pf.rid \in Requests /\ IsInjective(pf.load) /\ IsInjective(pf.hit)
  BY <1>0 DEF Inv, ProtoInv, PfInv
<1>4. PICK r \in Requests : r = pf.rid
  BY <1>3
<1>5. /\ F \in Seq(Keys) /\ Len(F) = pf.loaded /\ \A i \in 1 .. pf.loaded : F[i] = pf.load[i]
      /\ \A x : x \in Range(F) <=> \E i \in 1 .. pf.loaded : pf.load[i] = x
      /\ IsInjective(F)
  <2>1. pf.load \in Seq(Keys) /\ pf.loaded \in Nat /\ pf.loaded <= Len(pf.load)
    BY <1>1, <1>2
  <2>2. F \in Seq(Keys) /\ Len(F) = pf.loaded /\ (IsInjective(pf.load) => IsInjective(F))
    BY <2>1, FirstOf
  <2>3. \A i \in 1 .. pf.loaded : F[i] = pf.load[i]
    BY <2>1, FirstOf
  <2>4. \A x : x \in Range(F) <=> \E i \in 1 .. pf.loaded : pf.load[i] = x
    BY <2>1, FirstOf
  <2> QED BY <1>3, <2>2, <2>3, <2>4
<1>6. E \in Seq(Keys) /\ Len(E) = Len(pf.load) - pf.loaded /\ IsInjective(E)
  BY <1>1, <1>2, <1>3, RestOf
<1>7. pc \in {"resolve", "discard"} /\ (pc = "resolve" => E = <<>>)
  OBVIOUS
<1>8. H = pf.hit \o F
  OBVIOUS
<1>9. Range(E) = Range(pf.load) \ Range(F) /\ Range(F) \subseteq Range(pf.load)
  BY <1>1, <1>2, <1>3, SplitList
<1> HIDE DEF F, E, H, pc
<1>10. \A k \in Range(pf.load) : k \in WritingFor(r) /\ k \in DOMAIN entries /\ entries[k].write_locked
  <2> TAKE k \in Range(pf.load)
  <2>1. k \in WritingFor(r)
    BY <1>4, WritingIs
  <2>2. r \in L1Clients /\ Writing[r] = WritingFor(r)
    BY Owners
  <2> QED BY <2>1, <2>2, ContractFacts DEF Inv
<1>11. \A k \in Range(pf.hit) : readable(k)
  <2> TAKE k \in Range(pf.hit)
  <2>1. k \in HeldFor(r)
    BY <1>4, HeldIs
  <2>2. r \in L1Clients /\ Holds[r] = HeldFor(r)
    BY Owners
  <2> QED BY <2>1, <2>2, ContractFacts DEF Inv
<1>12. Range(pf.hit) \cap Range(F) = {}
  BY <1>9, <1>10, <1>11 DEF readable
<1>13. H \in Seq(Keys) /\ Len(H) = Len(pf.hit) + Len(F) /\ Range(H) = Range(pf.hit) \cup Range(F) /\ IsInjective(H)
  <2>1. /\ pf.hit \o F \in Seq(Keys) /\ Len(pf.hit \o F) = Len(pf.hit) + Len(F)
        /\ Range(pf.hit \o F) = Range(pf.hit) \cup Range(F)
        /\ IsInjective(pf.hit) /\ IsInjective(F) /\ Range(pf.hit) \cap Range(F) = {} => IsInjective(pf.hit \o F)
    BY <1>1, <1>5, Joined
  <2> QED BY <1>3, <1>5, <1>8, <1>12, <2>1
<1>14. /\ pf' \in PfRec /\ pf'.pc = pc /\ pf'.l2_hits = pf.l2_hits /\ pf'.l1 = pf.l1 /\ pf'.rid = pf.rid
       /\ pf'.missing = pf.missing /\ pf'.loaded = pf.loaded /\ pf'.load = E /\ pf'.hit = H
  BY <1>0, <1>1, <1>6, <1>7, <1>13 DEF PfRec
<1>15. pf'.l1 <= Len(pf'.hit)
  BY <1>1, <1>5, <1>13, <1>14
<1>16. order' \in Seq(Keys)
  <2>1. Without(order, Range(F)) \in Seq(Keys) /\ Reverse(F) \in Seq(Keys)
    BY <1>1, <1>5, WithoutKeeps, Reversed
  <2> QED BY <1>0, <2>1 DEF on_created
<1>17. UNCHANGED <<hits, cl, st>>
  BY <1>0 DEF storeVars
<1>18. [L1!Next]_(L1!vars)
  <2>1. WritingFor(r)' = WritingFor(r) \ Range(F)
    <3>1. \A k : HandlerWrites(r, k) => k \notin Range(F)
      BY <1>9 DEF Inv, ProtoInv, WriteInv, HandlerWrites
    <3>2. \A x : x \in WritingFor(r)' <=> x \in WritingFor(r) /\ x \notin Range(F)
      BY <1>4, <1>9, <1>14, <3>1, HandlersStay, WritingIs, WritingIsNext
    <3> QED BY <3>2
  <2>2. \A q \in Requests : q # r => WritingFor(q)' = WritingFor(q)
    <3> TAKE q \in Requests
    <3> HAVE q # r
    <3>1. \A x : x \in WritingFor(q)' <=> x \in WritingFor(q)
      BY <1>4, <1>14, HandlersStay, WritingIs, WritingIsNext
    <3> QED BY <3>1
  <2>3. HeldFor(r)' = HeldFor(r) \cup Range(F)
    <3>1. \A x : x \in HeldFor(r)' <=> x \in HeldFor(r) \/ x \in Range(F)
      BY <1>0, <1>4, <1>13, <1>14, HandlersStay, HeldIs, HeldIsNext
    <3> QED BY <3>1
  <2>4. \A q \in Requests : q # r => HeldFor(q)' = HeldFor(q)
    <3> TAKE q \in Requests
    <3> HAVE q # r
    <3>1. \A x : x \in HeldFor(q)' <=> x \in HeldFor(q)
      BY <1>0, <1>4, <1>14, HandlersStay, HeldIs, HeldIsNext
    <3> QED BY <3>1
  <2>5. Writing' = [Writing EXCEPT ![r] = Writing[r] \ Range(F)] /\ r \in L1Clients /\ Writing[r] = WritingFor(r)
    BY <2>1, <2>2, WritingChanges
  <2>6. Holds' = [Holds EXCEPT ![r] = Holds[r] \cup Range(F)]
    BY <1>17, <2>3, <2>4, HoldsChange
  <2>7. Range(F) \in SUBSET Keys
    BY <1>5, RangeOf
  <2>8. \A k \in Range(F) : HasBytes(entries[k].obj, k)
    <3> TAKE k \in Range(F)
    <3>1. PICK i \in 1 .. pf.loaded : pf.load[i] = k
      BY <1>5
    <3>2. i \in 1 .. Len(pf.load)
      BY <1>1, <1>2
    <3>3. pf.objs[i] = entries[k].obj /\ HasBytes(pf.objs[i], k)
      BY <1>2, <3>1, <3>2 DEF Slices, FilledTo
    <3> QED BY <3>3
  <2>9. Range(F) \subseteq Writing[r]
    BY <1>9, <1>10, <2>5
  <2> QED BY <1>0, <2>5, <2>6, <2>7, <2>8, <2>9, DoPublish
<1>19. PfInv'
  BY <1>6, <1>7, <1>13, <1>14, <1>3 DEF Inv, ProtoInv, PfInv
<1>20. PrefixInv'
  <2>1. /\ Begins(pf.hit, LookupKeys(pf.rid)) /\ Len(pf.hit) + Len(pf.missing) <= Len(LookupKeys(pf.rid))
        /\ \A i \in 1 .. Len(pf.missing) : pf.missing[i] = LookupKeys(pf.rid)[Len(pf.hit) + i]
        /\ Begins(pf.load, pf.missing)
    BY <1>0 DEF Inv, ProtoInv, PrefixInv
  <2>2. Begins(H, LookupKeys(pf.rid))
    <3>1. Len(pf.hit) \in Nat /\ Len(pf.missing) \in Nat /\ Len(LookupKeys(pf.rid)) \in Nat
      BY <1>1, <1>3, LookupKey
    <3>0. Len(pf.load) <= Len(pf.missing)
      BY <2>1 DEF Begins
    <3>4. pf.loaded \in Nat /\ pf.loaded <= Len(pf.load) /\ Len(pf.load) \in Nat
      BY <1>1, <1>2
    <3>5. Len(H) = Len(pf.hit) + pf.loaded
      BY <1>5, <1>13
    <3>6. Len(pf.hit) + Len(pf.missing) <= Len(LookupKeys(pf.rid))
      BY <2>1
    <3>2. Len(H) <= Len(LookupKeys(pf.rid))
      <4> DEFINE a == Len(pf.hit)
                 b == pf.loaded
                 c == Len(pf.load)
                 d == Len(pf.missing)
                 e == Len(LookupKeys(pf.rid))
      <4>1. a \in Nat /\ b \in Nat /\ c \in Nat /\ d \in Nat /\ e \in Nat /\ b <= c /\ c <= d /\ a + d <= e
        BY <3>0, <3>1, <3>4, <3>6
      <4> HIDE DEF a, b, c, d, e
      <4>2. a + b <= e
        BY <4>1
      <4>3. Len(H) = a + b
        BY <3>5 DEF a, b
      <4> QED BY <4>2, <4>3 DEF e
    <3>3. ASSUME NEW i \in 1 .. Len(H) PROVE H[i] = LookupKeys(pf.rid)[i]
      <4>1. H[i] = IF i <= Len(pf.hit) THEN pf.hit[i] ELSE F[i - Len(pf.hit)]
        BY <1>1, <1>5, <1>8, <1>13, ConcatProperties
      <4>2. CASE i <= Len(pf.hit)
        <5>1. i \in 1 .. Len(pf.hit)
          BY <1>13, <3>1, <4>2
        <5> QED BY <2>1, <4>1, <4>2, <5>1 DEF Begins
      <4>3. CASE ~(i <= Len(pf.hit))
        <5>1. i - Len(pf.hit) \in 1 .. pf.loaded
          BY <1>1, <1>5, <1>13, <3>1, <4>3
        <5>2. i - Len(pf.hit) \in 1 .. Len(pf.load) /\ i - Len(pf.hit) \in 1 .. Len(pf.missing)
          BY <3>0, <3>1, <3>4, <5>1
        <5>3. H[i] = pf.missing[i - Len(pf.hit)]
          BY <1>5, <2>1, <4>1, <4>3, <5>1, <5>2 DEF Begins
        <5>4. Len(pf.hit) + (i - Len(pf.hit)) = i
          BY <1>13, <3>1
        <5> QED BY <2>1, <5>2, <5>3, <5>4
      <4> QED BY <4>2, <4>3
    <3> QED BY <3>2, <3>3 DEF Begins
  <2> QED BY <1>7, <1>14, <1>17, <2>2 DEF Inv, ProtoInv, PrefixInv
<1>21. TaskInv' /\ FutureInv'
  BY <1>0, <1>7, <1>14, <1>17, PfTasksStay
<1>22. \A h \in handlers : Writes(h) => Range(h.keys) \cap Range(pf'.load) = {}
  BY <1>9, <1>14 DEF Inv, ProtoInv, WriteInv
<1>23. AdapterType'
  BY <1>0, <1>1 DEF AdapterType
<1>24. ProtoInv'
  BY <1>0, <1>14, <1>15, <1>16, <1>19, <1>20, <1>21, <1>22, <1>23, PfFrame
<1> QED BY <1>18, <1>24

\* The slots that were not filled are given back.
LEMMA PfDiscardStep ==
  ASSUME Inv, PfDiscard, UNCHANGED <<handlers, cl, lost>>
  PROVE  [L1!Next]_(L1!vars) /\ ProtoInv'
<1> DEFINE e == <<>>
<1>0. /\ pf.pc = "discard" /\ delete(Range(pf.load), TRUE) /\ on_removed(Range(pf.load))
      /\ pf' = [pf EXCEPT !.pc = "resolve", !.load = e]
      /\ UNCHANGED <<stored, tasks, futures, jobs, hits, held, storeVars, ev>>
  BY DEF PfDiscard, l2Vars
<1>1. /\ pf \in PfRec /\ AdapterType /\ order \in Seq(Keys) /\ pf.l1 <= Len(pf.hit)
      /\ pf.load \in Seq(Keys)
  BY PfFacts
<1>2. e \in Seq(Keys) /\ Range(e) = {} /\ IsInjective(e) /\ e = <<>>
  BY EmptyList
<1>3. pf.rid \in Requests
  BY <1>0 DEF Inv, ProtoInv, PfInv
<1>4. PICK r \in Requests : r = pf.rid
  BY <1>3
<1> HIDE DEF e
<1>5. /\ pf' \in PfRec /\ pf'.pc = "resolve" /\ pf'.l2_hits = pf.l2_hits /\ pf'.l1 = pf.l1 /\ pf'.rid = pf.rid
      /\ pf'.missing = pf.missing /\ pf'.loaded = pf.loaded /\ pf'.load = e /\ pf'.hit = pf.hit
  BY <1>0, <1>1, <1>2 DEF PfRec
<1>6. UNCHANGED <<hits, cl, st>>
  BY <1>0 DEF storeVars
<1>7. order' \in Seq(Keys)
  BY <1>0, <1>1, WithoutKeeps DEF on_removed
<1>8. [L1!Next]_(L1!vars)
  <2>1. \A k : HandlerWrites(r, k) => k \notin Range(pf.load)
    BY DEF Inv, ProtoInv, WriteInv, HandlerWrites
  <2>2. WritingFor(r)' = WritingFor(r) \ Range(pf.load)
    <3>1. \A x : x \in WritingFor(r)' <=> x \in WritingFor(r) /\ x \notin Range(pf.load)
      BY <1>2, <1>4, <1>5, <2>1, HandlersStay, WritingIs, WritingIsNext
    <3> QED BY <3>1
  <2>3. \A q \in Requests : q # r => WritingFor(q)' = WritingFor(q)
    <3> TAKE q \in Requests
    <3> HAVE q # r
    <3>1. \A x : x \in WritingFor(q)' <=> x \in WritingFor(q)
      BY <1>4, <1>5, HandlersStay, WritingIs, WritingIsNext
    <3> QED BY <3>1
  <2>4. \A q \in Requests : HeldFor(q)' = HeldFor(q)
    <3> TAKE q \in Requests
    <3>1. \A x : x \in HeldFor(q)' <=> x \in HeldFor(q)
      BY <1>0, <1>5, HandlersStay, HeldIs, HeldIsNext
    <3> QED BY <3>1
  <2>5. /\ Writing' = [Writing EXCEPT ![r] = Writing[r] \ Range(pf.load)]
        /\ r \in L1Clients /\ Writing[r] = WritingFor(r)
    BY <2>2, <2>3, WritingChanges
  <2>6. Holds' = Holds
    BY <1>6, <2>4, SameHolds
  <2>7. Range(pf.load) \in SUBSET Keys
    BY <1>1, RangeOf
  <2>8. Range(pf.load) \subseteq Writing[r]
    <3>1. \A k \in Range(pf.load) : k \in WritingFor(r)
      BY <1>4, WritingIs
    <3> QED BY <2>5, <3>1
  <2> QED BY <1>0, <2>5, <2>6, <2>7, <2>8, DoDiscard
<1>9. PfInv'
  BY <1>0, <1>2, <1>3, <1>5 DEF Inv, ProtoInv, PfInv
<1>10. PrefixInv'
  BY <1>0, <1>5, <1>6 DEF Inv, ProtoInv, PrefixInv
<1>11. TaskInv' /\ FutureInv'
  BY <1>0, <1>5, <1>6, PfTasksStay
<1>12. \A h \in handlers : Writes(h) => Range(h.keys) \cap Range(pf'.load) = {}
  BY <1>2, <1>5
<1>13. AdapterType'
  BY <1>0, <1>1 DEF AdapterType
<1>14. ProtoInv'
  BY <1>0, <1>1, <1>5, <1>7, <1>9, <1>10, <1>11, <1>12, <1>13, PfFrame
<1> QED BY <1>8, <1>14

\* The thread between two lookups.
LEMMA IdleThread ==
  /\ PfIdle \in PfRec /\ PfIdle.pc = "get" /\ PfIdle.rid = NoRequest /\ PfIdle.l1 = 0
  /\ PfIdle.load = <<>> /\ PfIdle.hit = <<>> /\ PfIdle.objs = <<>> /\ PfIdle.missing = <<>>
  /\ NoRequest \notin Requests
<1> DEFINE e == <<>>
           z == [a \in Adapters |-> 0]
<1>1. e \in Seq(Keys) /\ e \in Seq(MemoryObj) /\ e = <<>>
  OBVIOUS
<1>2. z \in [Adapters -> Nat]
  OBVIOUS
<1>3. PfIdle = [pc |-> "get", rid |-> NoRequest, missing |-> e, hit |-> e, l1 |-> 0,
                load |-> e, objs |-> e, loaded |-> 0, l2_hits |-> z, tried |-> {}]
  BY DEF PfIdle
<1>4. NoRequest \notin Requests
  BY RequestAssumption
<1> HIDE DEF e, z
<1>5. PfIdle \in PfRec
  BY <1>1, <1>2, <1>3 DEF PfRec
<1> QED BY <1>1, <1>3, <1>4, <1>5

\* The thread gets rid of its request r.
LEMMA PfEnds ==
  ASSUME Inv, pf.pc \in {"resolve", "unhold"}, pf' = PfIdle, NEW r \in Requests, r = pf.rid,
         UNCHANGED <<handlers, cl, lost, stored, tasks, futures, jobs, storeVars, ev>>,
         hits' \in [Requests -> HitRec], \A q \in Requests : q # r => hits'[q] = hits[q],
         hits'[r].l1 + hits'[r].l2 <= Len(LookupKeys(r)),
         held' \in [Requests -> Seq(Keys)], \A q \in Requests : q # r => held'[q] = held[q],
         held'[r] \in {<<>>, pf.hit}, order' \in Seq(Keys)
  PROVE  /\ ProtoInv'
         /\ \A q \in Requests : WritingFor(q)' = WritingFor(q)
         /\ held[r] = <<>> /\ \A k : k \in HeldFor(r) <=> k \in Range(pf.hit)
         /\ \A k : k \in HeldFor(r)' <=> k \in Range(held'[r])
         /\ \A q \in Requests : q # r => HeldFor(q)' = HeldFor(q)
<1> DEFINE e == <<>>
<1>1. /\ pf \in PfRec /\ AdapterType /\ order \in Seq(Keys) /\ pf.hit \in Seq(Keys)
  BY PfFacts
<1>2. e \in Seq(Keys) /\ Range(e) = {} /\ IsInjective(e) /\ e = <<>> /\ Len(e) = 0
  BY EmptyList
<1>3. /\ pf' \in PfRec /\ pf'.pc = "get" /\ pf'.rid = NoRequest /\ pf'.l1 = 0
      /\ pf'.load = e /\ pf'.hit = e /\ NoRequest \notin Requests /\ pf'.objs = e
  BY IdleThread
<1>4. pf.load = e /\ IsInjective(pf.hit)
  BY DEF Inv, ProtoInv, PfInv
<1>5. held'[r] \in {e, pf.hit}
  OBVIOUS
<1> HIDE DEF e
<1>6. UNCHANGED <<st, pending>>
  BY DEF storeVars
<1>7. Ahead(r)
  BY DEF Ahead
<1>8. held[r] = e /\ lost[r] = {}
  BY <1>2, <1>7 DEF Inv, ProtoInv, AheadInv, AheadOf
<1>9. \A q : Queued(q)' <=> Queued(q)
  BY DEF Queued
<1>10. \A q : LookedUp(q)' <=> LookedUp(q)
  BY DEF LookedUp
<1>11. ~Ahead(r)'
  <2>1. cl[r].pc # "new" /\ ~Queued(r)
    BY DEF Inv, ProtoInv, OnceInv, Queued
  <2>2. ~LookedUp(r)
    <3>1. Handler("LOOKUP", r, 0).kind = "LOOKUP" /\ Handler("LOOKUP", r, 0).rid = r
      BY DEF Handler
    <3> QED BY <3>1 DEF Inv, ProtoInv, OnceInv, LookedUp
  <2> QED BY <1>3, <1>9, <1>10, <2>1, <2>2 DEF Ahead
<1>12. \A q \in Requests : Ahead(q)' => Ahead(q) /\ q # r
  BY <1>3, <1>9, <1>10, <1>11 DEF Ahead
<1>13. OnceInv'
  <2>1. \A i \in 1 .. Len(jobs) : jobs[i].rid # NoRequest
    <3> TAKE i \in 1 .. Len(jobs)
    <3>1. jobs[i] \in JobRec
      BY DEF Inv, ProtoInv, TypeInv, ThreadType
    <3> QED BY <1>3, <3>1 DEF JobRec
  <2>2. \A h \in handlers : h.rid # NoRequest
    BY <1>3, HandlerFacts
  <2> QED BY <1>3, <1>9, <2>1, <2>2 DEF Inv, ProtoInv, OnceInv
<1>14. AheadInv'
  <2>1. ASSUME NEW q \in Requests, Ahead(q)' PROVE AheadOf(q)'
    <3>1. AheadOf(q) /\ q # r
      BY <1>12, <2>1 DEF Inv, ProtoInv, AheadInv
    <3>2. hits'[q] = hits[q] /\ held'[q] = held[q]
      BY <3>1
    <3> QED BY <3>1, <3>2 DEF AheadOf
  <2>2. \A q \in Requests : cl'[q].pc \in {"load", "loading"} => cl'[q].lm > cl'[q].vllm
    BY DEF Inv, ProtoInv, AheadInv
  <2> QED BY <2>1, <2>2 DEF AheadInv
<1>15. \A h \in handlers : Drops(h) /\ h.rid = r => Range(h.keys) = {}
  BY DropsAfterLookup
<1>16. HoldInv'
  <2>1. ASSUME NEW q \in Requests PROVE IsInjective(held'[q]) /\ Range(held'[q]) \cap lost[q] = {}
    <3>1. CASE q = r
      BY <1>2, <1>4, <1>5, <1>8, <3>1
    <3>2. CASE q # r
      BY <3>2 DEF Inv, ProtoInv, HoldInv
    <3> QED BY <3>1, <3>2
  <2>2. ASSUME NEW h \in handlers, Drops(h)
        PROVE  Range(h.keys) \cap (Range(held'[h.rid]) \cup lost[h.rid]) = {}
    <3>1. CASE h.rid = r
      BY <1>15, <2>2, <3>1
    <3>2. CASE h.rid # r
      <4>1. held'[h.rid] = held[h.rid]
        BY <3>2, HandlerFacts
      <4> QED BY <2>2, <4>1 DEF Inv, ProtoInv, HoldInv
    <3> QED BY <3>1, <3>2
  <2>3. /\ \A h \in handlers : IsInjective(h.keys)
        /\ \A h, g \in handlers : Drops(h) /\ Drops(g) /\ h.rid = g.rid /\ h # g =>
             Range(h.keys) \cap Range(g.keys) = {}
    BY DEF Inv, ProtoInv, HoldInv
  <2> QED BY <2>1, <2>2, <2>3 DEF HoldInv
<1>17. WriteInv'
  <2>1. \A h \in handlers : Range(h.keys) \cap Range(pf'.load) = {}
    BY <1>2, <1>3
  <2> QED BY <2>1 DEF Inv, ProtoInv, WriteInv
<1>18. TypeInv'
  <2>1. ServerType'
    BY DEF Inv, ProtoInv, TypeInv, ServerType
  <2>2. pf'.l1 <= Len(pf'.hit)
    BY <1>2, <1>3
  <2>3. ThreadType'
    BY <1>3, <1>6, <2>2 DEF Inv, ProtoInv, TypeInv, ThreadType
  <2>4. AdapterType'
    BY <1>1 DEF AdapterType
  <2> QED BY <2>1, <2>3, <2>4 DEF TypeInv
<1>19. PfInv'
  BY <1>2, <1>3 DEF PfInv
<1>20. PrefixInv'
  <2>1. \A q \in Requests : hits'[q].l1 + hits'[q].l2 <= Len(LookupKeys(q))
    <3> TAKE q \in Requests
    <3>1. hits[q].l1 + hits[q].l2 <= Len(LookupKeys(q))
      BY DEF Inv, ProtoInv, PrefixInv
    <3> QED BY <3>1
  <2>2. \A q \in Requests : cl'[q].lm <= Len(Prompt[q])
    BY DEF Inv, ProtoInv, PrefixInv
  <2> QED BY <1>3, <2>1, <2>2 DEF PrefixInv
<1>21. StInv'
  BY <1>6 DEF Inv, ProtoInv, StInv
<1>22. TaskInv' /\ FutureInv'
  BY <1>3, <1>6, PfTasksStay
<1>23. ProtoInv'
  BY <1>13, <1>14, <1>16, <1>17, <1>18, <1>19, <1>20, <1>21, <1>22 DEF ProtoInv
<1>24. \A q \in Requests : WritingFor(q)' = WritingFor(q)
  <2> TAKE q \in Requests
  <2>1. \A k : k \in WritingFor(q)' <=> k \in WritingFor(q)
    BY <1>2, <1>3, <1>4, HandlersStay, WritingIs, WritingIsNext
  <2> QED BY <2>1
<1>25. \A k : ~HandlerDrops(r, k)
  BY <1>15 DEF HandlerDrops
<1>26. \A k : k \in HeldFor(r) <=> k \in Range(pf.hit)
  BY <1>2, <1>8, <1>25, HeldIs
<1>27. \A k : k \in HeldFor(r)' <=> k \in Range(held'[r])
  BY <1>2, <1>3, <1>8, <1>25, HandlersStay, HeldIsNext
<1>28. \A q \in Requests : q # r => HeldFor(q)' = HeldFor(q)
  <2> TAKE q \in Requests
  <2> HAVE q # r
  <2>1. \A k : k \in HeldFor(q)' <=> k \in HeldFor(q)
    BY <1>2, <1>3, HandlersStay, HeldIs, HeldIsNext
  <2> QED BY <2>1
<1>29. held[r] = <<>>
  BY <1>2, <1>8
<1> QED BY <1>23, <1>24, <1>26, <1>27, <1>28, <1>29

\* The holds go over to the session, or stay with the thread for now.
LEMMA PfResolveStep ==
  ASSUME Inv, PfResolve, UNCHANGED <<handlers, cl, lost>>
  PROVE  [L1!Next]_(L1!vars) /\ ProtoInv'
<1>0. /\ pf.pc = "resolve" /\ UNCHANGED <<l1Vars, order, stored, tasks, futures, jobs, storeVars, ev>>
  BY DEF PfResolve, l2Vars
<1>1. /\ pf \in PfRec /\ pf.hit \in Seq(Keys) /\ pf.l1 \in Nat /\ pf.l1 <= Len(pf.hit) /\ order \in Seq(Keys)
  BY PfFacts
<1>2. pf.rid \in Requests /\ pf.load = <<>>
  BY <1>0 DEF Inv, ProtoInv, PfInv
<1>3. PICK r \in Requests : r = pf.rid
  BY <1>2
<1>4. CASE hits[r].state # "absent"
  <2> DEFINE n == Len(pf.hit) - pf.l1
             R == Resolved(pf.l1, n)
  <2>1. hits' = [hits EXCEPT ![r] = R] /\ held' = [held EXCEPT ![r] = pf.hit] /\ pf' = PfIdle
    BY <1>3, <1>4 DEF PfResolve
  <2>2. n \in Nat /\ pf.l1 + n = Len(pf.hit)
    BY <1>1
  <2> HIDE DEF n
  <2>3. R \in HitRec /\ R.l1 = pf.l1 /\ R.l2 = n
    BY <1>1, <2>2 DEF Resolved, HitRec
  <2> HIDE DEF R
  <2>4. hits \in [Requests -> HitRec] /\ held \in [Requests -> Seq(Keys)]
    BY DEF Inv, ProtoInv, TypeInv, ThreadType
  <2>5. /\ hits' \in [Requests -> HitRec] /\ hits'[r] = R /\ \A q \in Requests : q # r => hits'[q] = hits[q]
        /\ held' \in [Requests -> Seq(Keys)] /\ held'[r] = pf.hit
        /\ \A q \in Requests : q # r => held'[q] = held[q]
    BY <1>1, <2>1, <2>3, <2>4
  <2>6. hits'[r].l1 + hits'[r].l2 <= Len(LookupKeys(r))
    <3>1. Len(pf.hit) <= Len(LookupKeys(r))
      BY <1>0, <1>3 DEF Inv, ProtoInv, PrefixInv, Begins
    <3> QED BY <2>2, <2>3, <2>5, <3>1
  <2>7. /\ ProtoInv'
        /\ \A q \in Requests : WritingFor(q)' = WritingFor(q)
        /\ \A k : k \in HeldFor(r) <=> k \in Range(pf.hit)
        /\ \A k : k \in HeldFor(r)' <=> k \in Range(held'[r])
        /\ \A q \in Requests : q # r => HeldFor(q)' = HeldFor(q)
    BY <1>0, <1>1, <1>3, <2>1, <2>5, <2>6, PfEnds
  <2>8. \A q \in Requests : HeldFor(q)' = HeldFor(q)
    <3>1. HeldFor(r)' = HeldFor(r)
      BY <2>5, <2>7
    <3> QED BY <2>7, <3>1
  <2>9. st' = st
    BY <1>0 DEF storeVars
  <2>10. Writing' = Writing /\ Holds' = Holds
    BY <2>7, <2>8, <2>9, SameWriting, SameHolds
  <2> QED BY <1>0, <2>7, <2>10, NoL1Step
<1>5. CASE hits[r].state = "absent"
  <2> DEFINE pc == "unhold"
  <2>1. pf' = [pf EXCEPT !.pc = pc] /\ UNCHANGED <<hits, held>>
    BY <1>3, <1>5 DEF PfResolve
  <2>2. pc \in {"resolve", "load", "unhold"} /\ pc # "load"
    OBVIOUS
  <2> HIDE DEF pc
  <2>3. ProtoInv' /\ Writing' = Writing /\ Holds' = Holds
    BY <1>0, <1>2, <2>1, <2>2, PfMove
  <2> QED BY <1>0, <2>3, NoL1Step
<1> QED BY <1>4, <1>5

\* The session has ended: the holds are dropped.
LEMMA PfUnholdStep ==
  ASSUME Inv, PfUnhold, UNCHANGED <<handlers, cl, lost>>
  PROVE  [L1!Next]_(L1!vars) /\ ProtoInv'
<1>0. /\ pf.pc = "unhold" /\ finish_read(Range(pf.hit)) /\ on_finish_read(pf.hit) /\ pf' = PfIdle
      /\ UNCHANGED <<stored, tasks, futures, jobs, hits, held, storeVars, ev>>
  BY DEF PfUnhold, l2Vars
<1>1. /\ pf \in PfRec /\ pf.hit \in Seq(Keys) /\ order \in Seq(Keys)
  BY PfFacts
<1>2. pf.rid \in Requests
  BY <1>0 DEF Inv, ProtoInv, PfInv
<1>3. PICK r \in Requests : r = pf.rid
  BY <1>2
<1>4. order' \in Seq(Keys)
  BY <1>0, <1>1, TouchedList
<1>5. Ahead(r)
  BY <1>3 DEF Ahead
<1>6. held[r] = <<>>
  BY <1>5 DEF Inv, ProtoInv, AheadInv, AheadOf
<1>7. hits \in [Requests -> HitRec] /\ held \in [Requests -> Seq(Keys)]
  BY DEF Inv, ProtoInv, TypeInv, ThreadType
<1>8. hits[r].l1 + hits[r].l2 <= Len(LookupKeys(r))
  BY DEF Inv, ProtoInv, PrefixInv
<1>9. /\ ProtoInv'
      /\ \A q \in Requests : WritingFor(q)' = WritingFor(q)
      /\ \A k : k \in HeldFor(r) <=> k \in Range(pf.hit)
      /\ \A k : k \in HeldFor(r)' <=> k \in Range(held'[r])
      /\ \A q \in Requests : q # r => HeldFor(q)' = HeldFor(q)
  BY <1>0, <1>3, <1>4, <1>6, <1>7, <1>8, PfEnds
<1>10. HeldFor(r)' = HeldFor(r) \ Range(pf.hit)
  <2>1. Range(held'[r]) = {}
    BY <1>0, <1>6, EmptyList
  <2> QED BY <1>9, <2>1
<1>11. st' = st
  BY <1>0 DEF storeVars
<1>12. /\ Holds' = [Holds EXCEPT ![r] = Holds[r] \ Range(pf.hit)] /\ r \in L1Clients /\ Holds[r] = HeldFor(r)
  BY <1>9, <1>10, <1>11, HoldsChange
<1>13. Writing' = Writing
  BY <1>9, SameWriting
<1>14. Range(pf.hit) \in SUBSET Keys /\ Range(pf.hit) \subseteq Holds[r]
  <2>1. Range(pf.hit) \in SUBSET Keys
    BY <1>1, RangeOf
  <2> QED BY <1>9, <1>12, <2>1
<1> QED BY <1>0, <1>9, <1>12, <1>13, <1>14, DoFinishRead

\* The readable prefix of a list is a first part of it.
LEMMA PrefixIsFirst ==
  ASSUME NEW keys \in Seq(Keys)
  PROVE  /\ PrefixHits(keys) \in Nat /\ PrefixHits(keys) <= Len(keys)
         /\ PrefixKeys(keys) = Range(First(PrefixHits(keys), keys))
<1> DEFINE T == {m \in Nat : m >= 1 /\ (m = Len(keys) + 1 \/ (m <= Len(keys) /\ ~readable(keys[m])))}
<1>1. Len(keys) \in Nat
  OBVIOUS
<1>2. T \subseteq Nat /\ Len(keys) + 1 \in T
  BY <1>1
<1>3. PICK m \in T : \A x \in T : ~(x < m)
  BY <1>2, LeastNat
<1>4. /\ m \in Nat /\ m >= 1 /\ m <= Len(keys) + 1 /\ (m <= Len(keys) => ~readable(keys[m]))
      /\ \A i \in 1 .. (m - 1) : readable(keys[i])
  <2>1. m \in Nat /\ m >= 1 /\ m <= Len(keys) + 1 /\ (m <= Len(keys) => ~readable(keys[m]))
    BY <1>1, <1>3
  <2>2. ASSUME NEW i \in 1 .. (m - 1) PROVE readable(keys[i])
    <3>1. i \in Nat /\ i >= 1 /\ i < m /\ i <= Len(keys)
      BY <1>1, <2>1, <2>2
    <3>2. i \notin T
      BY <1>3, <3>1
    <3> QED BY <3>1, <3>2
  <2> QED BY <2>1, <2>2
<1> DEFINE n == m - 1
<1>5. n \in Nat /\ n <= Len(keys) /\ n + 1 = m
  BY <1>1, <1>4
<1>6. PrefixIndices(keys) = 1 .. n
  <2>1. ASSUME NEW i \in PrefixIndices(keys) PROVE i \in 1 .. n
    <3>1. i \in 1 .. Len(keys) /\ \A j \in 1 .. i : readable(keys[j])
      BY <2>1 DEF PrefixIndices
    <3>2. ~(m <= i)
      <4> SUFFICES ASSUME m <= i PROVE FALSE
        OBVIOUS
      <4>1. m \in 1 .. i /\ m <= Len(keys)
        BY <1>1, <1>4, <3>1
      <4> QED BY <1>4, <3>1, <4>1
    <3> QED BY <1>1, <1>4, <3>1, <3>2
  <2>2. ASSUME NEW i \in 1 .. n PROVE i \in PrefixIndices(keys)
    <3>1. i \in 1 .. Len(keys) /\ \A j \in 1 .. i : j \in 1 .. (m - 1)
      BY <1>1, <1>4, <2>2
    <3> QED BY <1>4, <3>1 DEF PrefixIndices
  <2> QED BY <2>1, <2>2
<1>7. PrefixHits(keys) = n
  <2>1. Cardinality(1 .. n) = n
    <3>1. 1 \in Int /\ n \in Int
      BY <1>5
    <3> HIDE DEF n
    <3>2. Cardinality(1 .. n) = IF 1 > n THEN 0 ELSE n - 1 + 1
      BY <3>1, FS_Interval
    <3> QED BY <1>5, <3>2
  <2> QED BY <1>6, <2>1 DEF PrefixHits
<1> HIDE DEF n
<1>8. PrefixKeys(keys) = Range(First(n, keys))
  <2>1. \A x : x \in PrefixKeys(keys) <=> \E i \in 1 .. n : keys[i] = x
    BY <1>6 DEF PrefixKeys
  <2>2. \A x : x \in Range(First(n, keys)) <=> \E i \in 1 .. n : keys[i] = x
    BY <1>5, FirstOf
  <2> QED BY <2>1, <2>2
<1> QED BY <1>5, <1>7, <1>8

\* A list in two parts begins with the first and goes on with the other.
LEMMA TwoParts ==
  ASSUME NEW U, NEW s \in Seq(U), NEW n \in Nat, n <= Len(s)
  PROVE  /\ Begins(First(n, s), s)
         /\ Len(First(n, s)) + Len(After(n, s)) <= Len(s)
         /\ \A i \in 1 .. Len(After(n, s)) : After(n, s)[i] = s[Len(First(n, s)) + i]
<1>1. Len(s) \in Nat /\ Len(First(n, s)) = n /\ \A i \in 1 .. n : First(n, s)[i] = s[i]
  BY FirstOf
<1>2. Len(After(n, s)) = Len(s) - n
  BY RestOf
<1>3. \A i \in 1 .. (Len(s) - n) : After(n, s)[i] = s[n + i]
  BY RestAt
<1>4. Begins(First(n, s), s)
  BY <1>1 DEF Begins
<1>5. Len(First(n, s)) + Len(After(n, s)) <= Len(s)
  BY <1>1, <1>2
<1> QED BY <1>1, <1>2, <1>3, <1>4, <1>5

\* The thread takes a job and holds the readable prefix of its keys.
LEMMA PfGetStep ==
  ASSUME Inv, PfGet, UNCHANGED <<handlers, cl, lost>>
  PROVE  [L1!Next]_(L1!vars) /\ ProtoInv'
<1> DEFINE K == Head(jobs).keys
           n == PrefixHits(K)
           M == After(n, K)
           H == First(n, K)
           pc == IF M = <<>> \/ NumAdapters = 0 THEN "resolve" ELSE "lookup"
<1>0. /\ pf.pc = "get" /\ jobs # <<>> /\ reserve_read_prefix(K)
      /\ pf' = [PfIdle EXCEPT !.pc = pc, !.rid = Head(jobs).rid, !.missing = M, !.hit = H, !.l1 = n]
      /\ jobs' = Tail(jobs)
      /\ UNCHANGED <<order, stored, tasks, futures, hits, held, pending, st, ev>>
  BY DEF PfGet, l2Vars, storeVars
<1>1. /\ jobs \in Seq(JobRec) /\ AdapterType /\ order \in Seq(Keys)
  BY PfFacts DEF Inv, ProtoInv, TypeInv, ThreadType
<1>2. /\ Head(jobs) = jobs[1] /\ 1 \in 1 .. Len(jobs) /\ Len(jobs) \in Nat
      /\ jobs' \in Seq(JobRec) /\ Len(jobs') = Len(jobs) - 1
      /\ \A i \in 1 .. Len(jobs') : i + 1 \in 1 .. Len(jobs) /\ jobs'[i] = jobs[i + 1]
  <2>1. Len(jobs) \in Nat /\ Len(jobs) # 0 /\ Head(jobs) = jobs[1]
    BY <1>0, <1>1, EmptySeq
  <2>2. Tail(jobs) \in Seq(JobRec) /\ Len(Tail(jobs)) = Len(jobs) - 1
        /\ \A i \in 1 .. Len(Tail(jobs)) : Tail(jobs)[i] = jobs[i + 1]
    BY <1>0, <1>1, HeadTailProperties
  <2>3. \A i \in 1 .. Len(Tail(jobs)) : i + 1 \in 1 .. Len(jobs)
    BY <2>1, <2>2
  <2> QED BY <1>0, <2>1, <2>2, <2>3
<1>3. PICK r \in Requests : r = jobs[1].rid
  <2>1. jobs[1] \in JobRec
    BY <1>1, <1>2
  <2> QED BY <2>1 DEF JobRec
<1>4. K \in {LookupKeys(r), <<>>} /\ K \in Seq(Keys)
  <2>1. K \in {LookupKeys(r), <<>>}
    BY <1>2, <1>3 DEF Inv, ProtoInv, OnceInv
  <2>2. LookupKeys(r) \in Seq(Keys)
    BY LookupKey
  <2>3. <<>> \in Seq(Keys)
    BY EmptySeq
  <2> HIDE DEF K
  <2> QED BY <2>1, <2>2, <2>3
<1>5. IsInjective(K)
  <2>1. IsInjective(LookupKeys(r))
    BY LookupKeysDiffer
  <2> QED BY <1>4, <2>1, EmptyList
<1>6. Head(jobs).rid = r
  BY <1>2, <1>3
<1> HIDE DEF K
<1>7. n \in Nat /\ n <= Len(K) /\ PrefixKeys(K) = Range(H)
  BY <1>4, PrefixIsFirst
<1> HIDE DEF n
<1>8. /\ M \in Seq(Keys) /\ Len(M) = Len(K) - n
      /\ H \in Seq(Keys) /\ Len(H) = n /\ IsInjective(H)
  <2>1. M \in Seq(Keys) /\ Len(M) = Len(K) - n
    BY <1>4, <1>7, RestOf
  <2>2. H \in Seq(Keys) /\ Len(H) = n /\ (IsInjective(K) => IsInjective(H))
    BY <1>4, <1>7, FirstOf
  <2> QED BY <1>5, <2>1, <2>2
<1>9. /\ Begins(H, K) /\ Len(H) + Len(M) <= Len(K)
      /\ \A i \in 1 .. Len(M) : M[i] = K[Len(H) + i]
  BY <1>4, <1>7, TwoParts
<1>10. pc \in {"resolve", "lookup"} /\ (pc = "lookup" => M # <<>>)
  OBVIOUS
<1> HIDE DEF M, H, pc
<1> DEFINE e == <<>>
<1>11. e \in Seq(Keys) /\ Range(e) = {} /\ IsInjective(e) /\ e = <<>> /\ Len(e) = 0
  BY EmptyList
<1>12. /\ PfIdle \in PfRec /\ PfIdle.load = e /\ PfIdle.objs = e /\ PfIdle.hit = e /\ PfIdle.rid = NoRequest
       /\ NoRequest \notin Requests /\ pf = PfIdle /\ PfIdle.loaded = 0
  BY <1>0, IdleThread DEF Inv, ProtoInv, PfInv, PfIdle
<1> HIDE DEF e
<1>13. /\ pf' \in PfRec /\ pf'.pc = pc /\ pf'.rid = r /\ pf'.missing = M /\ pf'.hit = H /\ pf'.l1 = n
       /\ pf'.load = e /\ pf'.objs = e /\ pf'.loaded = 0
  <2>1. pf' = [PfIdle EXCEPT !.pc = pc, !.rid = r, !.missing = M, !.hit = H, !.l1 = n]
    BY <1>0, <1>6
  <2> QED BY <1>7, <1>8, <1>10, <1>12, <2>1 DEF PfRec
<1>14. Queued(r) /\ \A q : Queued(q)' => Queued(q)
  BY <1>2, <1>3 DEF Queued
<1>15. ~Queued(r)'
  <2> SUFFICES ASSUME NEW i \in 1 .. Len(jobs'), jobs'[i].rid = r PROVE FALSE
    BY DEF Queued
  <2>1. i + 1 \in 1 .. Len(jobs) /\ jobs[i + 1].rid = jobs[1].rid
    BY <1>2, <1>3
  <2>2. i + 1 = 1
    BY <1>2, <2>1 DEF Inv, ProtoInv, OnceInv
  <2> QED BY <1>2, <2>2
<1>16. \A q \in Requests : Ahead(q)' => Ahead(q)
  BY <1>13, <1>14 DEF Ahead, LookedUp
<1>17. OnceInv'
  <2>1. cl[r].pc # "new"
    BY <1>14 DEF Inv, ProtoInv, OnceInv
  <2>2. \A q \in Requests : cl'[q].pc = "new" =>
          pf'.rid # q /\ ~Queued(q)' /\ \A f \in handlers' : f.rid # q
    BY <1>13, <1>14, <2>1 DEF Inv, ProtoInv, OnceInv
  <2>3. \A f \in handlers' : f.kind = "LOOKUP" =>
          f = Handler("LOOKUP", f.rid, 0) /\ pf'.rid # f.rid /\ ~Queued(f.rid)'
    BY <1>13, <1>14 DEF Inv, ProtoInv, OnceInv
  <2>4. ASSUME NEW i \in 1 .. Len(jobs'), NEW j \in 1 .. Len(jobs'), jobs'[i].rid = jobs'[j].rid PROVE i = j
    <3>1. i + 1 \in 1 .. Len(jobs) /\ j + 1 \in 1 .. Len(jobs) /\ jobs[i + 1].rid = jobs[j + 1].rid
      BY <1>2, <2>4
    <3>2. i + 1 = j + 1
      BY <3>1 DEF Inv, ProtoInv, OnceInv
    <3>3. i \in Int /\ j \in Int
      BY <1>2
    <3> QED BY <3>2, <3>3
  <2>5. ASSUME NEW i \in 1 .. Len(jobs')
        PROVE  jobs'[i].rid # pf'.rid /\ jobs'[i].keys \in {LookupKeys(jobs'[i].rid), <<>>}
    <3>1. jobs'[i].rid # r
      BY <1>15 DEF Queued
    <3>2. i + 1 \in 1 .. Len(jobs) /\ jobs'[i] = jobs[i + 1]
      BY <1>2
    <3>3. jobs[i + 1].keys \in {LookupKeys(jobs[i + 1].rid), <<>>}
      BY <3>2 DEF Inv, ProtoInv, OnceInv
    <3> QED BY <1>13, <3>1, <3>2, <3>3
  <2> QED BY <2>2, <2>3, <2>4, <2>5 DEF OnceInv
<1>18. AheadInv'
  <2>1. ASSUME NEW q \in Requests, Ahead(q)' PROVE AheadOf(q)'
    <3>1. AheadOf(q)
      BY <1>16, <2>1 DEF Inv, ProtoInv, AheadInv
    <3> QED BY <1>0, <3>1 DEF AheadOf
  <2>2. \A q \in Requests : cl'[q].pc \in {"load", "loading"} => cl'[q].lm > cl'[q].vllm
    BY <1>0 DEF Inv, ProtoInv, AheadInv
  <2> QED BY <2>1, <2>2 DEF AheadInv
<1>19. HoldInv'
  BY <1>0 DEF Inv, ProtoInv, HoldInv
<1>20. WriteInv'
  <2>1. \A h \in handlers : Range(h.keys) \cap Range(pf'.load) = {}
    BY <1>11, <1>13
  <2> QED BY <2>1 DEF Inv, ProtoInv, WriteInv
<1>21. TypeInv'
  <2>1. ServerType'
    BY DEF Inv, ProtoInv, TypeInv, ServerType
  <2>2. pf'.l1 <= Len(pf'.hit)
    BY <1>7, <1>8, <1>13
  <2>3. ThreadType'
    BY <1>0, <1>2, <1>13, <2>2 DEF Inv, ProtoInv, TypeInv, ThreadType
  <2>4. AdapterType'
    BY <1>0, <1>1 DEF AdapterType
  <2> QED BY <2>1, <2>3, <2>4 DEF TypeInv
<1>22. PfInv'
  BY <1>8, <1>10, <1>11, <1>13 DEF PfInv
<1>23. PrefixInv'
  <2>1. Begins(H, LookupKeys(r))
    <3>1. CASE K = LookupKeys(r)
      BY <1>9, <3>1
    <3>2. CASE K = <<>>
      <4>1. Len(K) = 0
        BY <3>2
      <4>2. Len(H) = 0
        BY <1>7, <1>8, <4>1
      <4>3. Len(LookupKeys(r)) \in Nat
        BY LookupKey
      <4>4. 0 <= Len(LookupKeys(r)) /\ 1 .. 0 = {}
        BY <4>3
      <4> QED BY <4>2, <4>4 DEF Begins
    <3> QED BY <1>4, <3>1, <3>2
  <2>2. pc = "lookup" => K = LookupKeys(r)
    <3> SUFFICES ASSUME pc = "lookup", K = <<>> PROVE FALSE
      BY <1>4
    <3>1. Len(K) = 0
      OBVIOUS
    <3>2. Len(M) = 0
      BY <1>7, <1>8, <3>1
    <3> QED BY <1>8, <1>10, <3>2, EmptySeq
  <2>3. Begins(e, M)
    <3>1. Len(M) \in Nat
      BY <1>8
    <3>2. 0 <= Len(M) /\ 1 .. 0 = {}
      BY <3>1
    <3> QED BY <1>11, <3>2 DEF Begins
  <2>4. UNCHANGED <<hits, cl>>
    BY <1>0
  <2> QED BY <1>9, <1>10, <1>13, <2>1, <2>2, <2>3, <2>4 DEF Inv, ProtoInv, PrefixInv
<1>24. StInv'
  BY <1>0 DEF Inv, ProtoInv, StInv
<1>25. TaskInv' /\ FutureInv'
  BY <1>0, <1>10, <1>13, PfTasksStay
<1>26. ProtoInv'
  BY <1>17, <1>18, <1>19, <1>20, <1>21, <1>22, <1>23, <1>24, <1>25 DEF ProtoInv
<1>27. AheadOf(r)
  BY <1>14 DEF Inv, ProtoInv, AheadInv, Ahead
<1>28. \A k : ~HandlerDrops(r, k)
  <2> SUFFICES ASSUME NEW h \in handlers, h.rid = r, Drops(h), NEW k \in Range(h.keys) PROVE FALSE
    BY DEF HandlerDrops
  <2>1. h.kind \in {"LOOKUP", "STORE"} \/ (h.kind = "END" /\ h.keys = <<>>)
    BY <1>27 DEF AheadOf
  <2>2. h.kind = "LOOKUP" => h.pc = "start"
    BY DEF Inv, ProtoInv, OnceInv, Handler
  <2> QED BY <2>1, <2>2, EmptyList DEF Drops
<1>29. held[r] = e /\ lost[r] = {}
  BY <1>11, <1>27 DEF AheadOf
<1>30. HeldFor(r) = {}
  <2>1. \A k : k \notin HeldFor(r)
    BY <1>11, <1>12, <1>28, <1>29, HeldIs
  <2> QED BY <2>1
<1>31. HeldFor(r)' = HeldFor(r) \cup PrefixKeys(K)
  <2>1. \A k : k \in HeldFor(r)' <=> k \in PrefixKeys(K)
    BY <1>0, <1>7, <1>11, <1>13, <1>28, <1>29, HandlersStay, HeldIsNext
  <2> QED BY <1>30, <2>1
<1>32. \A q \in Requests : q # r => HeldFor(q)' = HeldFor(q)
  <2> TAKE q \in Requests
  <2> HAVE q # r
  <2>1. \A k : k \in HeldFor(q)' <=> k \in HeldFor(q)
    BY <1>0, <1>12, <1>13, HandlersStay, HeldIs, HeldIsNext
  <2> QED BY <2>1
<1>33. \A q \in Requests : WritingFor(q)' = WritingFor(q)
  <2> TAKE q \in Requests
  <2>1. \A k : k \in WritingFor(q)' <=> k \in WritingFor(q)
    BY <1>11, <1>12, <1>13, HandlersStay, WritingIs, WritingIsNext
  <2> QED BY <2>1
<1>34. Writing' = Writing
  BY <1>33, SameWriting
<1>35. Holds' = [Holds EXCEPT ![r] = Holds[r] \cup PrefixKeys(K)] /\ r \in L1Clients /\ Holds[r] = HeldFor(r)
  BY <1>0, <1>31, <1>32, HoldsChange
<1>36. K \in {LookupKeys(q) : q \in Requests} \cup {<<>>} /\ PrefixKeys(K) \cap Holds[r] = {}
  BY <1>4, <1>30, <1>35
<1>37. [L1!Next]_(L1!vars)
  BY <1>0, <1>34, <1>35, <1>36, DoReserveReadPrefix
<1> QED BY <1>26, <1>37

\* Every step of the thread.
LEMMA PrefetchStep ==
  ASSUME Inv, Prefetch, UNCHANGED <<handlers, cl, lost>>
  PROVE  [L1!Next]_(L1!vars) /\ ProtoInv'
BY PfGetStep, PfLookupStep, PfLookupsStep, PfDiesStep, PfReserveStep, PfReserveStopsStep, PfLoadStep,
   PfLoadedStep, PfPublishStep, PfDiscardStep, PfResolveStep, PfUnholdStep DEF Prefetch

-----------------------------------------------------------------------------

(***************************************************************************)
(* The store thread and the evictor.                                       *)
(***************************************************************************)

\* What a step of these threads and of the adapters leaves alone.
LEMMA BackgroundFrame ==
  ASSUME Inv, UNCHANGED <<handlers, cl, lost, prefetchVars>>,
         order' \in Seq(Keys), pending' \in Seq(Seq(Keys)), st' \in StRec, ev' \in EvRec,
         StInv', AdapterType', TaskInv', FutureInv'
  PROVE  ProtoInv'
<1>0. UNCHANGED <<handlers, cl, lost, jobs, hits, held, pf>>
  BY DEF prefetchVars
<1>1. TypeInv'
  <2>1. ServerType'
    BY <1>0 DEF Inv, ProtoInv, TypeInv, ServerType
  <2>2. ThreadType'
    BY <1>0 DEF Inv, ProtoInv, TypeInv, ThreadType
  <2> QED BY <2>1, <2>2 DEF TypeInv
<1>2. OnceInv'
  BY <1>0 DEF Inv, ProtoInv, OnceInv, Queued
<1>3. AheadInv'
  BY <1>0 DEF Inv, ProtoInv, AheadInv, Ahead, AheadOf, Queued, LookedUp
<1>4. HoldInv'
  BY <1>0 DEF Inv, ProtoInv, HoldInv
<1>5. WriteInv'
  BY <1>0 DEF Inv, ProtoInv, WriteInv
<1>6. PfInv'
  BY <1>0 DEF Inv, ProtoInv, PfInv
<1>7. PrefixInv'
  BY <1>0 DEF Inv, ProtoInv, PrefixInv
<1> QED BY <1>1, <1>2, <1>3, <1>4, <1>5, <1>6, <1>7 DEF ProtoInv

\* The types of these threads.
LEMMA StFacts ==
  ASSUME Inv
  PROVE  /\ st \in StRec /\ st.keys \in Seq(Keys) /\ st.objs \in Seq(MemoryObj) /\ IsInjective(st.keys)
         /\ pending \in Seq(Seq(Keys)) /\ order \in Seq(Keys) /\ ev \in EvRec
         /\ AdapterType
<1>1. /\ st \in StRec /\ pending \in Seq(Seq(Keys)) /\ order \in Seq(Keys) /\ ev \in EvRec
      /\ AdapterType /\ IsInjective(st.keys)
  BY DEF Inv, ProtoInv, TypeInv, ThreadType, StInv
<1> QED BY <1>1 DEF StRec

\* The store thread's own holds.
LEMMA StoreHolds ==
  ASSUME UNCHANGED <<handlers, lost, prefetchVars>>, NEW K, Range(st'.keys) = K
  PROVE  /\ Writing' = Writing
         /\ Holds' = [Holds EXCEPT ![StoreThread] = K]
         /\ StoreThread \in L1Clients /\ Holds[StoreThread] = Range(st.keys)
<1>0. UNCHANGED <<handlers, lost, held, pf>>
  BY DEF prefetchVars
<1>1. \A q \in Requests : WritingFor(q)' = WritingFor(q) /\ HeldFor(q)' = HeldFor(q)
  <2> TAKE q \in Requests
  <2>1. \A k : k \in WritingFor(q)' <=> k \in WritingFor(q)
    BY <1>0, HandlersStay, WritingIs, WritingIsNext
  <2>2. \A k : k \in HeldFor(q)' <=> k \in HeldFor(q)
    BY <1>0, HandlersStay, HeldIs, HeldIsNext
  <2> QED BY <2>1, <2>2
<1>2. Writing' = Writing
  BY <1>1, SameWriting
<1>3. \A c \in L1Clients : Holds'[c] = IF c = StoreThread THEN K ELSE Holds[c]
  BY <1>1, Owners
<1>4. StoreThread \in L1Clients /\ Holds[StoreThread] = Range(st.keys)
  BY Owners
<1> QED BY <1>2, <1>3, <1>4, Owners

\* The owners when the store thread holds what it held.
LEMMA BackgroundOwners ==
  ASSUME UNCHANGED <<handlers, lost, prefetchVars>>, Range(st'.keys) = Range(st.keys)
  PROVE  Writing' = Writing /\ Holds' = Holds
<1>1. /\ Writing' = Writing /\ Holds' = [Holds EXCEPT ![StoreThread] = Range(st.keys)]
      /\ StoreThread \in L1Clients /\ Holds[StoreThread] = Range(st.keys)
  BY StoreHolds
<1> QED BY <1>1, Owners

\* The tasks of the prefetch thread, when it does not move.
LEMMA OtherTasksStay ==
  ASSUME Inv, tasks' = tasks, UNCHANGED pf,
         \A a \in Adapters : futures'[a]["prefetch"] = futures[a]["prefetch"],
         \A a \in Adapters : \A i \in 1 .. Len(tasks[a]) : tasks[a][i].who = "prefetch"
  PROVE  TaskInv'
<1>1. ASSUME NEW a \in Adapters, NEW i \in 1 .. Len(tasks[a]) PROVE TaskOf(a, tasks[a][i])'
  <2>1. TaskOf(a, tasks[a][i]) /\ tasks[a][i].who = "prefetch"
    BY TaskFacts
  <2> QED BY <2>1 DEF TaskOf
<1> QED BY <1>1 DEF Inv, ProtoInv, TaskInv

\* The thread at rest.
LEMMA IdleStore ==
  StIdle \in StRec /\ StIdle.pc = "get" /\ StIdle.keys = <<>> /\ StIdle.objs = <<>> /\ Range(StIdle.keys) = {}
<1> DEFINE e == <<>>
<1>1. e \in Seq(Keys) /\ e \in Seq(MemoryObj) /\ e = <<>> /\ Range(e) = {}
  BY EmptyList
<1>2. StIdle = [pc |-> "get", keys |-> e, objs |-> e]
  BY DEF StIdle
<1> HIDE DEF e
<1> QED BY <1>1, <1>2 DEF StRec

\* Holds are taken on what is left of the next list.
LEMMA StGetStep ==
  ASSUME Inv, StGet, UNCHANGED <<handlers, cl, lost>>
  PROVE  [L1!Next]_(L1!vars) /\ ProtoInv'
<1> DEFINE K == Head(pending)
           S == Reservable(Range(K))
           L == Selected(K, S)
<1>0. /\ st.pc = "get" /\ pending # <<>> /\ reserve_read(Range(K))
      /\ st' = IF L = <<>> THEN StIdle ELSE [pc |-> "submit", keys |-> L, objs |-> ObjsOf(L)]
      /\ pending' = Tail(pending)
      /\ UNCHANGED <<order, stored, tasks, futures, prefetchVars, ev>>
  BY DEF StGet, l2Vars
<1>1. pending \in Seq(Seq(Keys)) /\ order \in Seq(Keys) /\ ev \in EvRec /\ AdapterType
  BY StFacts
<1>2. /\ K = pending[1] /\ 1 \in 1 .. Len(pending)
      /\ pending' \in Seq(Seq(Keys))
      /\ \A i \in 1 .. Len(pending') : i + 1 \in 1 .. Len(pending) /\ pending'[i] = pending[i + 1]
  <2>1. Len(pending) \in Nat /\ Len(pending) # 0 /\ Head(pending) = pending[1]
    BY <1>0, <1>1, EmptySeq
  <2>2. Tail(pending) \in Seq(Seq(Keys)) /\ Len(Tail(pending)) = Len(pending) - 1
        /\ \A i \in 1 .. Len(Tail(pending)) : Tail(pending)[i] = pending[i + 1]
    BY <1>0, <1>1, HeadTailProperties
  <2>3. \A i \in 1 .. Len(Tail(pending)) : i + 1 \in 1 .. Len(pending)
    BY <2>1, <2>2
  <2> QED BY <1>0, <2>1, <2>2, <2>3
<1>3. K \in Seq(Keys) /\ IsInjective(K)
  BY <1>1, <1>2 DEF Inv, ProtoInv, StInv
<1> HIDE DEF K
<1>4. L \in Seq(Keys) /\ Range(L) = Range(K) \cap S /\ IsInjective(L)
  BY <1>3, SelectedKeeps
<1>5. S \subseteq Range(K) /\ \A k \in S : k \in DOMAIN entries
  BY DEF Reservable, readable
<1>6. Range(L) = S
  BY <1>4, <1>5
<1>7. Range(K) \in SUBSET Keys
  BY <1>3, RangeOf
<1>8. ObjsOf(L) \in Seq(MemoryObj)
  BY <1>4, <1>5, <1>6, ObjsType
<1> HIDE DEF L, S
<1>9. st = StIdle /\ Range(st.keys) = {}
  BY <1>0, IdleStore DEF Inv, ProtoInv, StInv
<1>10. /\ st' \in StRec /\ st'.pc \in {"get", "submit"} /\ Range(st'.keys) = S
       /\ IsInjective(st'.keys) /\ (st'.pc = "get" => st' = StIdle) /\ (st'.pc # "get" => st'.keys # <<>>)
  <2>1. CASE L = <<>>
    <3>1. st' = StIdle
      BY <1>0, <2>1
    <3>2. S = {}
      BY <1>6, <2>1, EmptyList
    <3>3. IsInjective(StIdle.keys)
      BY IdleStore, EmptyList
    <3> QED BY <3>1, <3>2, <3>3, IdleStore
  <2>2. CASE L # <<>>
    <3>1. st' = [pc |-> "submit", keys |-> L, objs |-> ObjsOf(L)]
      BY <1>0, <2>2
    <3> QED BY <1>4, <1>6, <1>8, <2>2, <3>1 DEF StRec
  <2> QED BY <2>1, <2>2
<1>11. [L1!Next]_(L1!vars)
  <2>1. /\ Writing' = Writing /\ Holds' = [Holds EXCEPT ![StoreThread] = S]
        /\ StoreThread \in L1Clients /\ Holds[StoreThread] = Range(st.keys)
    BY <1>0, <1>10, StoreHolds
  <2>2. Range(K) \cap Holds[StoreThread] = {} /\ S = Holds[StoreThread] \cup Reservable(Range(K))
    BY <1>9, <2>1 DEF S
  <2> QED BY <1>0, <1>7, <2>1, <2>2, DoReserveRead
<1>12. StInv'
  BY <1>2, <1>10 DEF Inv, ProtoInv, StInv
<1>13. \A a \in Adapters : \A i \in 1 .. Len(tasks[a]) : tasks[a][i].who = "prefetch"
  <2> TAKE a \in Adapters
  <2> TAKE i \in 1 .. Len(tasks[a])
  <2>1. tasks[a][i].who \in Submitters /\ TaskOf(a, tasks[a][i])
    BY TaskFacts
  <2> QED BY <1>0, <2>1 DEF TaskOf, Submitters
<1>14. TaskInv'
  BY <1>0, <1>13, OtherTasksStay DEF prefetchVars
<1>15. FutureInv'
  BY <1>0, <1>10 DEF Inv, ProtoInv, FutureInv, prefetchVars
<1>16. AdapterType'
  BY <1>0, <1>1 DEF AdapterType
<1>17. ProtoInv'
  BY <1>0, <1>1, <1>2, <1>10, <1>12, <1>14, <1>15, <1>16, BackgroundFrame
<1> QED BY <1>11, <1>17

\* The adapters are to store what the thread holds.
LEMMA StSubmitStep ==
  ASSUME Inv, StSubmit, UNCHANGED <<handlers, cl, lost>>
  PROVE  [L1!Next]_(L1!vars) /\ ProtoInv'
<1> DEFINE t == Task("store", "store", st.keys, st.objs)
<1>0. /\ st.pc = "submit" /\ submit(Adapters, "store", "store", st.keys, st.objs)
      /\ st' = [st EXCEPT !.pc = "wait"]
      /\ UNCHANGED <<l1Vars, order, prefetchVars, pending, ev>>
  BY DEF StSubmit
<1>1. /\ st \in StRec /\ st.keys \in Seq(Keys) /\ st.objs \in Seq(MemoryObj)
      /\ pending \in Seq(Seq(Keys)) /\ order \in Seq(Keys) /\ ev \in EvRec /\ AdapterType
  BY StFacts
<1>2. st' \in StRec /\ st'.pc = "wait" /\ st'.keys = st.keys /\ st'.objs = st.objs
  BY <1>0, <1>1 DEF StRec
<1>3. "prefetch" \in Submitters /\ "store" \in Submitters /\ Submitters = {"prefetch", "store"}
  BY DEF Submitters
<1>4. AdapterType' /\ stored' = stored /\ QueuedAt(Adapters, t) /\ PendingAt(Adapters, "store")
  BY <1>0, <1>1, <1>3, Submitted
<1>5. /\ t.who = "store" /\ t.op = "store" /\ t.keys = st.keys /\ t.objs = st.objs /\ t.done = 0
  BY DEF Task
<1>6. 0 < Len(st.keys)
  <2>1. st.keys # <<>>
    BY <1>0 DEF Inv, ProtoInv, StInv
  <2>2. Len(st.keys) \in Nat \ {0}
    BY <1>1, <2>1, EmptySeq
  <2> QED BY <2>2
<1> HIDE DEF t
<1>7. /\ \A a \in Adapters : \A i \in 1 .. Len(tasks'[a]) :
           \/ i \in 1 .. Len(tasks[a]) /\ tasks'[a][i] = tasks[a][i]
           \/ i = Len(tasks[a]) + 1 /\ tasks'[a][i] = t
      /\ \A a \in Adapters, w \in Submitters :
           IF w = "store" THEN futures'[a][w].state = "pending" ELSE futures'[a][w] = futures[a][w]
  BY <1>4 DEF QueuedAt, PendingAt
<1>8. \A a \in Adapters : \A i \in 1 .. Len(tasks[a]) : tasks[a][i].who = "prefetch" /\ TaskOf(a, tasks[a][i])
  <2> TAKE a \in Adapters
  <2> TAKE i \in 1 .. Len(tasks[a])
  <2>1. tasks[a][i].who \in Submitters /\ TaskOf(a, tasks[a][i])
    BY TaskFacts
  <2> QED BY <1>0, <2>1 DEF TaskOf, Submitters
<1>9. \A a \in Adapters : futures'[a]["store"].state = "pending" /\ futures'[a]["prefetch"] = futures[a]["prefetch"]
  BY <1>3, <1>7
<1>10. UNCHANGED pf
  BY <1>0 DEF prefetchVars
<1>11. TaskInv'
  <2>1. ASSUME NEW a \in Adapters, NEW i \in 1 .. Len(tasks'[a]) PROVE TaskOf(a, tasks[a][i])'
    <3>1. CASE i \in 1 .. Len(tasks[a]) /\ tasks'[a][i] = tasks[a][i]
      <4>1. TaskOf(a, tasks[a][i]) /\ tasks[a][i].who = "prefetch"
        BY <1>8, <3>1
      <4> QED BY <1>9, <1>10, <3>1, <4>1 DEF TaskOf
    <3>2. CASE tasks'[a][i] = t
      BY <1>2, <1>5, <1>6, <1>9, <3>2 DEF TaskOf
    <3> QED BY <1>7, <3>1, <3>2
  <2>2. ASSUME NEW a \in Adapters, NEW i \in 1 .. Len(tasks'[a]), NEW j \in 1 .. Len(tasks'[a]),
               tasks'[a][i].who = tasks'[a][j].who
        PROVE  i = j
    <3>1. \/ i \in 1 .. Len(tasks[a]) /\ tasks'[a][i] = tasks[a][i]
          \/ i = Len(tasks[a]) + 1 /\ tasks'[a][i] = t
      BY <1>7
    <3>2. \/ j \in 1 .. Len(tasks[a]) /\ tasks'[a][j] = tasks[a][j]
          \/ j = Len(tasks[a]) + 1 /\ tasks'[a][j] = t
      BY <1>7
    <3>3. CASE i \in 1 .. Len(tasks[a]) /\ j \in 1 .. Len(tasks[a])
      <4>1. tasks'[a][i] = tasks[a][i] /\ tasks'[a][j] = tasks[a][j]
        BY <1>5, <1>8, <2>2, <3>1, <3>2, <3>3
      <4> QED BY <2>2, <3>3, <4>1 DEF Inv, ProtoInv, TaskInv
    <3> QED BY <1>5, <1>8, <2>2, <3>1, <3>2, <3>3
  <2> QED BY <2>1, <2>2 DEF TaskInv
<1>12. FutureInv'
  BY <1>2, <1>9, <1>10 DEF Inv, ProtoInv, FutureInv
<1>13. StInv'
  BY <1>0, <1>2 DEF Inv, ProtoInv, StInv
<1>14. ProtoInv'
  BY <1>0, <1>1, <1>2, <1>4, <1>11, <1>12, <1>13, BackgroundFrame
<1>15. Writing' = Writing /\ Holds' = Holds
  BY <1>0, <1>2, BackgroundOwners
<1> QED BY <1>0, <1>14, <1>15, NoL1Step

\* The holds are dropped when all adapters are done.
LEMMA StWaitStep ==
  ASSUME Inv, StWait, UNCHANGED <<handlers, cl, lost>>
  PROVE  [L1!Next]_(L1!vars) /\ ProtoInv'
<1>0. /\ st.pc = "wait" /\ AllDone("store") /\ finish_read(Range(st.keys)) /\ on_finish_read(st.keys)
      /\ Consume("store") /\ st' = StIdle /\ UNCHANGED <<prefetchVars, pending, ev>>
  BY DEF StWait
<1>1. /\ st \in StRec /\ st.keys \in Seq(Keys) /\ pending \in Seq(Seq(Keys)) /\ order \in Seq(Keys)
      /\ ev \in EvRec /\ AdapterType
  BY StFacts
<1>2. st' \in StRec /\ st'.pc = "get" /\ Range(st'.keys) = {} /\ IsInjective(st'.keys) /\ st'.keys = <<>>
  BY <1>0, IdleStore, EmptyList
<1>3. "prefetch" \in Submitters /\ "store" \in Submitters /\ Submitters = {"prefetch", "store"}
  BY DEF Submitters
<1>4. /\ AdapterType' /\ tasks' = tasks
      /\ \A a \in Adapters : futures'[a]["store"].state = "none" /\ futures'[a]["prefetch"] = futures[a]["prefetch"]
  BY <1>0, <1>1, <1>3, Consumed
<1>5. \A a \in Adapters : \A i \in 1 .. Len(tasks[a]) : tasks[a][i].who = "prefetch"
  <2> TAKE a \in Adapters
  <2> TAKE i \in 1 .. Len(tasks[a])
  <2>1. tasks[a][i].who \in Submitters /\ TaskOf(a, tasks[a][i])
    BY TaskFacts
  <2>2. futures[a]["store"].state = "done"
    BY <1>0 DEF AllDone
  <2> QED BY <2>1, <2>2 DEF TaskOf, Submitters
<1>6. UNCHANGED pf
  BY <1>0 DEF prefetchVars
<1>7. TaskInv'
  BY <1>4, <1>5, <1>6, OtherTasksStay
<1>8. FutureInv'
  BY <1>4, <1>6 DEF Inv, ProtoInv, FutureInv
<1>9. StInv'
  BY <1>0, <1>2 DEF Inv, ProtoInv, StInv
<1>10. order' \in Seq(Keys)
  BY <1>0, <1>1, TouchedList
<1>11. ProtoInv'
  BY <1>0, <1>1, <1>2, <1>4, <1>7, <1>8, <1>9, <1>10, BackgroundFrame
<1>12. /\ Writing' = Writing /\ Holds' = [Holds EXCEPT ![StoreThread] = Holds[StoreThread] \ Range(st.keys)]
       /\ StoreThread \in L1Clients /\ Holds[StoreThread] = Range(st.keys)
  <2>1. /\ Writing' = Writing /\ Holds' = [Holds EXCEPT ![StoreThread] = {}]
        /\ StoreThread \in L1Clients /\ Holds[StoreThread] = Range(st.keys)
    BY <1>0, <1>2, StoreHolds
  <2>2. Range(st.keys) \ Range(st.keys) = {}
    OBVIOUS
  <2> QED BY <2>1, <2>2
<1>13. Range(st.keys) \in SUBSET Keys
  BY <1>1, RangeOf
<1>14. [L1!Next]_(L1!vars)
  BY <1>0, <1>12, <1>13, DoFinishRead
<1> QED BY <1>11, <1>14

\* A future raises.
LEMMA StDiesStep ==
  ASSUME Inv, StDies, UNCHANGED <<handlers, cl, lost>>
  PROVE  [L1!Next]_(L1!vars) /\ ProtoInv'
<1>0. /\ st.pc = "wait" /\ st' = [st EXCEPT !.pc = "dead"]
      /\ UNCHANGED <<l1Vars, order, stored, tasks, futures, prefetchVars, pending, ev>>
  BY DEF StDies, l2Vars
<1>1. /\ st \in StRec /\ pending \in Seq(Seq(Keys)) /\ order \in Seq(Keys)
      /\ ev \in EvRec /\ AdapterType
  BY StFacts
<1>2. st' \in StRec /\ st'.pc = "dead" /\ st'.keys = st.keys /\ st'.objs = st.objs
  BY <1>0, <1>1 DEF StRec
<1>3. UNCHANGED pf
  BY <1>0 DEF prefetchVars
<1>4. TaskInv'
  <2>1. ASSUME NEW a \in Adapters, NEW i \in 1 .. Len(tasks[a]) PROVE TaskOf(a, tasks[a][i])'
    <3>1. TaskOf(a, tasks[a][i])
      BY TaskFacts
    <3> QED BY <1>0, <1>2, <1>3, <3>1 DEF TaskOf
  <2> QED BY <1>0, <2>1 DEF Inv, ProtoInv, TaskInv
<1>5. FutureInv'
  BY <1>0, <1>2, <1>3 DEF Inv, ProtoInv, FutureInv
<1>6. StInv'
  BY <1>0, <1>2 DEF Inv, ProtoInv, StInv
<1>7. AdapterType'
  BY <1>0, <1>1 DEF AdapterType
<1>8. ProtoInv'
  BY <1>0, <1>1, <1>2, <1>4, <1>5, <1>6, <1>7, BackgroundFrame
<1>9. Writing' = Writing /\ Holds' = Holds
  BY <1>0, <1>2, BackgroundOwners
<1> QED BY <1>0, <1>8, <1>9, NoL1Step

\* The evictor looks at the usage and at the list, then deletes.
LEMMA EvictionStep ==
  ASSUME Inv, Eviction, UNCHANGED <<handlers, cl, lost>>
  PROVE  [L1!Next]_(L1!vars) /\ ProtoInv'
<1>0. UNCHANGED <<stored, tasks, futures, prefetchVars, storeVars, pf, st, pending>>
  BY DEF Eviction, EvCheck, EvScan, EvDelete, l2Vars, prefetchVars, storeVars
<1>1. /\ st \in StRec /\ pending \in Seq(Seq(Keys)) /\ order \in Seq(Keys)
      /\ ev \in EvRec /\ AdapterType
  BY StFacts
<1>2. AdapterType' /\ StInv' /\ TaskInv' /\ FutureInv'
  <2>1. AdapterType'
    BY <1>0, <1>1 DEF AdapterType
  <2>2. StInv'
    BY <1>0 DEF Inv, ProtoInv, StInv
  <2>3. FutureInv'
    BY <1>0 DEF Inv, ProtoInv, FutureInv
  <2>4. TaskInv'
    <3>1. ASSUME NEW a \in Adapters, NEW i \in 1 .. Len(tasks[a]) PROVE TaskOf(a, tasks[a][i])'
      <4>1. TaskOf(a, tasks[a][i])
        BY TaskFacts
      <4> QED BY <1>0, <4>1 DEF TaskOf
    <3> QED BY <1>0, <3>1 DEF Inv, ProtoInv, TaskInv
  <2> QED BY <2>1, <2>2, <2>3, <2>4
<1>3. order' \in Seq(Keys) /\ ev' \in EvRec => ProtoInv'
  BY <1>0, <1>1, <1>2, BackgroundFrame
<1>4. Writing' = Writing /\ Holds' = Holds
  BY <1>0, BackgroundOwners
<1>5. CASE EvCheck
  <2>1. UNCHANGED <<l1Vars, order>> /\ ev' = [ev EXCEPT !.pc = "scan"]
    BY <1>5 DEF EvCheck
  <2>2. ev' \in EvRec
    BY <1>1, <2>1 DEF EvRec
  <2> QED BY <1>1, <1>3, <1>4, <2>1, <2>2, NoL1Step
<1>6. CASE EvScan
  <2>1. UNCHANGED <<l1Vars, order>> /\ ev' = [pc |-> "delete", victims |-> get_victims]
    BY <1>6 DEF EvScan
  <2>2. get_victims \subseteq Keys
    <3> DEFINE E == Selected(order, {k \in Range(order) : is_evictable(k)})
               m == Target(order)
    <3>1. E \in Seq(Keys)
      BY <1>1, SelectedKeeps
    <3>2. m \in Nat
      <4>1. Len(order) \in Nat
        BY <1>1
      <4> QED BY <4>1 DEF Target
    <3>3. get_victims = Range(IF Len(E) <= m THEN E ELSE First(m, E))
      BY DEF get_victims, First
    <3> HIDE DEF E, m
    <3>4. CASE Len(E) <= m
      BY <3>1, <3>3, <3>4, RangeOf
    <3>5. CASE ~(Len(E) <= m)
      <4>1. m <= Len(E)
        BY <3>1, <3>2, <3>5
      <4>2. First(m, E) \in Seq(Keys)
        BY <3>1, <3>2, <4>1, FirstOf
      <4>3. Range(First(m, E)) \subseteq Keys
        BY <4>2, RangeOf
      <4> QED BY <3>3, <3>5, <4>3
    <3> QED BY <3>4, <3>5
  <2>3. ev' \in EvRec
    BY <2>1, <2>2 DEF EvRec
  <2> QED BY <1>1, <1>3, <1>4, <2>1, <2>3, NoL1Step
<1>7. CASE EvDelete
  <2>1. delete(ev.victims, FALSE) /\ on_removed(Deletable(ev.victims, FALSE)) /\ ev' = EvIdle
    BY <1>7 DEF EvDelete
  <2>2. order' \in Seq(Keys)
    BY <1>1, <2>1, WithoutKeeps DEF on_removed
  <2>3. ev' \in EvRec
    BY <2>1 DEF EvIdle, EvRec
  <2>4. ev.victims \in SUBSET Keys
    BY <1>1 DEF EvRec
  <2>5. [L1!Next]_(L1!vars)
    BY <1>4, <2>1, <2>4, DoEvict
  <2> QED BY <1>3, <2>2, <2>3, <2>5
<1> QED BY <1>5, <1>6, <1>7 DEF Eviction

-----------------------------------------------------------------------------

(***************************************************************************)
(* The adapters.                                                           *)
(***************************************************************************)

\* The task a worker is at.
LEMMA CurrentFacts ==
  ASSUME Inv, NEW a \in Adapters, tasks[a] # <<>>
  PROVE  /\ Current(a) = tasks[a][1] /\ 1 \in 1 .. Len(tasks[a])
         /\ Current(a) \in TaskRec /\ Current(a).who \in Submitters /\ TaskOf(a, Current(a))
         /\ Current(a).keys \in Seq(Keys) /\ Current(a).done \in Nat
<1>1. tasks[a] \in Seq(TaskRec)
  BY DEF Inv, ProtoInv, TypeInv, AdapterType
<1>2. Len(tasks[a]) \in Nat /\ Len(tasks[a]) # 0 /\ Head(tasks[a]) = tasks[a][1]
  BY <1>1, EmptySeq
<1>3. 1 \in 1 .. Len(tasks[a])
  BY <1>2
<1> QED BY <1>2, <1>3, TaskFacts DEF Current

\* A task ends.
LEMMA TaskEnds ==
  ASSUME Inv, NEW a \in Adapters, tasks[a] # <<>>, NEW state \in {"done", "failed"}, NEW result \in Nat,
         Complete(a, state, result), UNCHANGED <<pf, st>>,
         Current(a).op = "lookup" /\ state = "done" => result <= Len(pf.missing)
  PROVE  TaskInv' /\ FutureInv'
         /\ tasks' \in [Adapters -> Seq(TaskRec)] /\ futures' \in [Adapters -> [Submitters -> FutureRec]]
<1>1. /\ Current(a) = tasks[a][1] /\ 1 \in 1 .. Len(tasks[a])
      /\ Current(a).who \in Submitters /\ TaskOf(a, Current(a))
  BY CurrentFacts
<1>2. AdapterType
  BY StFacts
<1>3. /\ tasks' \in [Adapters -> Seq(TaskRec)] /\ futures' \in [Adapters -> [Submitters -> FutureRec]]
      /\ \A b \in Adapters : b # a => tasks'[b] = tasks[b]
      /\ \A i \in 1 .. Len(tasks'[a]) : i + 1 \in 1 .. Len(tasks[a]) /\ tasks'[a][i] = tasks[a][i + 1]
      /\ \A b \in Adapters, w \in Submitters :
           futures'[b][w] = IF b = a /\ w = Current(a).who THEN [state |-> state, result |-> result]
                            ELSE futures[b][w]
  <2>1. TaskOver(a, state, result)
    BY <1>2, Completed
  <2> QED BY <2>1 DEF TaskOver
<1>4. ASSUME NEW i \in 1 .. Len(tasks'[a]) PROVE tasks[a][i + 1].who # Current(a).who
  <2>1. i \in Int /\ 1 <= i
    OBVIOUS
  <2>2. i + 1 # 1
    BY <2>1
  <2>3. i + 1 \in 1 .. Len(tasks[a])
    BY <1>3
  <2> QED BY <1>1, <2>2, <2>3 DEF Inv, ProtoInv, TaskInv
<1>5. ASSUME NEW b \in Adapters, NEW i \in 1 .. Len(tasks'[b]) PROVE TaskOf(b, tasks[b][i])'
  <2>1. CASE b # a
    <3>1. tasks'[b] = tasks[b]
      BY <1>3, <2>1
    <3>2. TaskOf(b, tasks[b][i]) /\ tasks[b][i].who \in Submitters
      BY <3>1, TaskFacts
    <3>3. futures'[b][tasks[b][i].who] = futures[b][tasks[b][i].who]
      BY <1>3, <2>1, <3>2
    <3> QED BY <3>1, <3>2, <3>3 DEF TaskOf
  <2>2. CASE b = a
    <3>1. i + 1 \in 1 .. Len(tasks[a]) /\ tasks'[a][i] = tasks[a][i + 1]
      BY <1>3, <2>2
    <3>2. TaskOf(a, tasks[a][i + 1]) /\ tasks[a][i + 1].who \in Submitters
      BY <3>1, TaskFacts
    <3>3. tasks[a][i + 1].who # Current(a).who
      BY <1>4, <2>2
    <3>4. futures'[a][tasks[a][i + 1].who] = futures[a][tasks[a][i + 1].who]
      BY <1>3, <3>2, <3>3
    <3> QED BY <2>2, <3>1, <3>2, <3>4 DEF TaskOf
  <2> QED BY <2>1, <2>2
<1>6. ASSUME NEW b \in Adapters, NEW i \in 1 .. Len(tasks'[b]), NEW j \in 1 .. Len(tasks'[b]),
             tasks'[b][i].who = tasks'[b][j].who
      PROVE  i = j
  <2>1. CASE b # a
    <3>1. tasks'[b] = tasks[b]
      BY <1>3, <2>1
    <3> QED BY <1>6, <3>1 DEF Inv, ProtoInv, TaskInv
  <2>2. CASE b = a
    <3>1. /\ i + 1 \in 1 .. Len(tasks[a]) /\ j + 1 \in 1 .. Len(tasks[a])
          /\ tasks[a][i + 1].who = tasks[a][j + 1].who
      BY <1>3, <1>6, <2>2
    <3>2. i + 1 = j + 1
      BY <3>1 DEF Inv, ProtoInv, TaskInv
    <3>3. i \in Int /\ j \in Int
      BY <1>3
    <3> QED BY <3>2, <3>3
  <2> QED BY <2>1, <2>2
<1>7. TaskInv'
  BY <1>5, <1>6 DEF TaskInv
<1>8. "prefetch" \in Submitters /\ "store" \in Submitters /\ Submitters = {"prefetch", "store"}
  BY DEF Submitters
<1>9. FutureInv'
  <2>1. CASE Current(a).who = "store"
    <3>1. st.pc \in {"wait", "dead"}
      BY <1>1, <2>1 DEF TaskOf
    <3>2. \A b \in Adapters : futures'[b]["prefetch"] = futures[b]["prefetch"]
      BY <1>3, <1>8, <2>1
    <3> QED BY <3>1, <3>2 DEF Inv, ProtoInv, FutureInv
  <2>2. CASE Current(a).who = "prefetch"
    <3>1. /\ pf.pc \in {"lookups", "loading", "dead"} /\ futures[a]["prefetch"].state = "pending"
          /\ (pf.pc = "lookups" => Current(a).op = "lookup")
      BY <1>1, <2>2 DEF TaskOf
    <3>2. \A b \in Adapters : futures'[b]["store"] = futures[b]["store"]
      BY <1>3, <1>8, <2>2
    <3>3. \A b \in Adapters : futures'[b]["prefetch"] =
            IF b = a THEN [state |-> state, result |-> result] ELSE futures[b]["prefetch"]
      BY <1>3, <1>8, <2>2
    <3>4. pf.pc = "lookups" => \A b \in Adapters :
            futures'[b]["prefetch"].state = "done" => futures'[b]["prefetch"].result <= Len(pf.missing)
      BY <3>1, <3>3 DEF Inv, ProtoInv, FutureInv
    <3>5. pf.pc = "loading" => \A b \in Adapters : b # a => futures'[b]["prefetch"].state = "none"
      BY <3>1, <3>3 DEF Inv, ProtoInv, FutureInv
    <3> QED BY <3>1, <3>2, <3>4, <3>5 DEF Inv, ProtoInv, FutureInv
  <2> QED BY <1>1, <1>8, <2>1, <2>2
<1> QED BY <1>3, <1>7, <1>9

\* One more key of a task is done.
LEMMA TaskGoesOn ==
  ASSUME Inv, NEW a \in Adapters, tasks[a] # <<>>, Current(a).done + 1 < Len(Current(a).keys),
         tasks' = [tasks EXCEPT ![a][1].done = @ + 1], UNCHANGED <<futures, pf, st>>
  PROVE  /\ TaskInv' /\ FutureInv'
         /\ tasks' \in [Adapters -> Seq(TaskRec)] /\ futures' \in [Adapters -> [Submitters -> FutureRec]]
         /\ \A b \in Adapters : Len(tasks'[b]) = Len(tasks[b])
         /\ \A b \in Adapters : \A i \in 1 .. Len(tasks[b]) :
              tasks'[b][i] = IF b = a /\ i = 1 THEN [Current(a) EXCEPT !.done = @ + 1] ELSE tasks[b][i]
<1> DEFINE t == [Current(a) EXCEPT !.done = @ + 1]
<1>1. /\ Current(a) = tasks[a][1] /\ 1 \in 1 .. Len(tasks[a]) /\ Current(a) \in TaskRec
      /\ Current(a).who \in Submitters /\ TaskOf(a, Current(a)) /\ Current(a).done \in Nat
  BY CurrentFacts
<1>2. tasks \in [Adapters -> Seq(TaskRec)] /\ futures \in [Adapters -> [Submitters -> FutureRec]]
  BY StFacts DEF AdapterType
<1>3. /\ t \in TaskRec /\ t.who = Current(a).who /\ t.op = Current(a).op /\ t.keys = Current(a).keys
      /\ t.objs = Current(a).objs /\ t.done = Current(a).done + 1
  BY <1>1 DEF TaskRec
<1>4. tasks' = [tasks EXCEPT ![a] = [tasks[a] EXCEPT ![1] = t]]
  BY <1>1, <1>2
<1> HIDE DEF t
<1>5. tasks[a] \in Seq(TaskRec)
  BY <1>2
<1>6. /\ [tasks[a] EXCEPT ![1] = t] \in Seq(TaskRec)
      /\ Len([tasks[a] EXCEPT ![1] = t]) = Len(tasks[a])
      /\ \A i \in 1 .. Len(tasks[a]) : [tasks[a] EXCEPT ![1] = t][i] = IF i = 1 THEN t ELSE tasks[a][i]
  BY <1>1, <1>3, <1>5, ExceptSeq
<1>7. /\ tasks' \in [Adapters -> Seq(TaskRec)]
      /\ \A b \in Adapters : Len(tasks'[b]) = Len(tasks[b])
      /\ \A b \in Adapters : \A i \in 1 .. Len(tasks[b]) :
           tasks'[b][i] = IF b = a /\ i = 1 THEN t ELSE tasks[b][i]
  BY <1>2, <1>4, <1>6
<1>8. \A b \in Adapters : \A i \in 1 .. Len(tasks[b]) : tasks'[b][i].who = tasks[b][i].who
  BY <1>1, <1>3, <1>7
<1>9. TaskInv'
  <2>1. ASSUME NEW b \in Adapters, NEW i \in 1 .. Len(tasks'[b]) PROVE TaskOf(b, tasks[b][i])'
    <3>0. i \in 1 .. Len(tasks[b])
      BY <1>7
    <3>1. CASE b = a /\ i = 1
      BY <1>1, <1>3, <1>7, <3>0, <3>1 DEF TaskOf
    <3>2. CASE ~(b = a /\ i = 1)
      <4>1. tasks'[b][i] = tasks[b][i] /\ TaskOf(b, tasks[b][i])
        BY <1>7, <3>0, <3>2, TaskFacts
      <4> QED BY <4>1 DEF TaskOf
    <3> QED BY <3>1, <3>2
  <2>2. ASSUME NEW b \in Adapters, NEW i \in 1 .. Len(tasks'[b]), NEW j \in 1 .. Len(tasks'[b]),
               tasks'[b][i].who = tasks'[b][j].who
        PROVE  i = j
    <3>1. i \in 1 .. Len(tasks[b]) /\ j \in 1 .. Len(tasks[b])
      BY <1>7
    <3> QED BY <1>8, <2>2, <3>1 DEF Inv, ProtoInv, TaskInv
  <2> QED BY <2>1, <2>2 DEF TaskInv
<1>10. FutureInv'
  BY DEF Inv, ProtoInv, FutureInv
<1> QED BY <1>2, <1>7, <1>9, <1>10 DEF t
\* A key of a task is done.
LEMMA AdvanceStep ==
  ASSUME Inv, NEW a \in Adapters, tasks[a] # <<>>, Current(a).op # "lookup", Advance(a), UNCHANGED <<pf, st>>
  PROVE  /\ TaskInv' /\ FutureInv'
         /\ tasks' \in [Adapters -> Seq(TaskRec)] /\ futures' \in [Adapters -> [Submitters -> FutureRec]]
<1>1. /\ Current(a).keys \in Seq(Keys) /\ Current(a).done \in Nat /\ TaskOf(a, Current(a))
  BY CurrentFacts
<1>2. Current(a).done < Len(Current(a).keys) /\ Len(Current(a).keys) \in Nat
  BY <1>1 DEF TaskOf
<1>3. CASE LastKey(a)
  <2>1. Complete(a, "done", Len(Current(a).keys))
    BY <1>3 DEF Advance
  <2> QED BY <1>2, <2>1, TaskEnds
<1>4. CASE ~LastKey(a)
  <2>1. tasks' = [tasks EXCEPT ![a][1].done = @ + 1] /\ UNCHANGED futures
    BY <1>4 DEF Advance
  <2>2. Current(a).done + 1 < Len(Current(a).keys)
    BY <1>1, <1>2, <1>4 DEF LastKey
  <2> QED BY <2>1, <2>2, TaskGoesOn
<1> QED BY <1>3, <1>4

\* A load task fills the slices of the chunks the prefetch thread reserved.
LEMMA NextLoaded ==
  ASSUME Inv, NEW a \in Adapters, Running(a, "load")
  PROVE  /\ pf.pc \in {"loading", "dead"} /\ pf.rid \in Requests
         /\ pf.loaded + Current(a).done + 1 \in 1 .. Len(pf.load)
         /\ NextKey(a) = pf.load[pf.loaded + Current(a).done + 1]
         /\ NextObj(a) = pf.objs[pf.loaded + Current(a).done + 1]
         /\ NextKey(a) \in DOMAIN entries /\ NextObj(a) = entries[NextKey(a)].obj
         /\ NextKey(a) \in Keys /\ NextKey(a) \in WritingFor(pf.rid)
<1>1. /\ tasks[a] # <<>> /\ Current(a).op = "load"
  BY DEF Running
<1>2. /\ TaskOf(a, Current(a)) /\ Current(a).done \in Nat /\ Current(a).keys \in Seq(Keys)
  BY <1>1, CurrentFacts
<1>3. /\ pf.pc \in {"loading", "dead"} /\ Current(a).keys = After(pf.loaded, pf.load)
      /\ Current(a).objs = After(pf.loaded, pf.objs) /\ Current(a).done < Len(Current(a).keys)
  BY <1>1, <1>2 DEF TaskOf
<1>4. pf.load \in Seq(Keys) /\ pf.objs \in Seq(MemoryObj) /\ pf.loaded \in Nat
  BY PfFacts
<1>5. Slices(pf.objs, pf.load) /\ pf.loaded <= Len(pf.load) /\ Len(pf.objs) = Len(pf.load)
  BY <1>3 DEF Inv, DataInv, PfData, FilledTo, Slices
<1>6. pf.rid \in Requests
  BY <1>3 DEF Inv, ProtoInv, PfInv
<1> DEFINE n == pf.loaded
           d == Current(a).done
           m == Len(pf.load)
<1>7. n \in Nat /\ d \in Nat /\ m \in Nat /\ n <= m
  BY <1>2, <1>4, <1>5
<1>8. Len(Current(a).keys) = m - n
  BY <1>3, <1>4, <1>5, RestOf
<1>9. \A i \in 1 .. (m - n) : After(n, pf.load)[i] = pf.load[n + i]
  BY <1>4, <1>5, RestAt
<1>10. \A i \in 1 .. (m - n) : After(n, pf.objs)[i] = pf.objs[n + i]
  <2>1. n <= Len(pf.objs) /\ Len(pf.objs) = m
    BY <1>5
  <2>2. \A i \in 1 .. (Len(pf.objs) - n) : After(n, pf.objs)[i] = pf.objs[n + i]
    BY <1>4, <2>1, RestAt
  <2> QED BY <2>1, <2>2
<1>11. NextKey(a) = After(n, pf.load)[d + 1] /\ NextObj(a) = After(n, pf.objs)[d + 1]
  BY <1>3 DEF NextKey, NextObj
<1>12. d < m - n
  BY <1>3, <1>8
<1> HIDE DEF n, d, m
<1>13. d + 1 \in 1 .. (m - n) /\ n + d + 1 \in 1 .. m /\ n + (d + 1) = n + d + 1
  BY <1>7, <1>12
<1>14. NextKey(a) = pf.load[n + d + 1] /\ NextObj(a) = pf.objs[n + d + 1]
  BY <1>9, <1>10, <1>11, <1>13
<1>15. n + d + 1 \in 1 .. Len(pf.load)
  BY <1>13 DEF m
<1> DEFINE j == n + d + 1
<1>16. j \in 1 .. Len(pf.load) /\ NextKey(a) = pf.load[j] /\ NextObj(a) = pf.objs[j]
  BY <1>14, <1>15
<1>17. pf.loaded + Current(a).done + 1 = j
  BY DEF n, d
<1> HIDE DEF j
<1>18. NextKey(a) \in DOMAIN entries /\ NextObj(a) = entries[NextKey(a)].obj
  BY <1>5, <1>16 DEF Slices
<1>19. NextKey(a) \in Keys /\ NextKey(a) \in Range(pf.load)
  BY <1>4, <1>16, RangeOf
<1>20. NextKey(a) \in WritingFor(pf.rid)
  BY <1>19, WritingIs
<1> QED BY <1>3, <1>6, <1>16, <1>17, <1>18, <1>19, <1>20

\* The worker of an adapter takes one key further.
LEMMA WorkerStep ==
  ASSUME Inv, NEW a \in Adapters, Worker(a), UNCHANGED <<handlers, cl, lost>>
  PROVE  [L1!Next]_(L1!vars) /\ ProtoInv'
<1>0. Work(a) /\ UNCHANGED <<allocVars, entries, order, prefetchVars, storeVars, ev>>
  BY DEF Worker
<1>1. UNCHANGED <<pf, st, pending>>
  BY <1>0 DEF prefetchVars, storeVars
<1>2. /\ st \in StRec /\ pending \in Seq(Seq(Keys)) /\ order \in Seq(Keys)
      /\ ev \in EvRec /\ AdapterType
  BY StFacts
<1>3. StInv'
  BY <1>1 DEF Inv, ProtoInv, StInv
<1>4. Writing' = Writing /\ Holds' = Holds
  BY <1>0, <1>1, BackgroundOwners
<1>5. AdapterType' /\ TaskInv' /\ FutureInv' => ProtoInv'
  BY <1>0, <1>1, <1>2, <1>3, BackgroundFrame
<1>6. pool' = pool => [L1!Next]_(L1!vars)
  BY <1>0, <1>4, NoL1Step DEF l1Vars, poolVars, allocVars
<1>7. CASE store(a)
  <2>1. Running(a, "store") /\ Advance(a) /\ UNCHANGED pool
    BY <1>7 DEF store
  <2>2. tasks[a] # <<>> /\ Current(a).op # "lookup"
    BY <2>1 DEF Running
  <2>3. /\ TaskInv' /\ FutureInv'
        /\ tasks' \in [Adapters -> Seq(TaskRec)] /\ futures' \in [Adapters -> [Submitters -> FutureRec]]
    BY <1>1, <2>1, <2>2, AdvanceStep
  <2>4. DOMAIN stored' = Adapters
    BY <1>2, <1>7 DEF store, AdapterType
  <2> QED BY <1>5, <1>6, <2>1, <2>3, <2>4 DEF AdapterType
<1>8. CASE lookup(a)
  <2>1. /\ Running(a, "lookup") /\ UNCHANGED <<pool, stored>>
        /\ \E n \in 0 .. Len(Current(a).keys) : Complete(a, "done", n)
    BY <1>8 DEF lookup
  <2>2. tasks[a] # <<>> /\ Current(a).op = "lookup"
    BY <2>1 DEF Running
  <2>3. Current(a).keys = pf.missing
    BY <2>2, CurrentFacts DEF TaskOf
  <2>4. PICK n \in 0 .. Len(pf.missing) : Complete(a, "done", n)
    BY <2>1, <2>3
  <2>5. pf.missing \in Seq(Keys)
    BY PfFacts
  <2>6. n \in Nat /\ n <= Len(pf.missing)
    BY <2>5
  <2>7. /\ TaskInv' /\ FutureInv'
        /\ tasks' \in [Adapters -> Seq(TaskRec)] /\ futures' \in [Adapters -> [Submitters -> FutureRec]]
    BY <1>1, <2>2, <2>4, <2>6, TaskEnds
  <2>8. AdapterType'
    BY <1>2, <2>1, <2>7 DEF AdapterType
  <2> QED BY <1>5, <1>6, <2>1, <2>7, <2>8
<1>9. CASE load(a)
  <2>1. Running(a, "load") /\ UNCHANGED stored
    BY <1>9 DEF load
  <2>2. tasks[a] # <<>> /\ Current(a).op = "load"
    BY <2>1 DEF Running
  <2>3. /\ pf.rid \in Requests
        /\ NextKey(a) \in DOMAIN entries /\ NextObj(a) = entries[NextKey(a)].obj
        /\ NextKey(a) \in Keys /\ NextKey(a) \in WritingFor(pf.rid)
    BY <2>1, NextLoaded
  <2>4. CASE NextKey(a) \in DOMAIN stored[a]
    <3>1. write_bytes(NextObj(a), stored[a][NextKey(a)]) /\ Advance(a)
      BY <1>9, <2>4 DEF load
    <3>2. stored[a][NextKey(a)] = NextKey(a)
      BY <2>4 DEF Inv, DataInv, L2Integrity
    <3>3. /\ TaskInv' /\ FutureInv'
          /\ tasks' \in [Adapters -> Seq(TaskRec)] /\ futures' \in [Adapters -> [Submitters -> FutureRec]]
      BY <1>1, <2>2, <3>1, AdvanceStep
    <3>4. AdapterType'
      BY <1>2, <2>1, <3>3 DEF AdapterType
    <3>5. pf.rid \in L1Clients /\ NextKey(a) \in Writing[pf.rid]
      BY <2>3, Owners
    <3>6. write_bytes(entries[NextKey(a)].obj, NextKey(a))
      BY <2>3, <3>1, <3>2
    <3>7. [L1!Next]_(L1!vars)
      BY <1>0, <1>4, <2>3, <3>5, <3>6, DoFill
    <3> QED BY <1>5, <3>3, <3>4, <3>7
  <2>5. CASE NextKey(a) \notin DOMAIN stored[a]
    <3>1. Complete(a, "done", Current(a).done) /\ UNCHANGED pool
      BY <1>9, <2>5 DEF load
    <3>2. Current(a).done \in Nat
      BY <2>2, CurrentFacts
    <3>3. /\ TaskInv' /\ FutureInv'
          /\ tasks' \in [Adapters -> Seq(TaskRec)] /\ futures' \in [Adapters -> [Submitters -> FutureRec]]
      BY <1>1, <2>2, <3>1, <3>2, TaskEnds
    <3>4. AdapterType'
      BY <1>2, <2>1, <3>3 DEF AdapterType
    <3> QED BY <1>5, <1>6, <3>1, <3>3, <3>4
  <2> QED BY <2>4, <2>5
<1> QED BY <1>0, <1>7, <1>8, <1>9 DEF Work

\* A task raises, or a file disappears.
LEMMA StorageStep ==
  ASSUME Inv, NEW a \in Adapters, Storage(a), UNCHANGED <<handlers, cl, lost>>
  PROVE  [L1!Next]_(L1!vars) /\ ProtoInv'
<1>0. /\ TaskFails(a) \/ \E k \in Keys : Lose(a, k)
      /\ UNCHANGED <<allocVars, entries, order, prefetchVars, storeVars, ev, pool>>
  BY DEF Storage, TaskFails, Lose
<1>1. UNCHANGED <<pf, st, pending>>
  BY <1>0 DEF prefetchVars, storeVars
<1>2. /\ st \in StRec /\ pending \in Seq(Seq(Keys)) /\ order \in Seq(Keys)
      /\ ev \in EvRec /\ AdapterType
  BY StFacts
<1>3. StInv'
  BY <1>1 DEF Inv, ProtoInv, StInv
<1>4. Writing' = Writing /\ Holds' = Holds
  BY <1>0, <1>1, BackgroundOwners
<1>5. AdapterType' /\ TaskInv' /\ FutureInv' => ProtoInv'
  BY <1>0, <1>1, <1>2, <1>3, BackgroundFrame
<1>6. [L1!Next]_(L1!vars)
  BY <1>0, <1>4, NoL1Step DEF l1Vars, poolVars, allocVars
<1>7. CASE TaskFails(a)
  <2>1. tasks[a] # <<>> /\ Complete(a, "failed", 0) /\ UNCHANGED stored
    BY <1>7 DEF TaskFails
  <2>2. /\ TaskInv' /\ FutureInv'
        /\ tasks' \in [Adapters -> Seq(TaskRec)] /\ futures' \in [Adapters -> [Submitters -> FutureRec]]
    BY <1>1, <2>1, TaskEnds
  <2> QED BY <1>2, <1>5, <1>6, <2>1, <2>2 DEF AdapterType
<1>8. CASE \E k \in Keys : Lose(a, k)
  <2>1. UNCHANGED <<tasks, futures>> /\ DOMAIN stored' = Adapters
    BY <1>2, <1>8 DEF Lose, AdapterType
  <2>2. TaskInv'
    <3>1. ASSUME NEW b \in Adapters, NEW i \in 1 .. Len(tasks[b]) PROVE TaskOf(b, tasks[b][i])'
      <4>1. TaskOf(b, tasks[b][i])
        BY TaskFacts
      <4> QED BY <1>1, <2>1, <4>1 DEF TaskOf
    <3> QED BY <2>1, <3>1 DEF Inv, ProtoInv, TaskInv
  <2>3. FutureInv'
    BY <1>1, <2>1 DEF Inv, ProtoInv, FutureInv
  <2> QED BY <1>2, <1>5, <1>6, <2>1, <2>2, <2>3 DEF AdapterType
<1> QED BY <1>0, <1>7, <1>8

-----------------------------------------------------------------------------

(***************************************************************************)
(* The whole server.                                                       *)
(***************************************************************************)

\* A step that changes none of the threads and handlers.
LEMMA StutterStep ==
  ASSUME Inv, UNCHANGED vars
  PROVE  [L1!Next]_(L1!vars) /\ ProtoInv'
<1>0. UNCHANGED <<handlers, cl, lost, prefetchVars, storeVars, ev, order, l2Vars, l1Vars>>
  BY DEF vars, serverVars, smVars
<1>1. UNCHANGED <<pf, st, pending, tasks, futures, stored>>
  BY <1>0 DEF prefetchVars, storeVars, l2Vars
<1>2. /\ st \in StRec /\ pending \in Seq(Seq(Keys)) /\ order \in Seq(Keys)
      /\ ev \in EvRec /\ AdapterType
  BY StFacts
<1>3. StInv'
  BY <1>1 DEF Inv, ProtoInv, StInv
<1>4. Writing' = Writing /\ Holds' = Holds
  BY <1>0, <1>1, BackgroundOwners
<1>5. AdapterType'
  BY <1>1, <1>2 DEF AdapterType
<1>6. TaskInv'
  <2>1. ASSUME NEW b \in Adapters, NEW i \in 1 .. Len(tasks[b]) PROVE TaskOf(b, tasks[b][i])'
    <3>1. TaskOf(b, tasks[b][i])
      BY TaskFacts
    <3> QED BY <1>1, <3>1 DEF TaskOf
  <2> QED BY <1>1, <2>1 DEF Inv, ProtoInv, TaskInv
<1>7. FutureInv'
  BY <1>1 DEF Inv, ProtoInv, FutureInv
<1>8. ProtoInv'
  BY <1>0, <1>1, <1>2, <1>3, <1>5, <1>6, <1>7, BackgroundFrame
<1> QED BY <1>0, <1>4, <1>8, NoL1Step

\* Every step of the server is a step of lawful clients of L1, or none of
\* L1's concern.
LEMMA NextStep ==
  ASSUME Inv, [Next]_vars
  PROVE  [L1!Next]_(L1!vars) /\ ProtoInv'
<1>1. CASE Background
  <2>1. UNCHANGED <<handlers, cl, lost>>
    BY <1>1 DEF Background, serverVars
  <2>2. Prefetch \/ Store \/ Eviction \/ \E a \in Adapters : Worker(a) \/ Storage(a)
    BY <1>1 DEF Background
  <2>3. CASE Store
    BY <2>1, <2>3, StGetStep, StSubmitStep, StWaitStep, StDiesStep DEF Store
  <2> QED BY <2>1, <2>2, <2>3, PrefetchStep, EvictionStep, WorkerStep, StorageStep
<1>2. CASE Waiting \/ UNCHANGED vars
  BY <1>2, StutterStep DEF Waiting
<1> QED BY <1>1, <1>2, ClientSteps, RankStep, HandleStep DEF Next
-----------------------------------------------------------------------------

(***************************************************************************)
(* Slices and bytes stay: the contract keeps those of every owned chunk.   *)
(***************************************************************************)

\* What is known of a step, once NextStep holds.
Lawful == [L1!Next]_(L1!vars) /\ ProtoInv' /\ L1!IInv'

\* Slices and FilledTo, of a given table of entries and a given pool.
SlicesIn(E, objs, keys) ==
  /\ Len(objs) = Len(keys)
  /\ \A i \in 1 .. Len(keys) : keys[i] \in DOMAIN E /\ objs[i] = E[keys[i]].obj

FilledIn(P, objs, keys, n) ==
  n <= Len(keys) /\ \A i \in 1 .. n : \A b \in Slice(objs[i]) : P[b] = keys[i]

\* A list of chunks that have entries before and after a step.
LEMMA ListStays ==
  ASSUME Inv, Lawful, NEW objs, NEW keys \in Seq(Keys), Slices(objs, keys),
         \A i \in 1 .. Len(keys) : keys[i] \in DOMAIN entries'
  PROVE  /\ SlicesIn(entries', objs, keys)
         /\ \A n \in Nat : FilledTo(objs, keys, n) => FilledIn(pool', objs, keys, n)
<1>1. L1!IInv /\ [L1!Next]_(L1!vars)
  BY DEF Inv, Lawful
<1>2. /\ Len(objs) = Len(keys)
      /\ \A i \in 1 .. Len(keys) : keys[i] \in DOMAIN entries /\ objs[i] = entries[keys[i]].obj
  BY DEF Slices
<1>3. \A i \in 1 .. Len(keys) : entries'[keys[i]].obj = objs[i]
  BY <1>1, <1>2, ContractStep
<1>4. SlicesIn(entries', objs, keys)
  BY <1>2, <1>3 DEF SlicesIn
<1>5. ASSUME NEW n \in Nat, FilledTo(objs, keys, n) PROVE FilledIn(pool', objs, keys, n)
  <2>1. n <= Len(keys) /\ \A i \in 1 .. n : HasBytes(objs[i], keys[i])
    BY <1>5 DEF FilledTo
  <2>2. ASSUME NEW i \in 1 .. n PROVE \A b \in Slice(objs[i]) : pool'[b] = keys[i]
    <3>0. i \in 1 .. Len(keys)
      <4>1. Len(keys) \in Nat
        OBVIOUS
      <4> QED BY <2>1, <4>1
    <3> DEFINE k == keys[i]
    <3>1. /\ k \in DOMAIN entries /\ k \in DOMAIN entries' /\ objs[i] = entries[k].obj
          /\ entries'[k].obj = objs[i]
      BY <1>2, <1>3, <3>0
    <3>2. HasBytes(entries[k].obj, k)
      BY <2>1, <3>1
    <3> HIDE DEF k
    <3>3. HasBytes(entries[k].obj, k)'
      BY <1>1, <3>1, <3>2, BytesStay
    <3>4. \A b \in Slice(objs[i]) : pool'[b] = k
      BY <3>1, <3>3 DEF HasBytes
    <3> QED BY <3>4 DEF k
  <2> QED BY <2>1, <2>2 DEF FilledIn
<1> QED BY <1>4, <1>5

\* The chunks that are owned after a step have entries.
LEMMA OwnedNext ==
  ASSUME Lawful
  PROVE  /\ \A h \in handlers' : Writes(h) => \A k \in Range(h.keys) : k \in DOMAIN entries'
         /\ pf'.pc # "get" => \A k \in Range(pf'.load) : k \in DOMAIN entries'
         /\ \A k \in Range(st'.keys) : k \in DOMAIN entries'
<1>1. L1!WriterExclusive' /\ L1!CountsMatchHolds'
  BY DEF Lawful, L1!IInv
<1>2. /\ \A c \in L1Clients : \A k \in Writing'[c] : k \in DOMAIN entries'
      /\ \A c \in L1Clients : \A k \in Holds'[c] : k \in DOMAIN entries'
  BY <1>1 DEF L1!WriterExclusive, L1!CountsMatchHolds, L1!readable
<1>3. \A r \in Requests : \A k \in WritingFor(r)' : k \in DOMAIN entries'
  BY <1>2, Owners
<1>4. \A h \in handlers' : h.rid \in Requests
  BY DEF Lawful, ProtoInv, TypeInv, ServerType, HandlerRec
<1>5. ASSUME NEW h \in handlers', Writes(h), NEW k \in Range(h.keys) PROVE k \in DOMAIN entries'
  <2>1. HandlerWrites(h.rid, k)'
    BY <1>5 DEF HandlerWrites, Writes
  <2>2. k \in WritingFor(h.rid)'
    BY <2>1, WritingIsNext
  <2> QED BY <1>3, <1>4, <2>2
<1>6. ASSUME pf'.pc # "get", NEW k \in Range(pf'.load) PROVE k \in DOMAIN entries'
  <2>1. pf'.rid \in Requests
    BY <1>6 DEF Lawful, ProtoInv, PfInv
  <2>3. PICK r \in Requests : r = pf'.rid
    BY <2>1
  <2>4. k \in WritingFor(r)'
    BY <1>6, <2>3, WritingIsNext
  <2> QED BY <1>3, <2>3, <2>4
<1>7. ASSUME NEW k \in Range(st'.keys) PROVE k \in DOMAIN entries'
  BY <1>2, <1>7, Owners
<1> QED BY <1>5, <1>6, <1>7

\* The STORE handlers that do not move.
LEMMA StoreDataStays ==
  ASSUME Inv, Lawful, NEW h \in handlers, h \in handlers', h.kind = "STORE"
  PROVE  StoreData(h)'
<1>1. StoreData(h)
  BY DEF Inv, DataInv
<1>2. h.keys \in Seq(Keys) /\ h.n \in Nat
  BY HandlerFacts
<1>3. CASE ~Writes(h)
  BY <1>1, <1>3 DEF StoreData, Writes
<1>4. CASE Writes(h)
  <2>1. Slices(h.objs, h.keys) /\ FilledTo(h.objs, h.keys, h.n) /\ \A k \in Range(h.keys) : ~entries[k].is_temporary
    BY <1>1, <1>4 DEF StoreData
  <2>2. \A k \in Range(h.keys) : k \in DOMAIN entries' /\ k \in DOMAIN entries
    BY <1>4, OwnedNext, WrittenHasEntry
  <2>3. \A i \in 1 .. Len(h.keys) : h.keys[i] \in DOMAIN entries'
    BY <1>2, <2>2, RangeOf
  <2>4. SlicesIn(entries', h.objs, h.keys) /\ FilledIn(pool', h.objs, h.keys, h.n)
    BY <1>2, <2>1, <2>3, ListStays
  <2>5. Slices(h.objs, h.keys)' /\ FilledTo(h.objs, h.keys, h.n)'
    BY <2>4 DEF SlicesIn, FilledIn, Slices, FilledTo, HasBytes
  <2>6. \A k \in Range(h.keys) : ~entries'[k].is_temporary
    BY <2>1, <2>2, ContractAssumptions, PoolAssumption, L1!PermanentStays DEF Inv, Lawful
  <2> QED BY <1>1, <2>5, <2>6 DEF StoreData
<1> QED BY <1>3, <1>4

\* The prefetch thread's slices, when it keeps its list.
LEMMA LoadStays ==
  ASSUME Inv, Lawful, pf.pc \in {"reserve", "load", "loading", "dead"}, pf'.pc # "get",
         pf'.load = pf.load
  PROVE  /\ SlicesIn(entries', pf.objs, pf.load)
         /\ \A n \in Nat : FilledTo(pf.objs, pf.load, n) => FilledIn(pool', pf.objs, pf.load, n)
<1>1. Slices(pf.objs, pf.load)
  BY DEF Inv, DataInv, PfData
<1>2. pf.load \in Seq(Keys)
  BY PfFacts
<1>3. \A i \in 1 .. Len(pf.load) : pf.load[i] \in DOMAIN entries'
  BY <1>2, OwnedNext, RangeOf
<1> QED BY <1>1, <1>2, <1>3, ListStays

\* The tasks of the prefetch thread, when it does not move.
LEMMA LoadDataStays ==
  ASSUME Inv, Lawful, pf' = pf,
         \A a \in Adapters : \A i \in 1 .. Len(tasks'[a]) : tasks'[a][i].op = "load" =>
           FilledTo(pf.objs, pf.load, pf.loaded + tasks'[a][i].done),
         pf.pc = "loading" => \A a \in Adapters : futures'[a]["prefetch"].state = "done" =>
           FilledTo(pf.objs, pf.load, pf.loaded + futures'[a]["prefetch"].result)
  PROVE  LoadData'
<1>0. /\ tasks' \in [Adapters -> Seq(TaskRec)] /\ futures' \in [Adapters -> [Submitters -> FutureRec]]
      /\ TaskInv'
  BY DEF Lawful, ProtoInv, TypeInv, AdapterType
<1>1. pf.loaded \in Nat
  BY PfFacts
<1>2. ASSUME NEW n \in Nat, FilledTo(pf.objs, pf.load, n), pf.pc \in {"loading", "dead"}
      PROVE  FilledTo(pf.objs, pf.load, n)'
  <2>1. FilledIn(pool', pf.objs, pf.load, n)
    BY <1>2, LoadStays
  <2> QED BY <2>1 DEF FilledIn, FilledTo, HasBytes
<1>3. ASSUME NEW a \in Adapters, NEW i \in 1 .. Len(tasks'[a]), tasks'[a][i].op = "load"
      PROVE  FilledTo(pf.objs, pf.load, pf.loaded + tasks[a][i].done)'
  <2>1. TaskOf(a, tasks[a][i])'
    BY <1>0 DEF TaskInv
  <2>2. pf.pc \in {"loading", "dead"}
    BY <1>3, <2>1 DEF TaskOf
  <2>3. tasks'[a][i] \in TaskRec
    BY <1>0
  <2>4. pf.loaded + tasks'[a][i].done \in Nat
    BY <1>1, <2>3 DEF TaskRec
  <2>5. FilledTo(pf.objs, pf.load, pf.loaded + tasks'[a][i].done)
    BY <1>3
  <2>6. FilledIn(pool', pf.objs, pf.load, pf.loaded + tasks'[a][i].done)
    BY <2>2, <2>4, <2>5, LoadStays
  <2> QED BY <2>6 DEF FilledIn, FilledTo, HasBytes
<1>4. ASSUME pf.pc = "loading", NEW a \in Adapters, futures'[a]["prefetch"].state = "done"
      PROVE  FilledTo(pf.objs, pf.load, pf.loaded + futures[a]["prefetch"].result)'
  <2>1. futures'[a]["prefetch"] \in FutureRec
    BY <1>0 DEF Submitters
  <2>2. pf.loaded + futures'[a]["prefetch"].result \in Nat
    BY <1>1, <2>1 DEF FutureRec
  <2>3. FilledTo(pf.objs, pf.load, pf.loaded + futures'[a]["prefetch"].result)
    BY <1>4
  <2>4. FilledIn(pool', pf.objs, pf.load, pf.loaded + futures'[a]["prefetch"].result)
    BY <1>4, <2>2, <2>3, LoadStays
  <2> QED BY <2>4 DEF FilledIn, FilledTo, HasBytes
<1> QED BY <1>3, <1>4 DEF LoadData

\* The data of a step of other threads.
LEMMA DataFrame ==
  ASSUME Inv, Lawful
  PROVE  /\ handlers' = handlers => \A h \in handlers' : h.kind = "STORE" => StoreData(h)'
         /\ pf' = pf => PfData'
         /\ pf' = pf /\ UNCHANGED <<tasks, futures>> => LoadData'
         /\ st' = st => Slices(st.objs, st.keys)'
         /\ stored' = stored => L2Integrity'
<1>1. handlers' = handlers => \A h \in handlers' : h.kind = "STORE" => StoreData(h)'
  BY StoreDataStays
<1>2. ASSUME pf' = pf PROVE PfData'
  <2>1. CASE pf.pc \in {"reserve", "load", "loading", "dead"}
    <3>1. pf.loaded \in Nat /\ FilledTo(pf.objs, pf.load, pf.loaded)
      BY <2>1, PfFacts DEF Inv, DataInv, PfData
    <3>2. SlicesIn(entries', pf.objs, pf.load) /\ FilledIn(pool', pf.objs, pf.load, pf.loaded)
      BY <1>2, <2>1, <3>1, LoadStays
    <3> QED BY <1>2, <3>2 DEF SlicesIn, FilledIn, PfData, Slices, FilledTo, HasBytes
  <2>2. CASE pf.pc \notin {"reserve", "load", "loading", "dead"}
    BY <1>2, <2>2 DEF PfData
  <2> QED BY <2>1, <2>2
<1>3. ASSUME pf' = pf, UNCHANGED <<tasks, futures>> PROVE LoadData'
  BY <1>3, LoadDataStays DEF Inv, DataInv, LoadData
<1>4. ASSUME st' = st PROVE Slices(st.objs, st.keys)'
  <2>1. st.keys \in Seq(Keys) /\ Slices(st.objs, st.keys)
    BY StFacts DEF Inv, DataInv
  <2>2. \A i \in 1 .. Len(st.keys) : st.keys[i] \in DOMAIN entries'
    BY <1>4, <2>1, OwnedNext, RangeOf
  <2>3. SlicesIn(entries', st.objs, st.keys)
    BY <2>1, <2>2, ListStays
  <2> QED BY <1>4, <2>3 DEF SlicesIn, Slices
<1>5. stored' = stored => L2Integrity'
  BY DEF Inv, DataInv, L2Integrity
<1> QED BY <1>1, <1>2, <1>3, <1>4, <1>5
-----------------------------------------------------------------------------

(***************************************************************************)
(* The data of each step.                                                  *)
(***************************************************************************)

\* Handlers that have no slices yet.
Fresh(h) == h.kind = "STORE" => h.pc = "start" /\ h.n = 0 /\ h.objs = <<>>
NewHandlers(H) == \A h \in H : Fresh(h)

\* A step of a connector starts handlers that have no slices yet.
LEMMA ClientData ==
  ASSUME Inv, Lawful, NEW r \in Requests, Client(r)
  PROVE  DataInv'
<1>1. UNCHANGED smVars
  BY DEF Client, SubmitLookup, Query, QueryTimeout, UpdateStateAfterAlloc, SubmitRetrieve, LoadsDone,
         SubmitStore, RequestFinished
<1>2. UNCHANGED <<pf, st, stored, tasks, futures>>
  BY <1>1 DEF smVars, prefetchVars, storeVars, l2Vars
<1>3. \A h \in handlers' : h \in handlers \/ Fresh(h)
  <2>1. ASSUME NEW kind, kind # "STORE", NEW n PROVE NewHandlers({Handler(kind, r, n)})
    <3>1. Handler(kind, r, n).kind = kind
      BY DEF Handler
    <3> QED BY <2>1, <3>1 DEF NewHandlers, Fresh
  <2>2. ASSUME NEW kind, NEW start, NEW end PROVE NewHandlers(Transfers(kind, r, start, end))
    <3> SUFFICES ASSUME NEW h \in Transfers(kind, r, start, end)
                 PROVE  h.pc = "start" /\ h.n = 0 /\ h.objs = <<>>
      BY DEF NewHandlers, Fresh
    <3>1. PICK rank \in Ranks : h = [Handler(kind, r, 0) EXCEPT !.rank = rank, !.start = start,
                                                            !.keys = op_keys(r, rank, start, end)]
      BY DEF Transfers
    <3> DEFINE K == op_keys(r, rank, start, end)
    <3> HIDE DEF K
    <3>2. h = [Handler(kind, r, 0) EXCEPT !.rank = rank, !.start = start, !.keys = K]
      BY <3>1 DEF K
    <3> QED BY <3>2 DEF Handler
  <2>3. NewHandlers({})
    BY DEF NewHandlers
  <2>4. ASSUME NEW new, Spawn(new), NewHandlers(new)
        PROVE  \A h \in handlers' : h \in handlers \/ Fresh(h)
    BY <2>4 DEF Spawn, NewHandlers
  <2>5. CASE SubmitLookup(r) \/ RequestFinished(r)
    BY <2>1, <2>4, <2>5 DEF SubmitLookup, RequestFinished
  <2>6. CASE Query(r) \/ QueryTimeout(r) \/ LoadsDone(r)
    BY <2>6 DEF Query, QueryTimeout, LoadsDone, serverVars
  <2>7. ASSUME NEW load_pending \in BOOLEAN, UpdateStateAfterAlloc(r, load_pending)
        PROVE  \A h \in handlers' : h \in handlers \/ Fresh(h)
    <3>1. PICK n : Spawn(IF n = 0 THEN {} ELSE {Handler("FREE", r, n)})
      BY <2>7 DEF UpdateStateAfterAlloc
    <3>2. NewHandlers(IF n = 0 THEN {} ELSE {Handler("FREE", r, n)})
      BY <2>1, <2>3
    <3> QED BY <2>4, <3>1, <3>2
  <2>8. CASE SubmitRetrieve(r)
    BY <2>2, <2>4, <2>8 DEF SubmitRetrieve
  <2>9. ASSUME NEW end, SubmitStore(r, end)
        PROVE  \A h \in handlers' : h \in handlers \/ Fresh(h)
    BY <2>2, <2>4, <2>9 DEF SubmitStore
  <2> QED BY <2>5, <2>6, <2>7, <2>8, <2>9 DEF Client
<1>4. ASSUME NEW h \in handlers', h.kind = "STORE" PROVE StoreData(h)'
  <2>1. CASE h \in handlers
    BY <1>4, <2>1, StoreDataStays
  <2>2. CASE Fresh(h)
    BY <1>4, <2>2 DEF Fresh, StoreData, Writes
  <2> QED BY <1>3, <2>1, <2>2
<1> QED BY <1>2, <1>4, DataFrame DEF DataInv

\* A STORE has reserved slices for the chunks it will write.
LEMMA StoreReserveData ==
  ASSUME Inv, Lawful, NEW h \in handlers, StoreReserve(h)
  PROVE  \A g \in handlers' : g.kind = "STORE" => StoreData(g)'
<1> DEFINE M == Missing(Range(h.keys))
           W == Selected(h.keys, M)
           O == [i \in 1 .. Len(W) |-> entries'[W[i]].obj]
           g == [h EXCEPT !.pc = IF W = <<>> THEN "finish" ELSE "copy", !.keys = W, !.objs = O]
<1>0. /\ h.kind = "STORE" /\ h.pc = "start"
      /\ reserve_write(Range(h.keys), ChunkNBytes, FALSE)
      /\ handlers' = (handlers \ {h}) \cup {g}
  BY DEF StoreReserve, At, Becomes
<1>1. h \in HandlerRec /\ h.keys \in Seq(Keys) /\ IsInjective(h.keys)
  BY HandlerFacts
<1>2. h.n = 0
  BY <1>0 DEF Inv, DataInv, StoreData
<1>3. W \in Seq(Keys) /\ Range(W) = M
  <2>1. W \in Seq(Keys) /\ Range(W) = Range(h.keys) \cap M
    BY <1>1, SelectedKeeps
  <2> QED BY <2>1 DEF Missing
<1>4. \A k \in M : k \in DOMAIN entries' /\ ~entries'[k].is_temporary
  BY <1>0, ReservedEntries DEF Missing
<1> HIDE DEF M
<1>5. Len(O) = Len(W) /\ \A i \in 1 .. Len(W) : O[i] = entries'[W[i]].obj
  BY <1>3
<1> HIDE DEF W, O
<1>6. /\ g.n = 0 /\ g.keys = W /\ g.objs = O /\ g.kind = "STORE"
      /\ g.pc = IF W = <<>> THEN "finish" ELSE "copy"
  BY <1>0, <1>1, <1>2 DEF HandlerRec
<1> HIDE DEF g
<1>6a. PICK x \in handlers' : x = g
  BY <1>0
<1>7. Len(W) \in Nat /\ (W = <<>> => Len(W) = 0) /\ (W # <<>> => 0 < Len(W))
  BY <1>3, EmptySeq
<1>8. \A i \in 1 .. Len(W) : W[i] \in DOMAIN entries'
  BY <1>3, <1>4, RangeOf
<1>9. Slices(x.objs, x.keys)'
  BY <1>5, <1>6, <1>6a, <1>8 DEF Slices
<1>10. FilledTo(x.objs, x.keys, 0)'
  BY <1>6, <1>6a, <1>7 DEF FilledTo
<1>11. \A k \in Range(x.keys) : ~entries'[k].is_temporary
  BY <1>3, <1>4, <1>6, <1>6a
<1>12. StoreData(x)'
  BY <1>6, <1>6a, <1>7, <1>9, <1>10, <1>11 DEF StoreData
<1> QED BY <1>0, <1>6a, <1>12, StoreDataStays

\* A STORE has copied one more chunk into its slice.
LEMMA StoreCopyData ==
  ASSUME Inv, Lawful, NEW h \in handlers, StoreCopy(h)
  PROVE  \A g \in handlers' : g.kind = "STORE" => StoreData(g)'
<1> DEFINE pc == IF h.n + 1 = Len(h.keys) THEN "finish" ELSE "copy"
           m == h.n + 1
           g == [h EXCEPT !.n = m, !.pc = pc]
           k == h.keys[h.n + 1]
           o == h.objs[h.n + 1]
<1>0. /\ h.kind = "STORE" /\ h.pc = "copy" /\ write_bytes(o, k)
      /\ handlers' = (handlers \ {h}) \cup {g} /\ UNCHANGED entries
  BY DEF StoreCopy, At, Becomes
<1>1. h \in HandlerRec /\ h.keys \in Seq(Keys) /\ h.n \in Nat
  BY HandlerFacts
<1>2. Writes(h)
  BY <1>0 DEF Writes
<1>3. /\ h.n < Len(h.keys) /\ Slices(h.objs, h.keys) /\ FilledTo(h.objs, h.keys, h.n)
      /\ \A l \in Range(h.keys) : ~entries[l].is_temporary
  BY <1>0, <1>2 DEF Inv, DataInv, StoreData
<1>4. \A i \in 1 .. Len(h.keys) : h.keys[i] \in DOMAIN entries
  BY <1>3 DEF Slices
<1>5. SlicesIn(entries', h.objs, h.keys) /\ FilledIn(pool', h.objs, h.keys, h.n)
  BY <1>0, <1>1, <1>3, <1>4, ListStays
<1>6. /\ m \in 1 .. Len(h.keys) /\ m \in Nat
      /\ pc = IF m = Len(h.keys) THEN "finish" ELSE "copy"
      /\ \A i \in 1 .. m : i \in 1 .. h.n \/ i = m
  <2>1. Len(h.keys) \in Nat
    BY <1>1
  <2> QED BY <1>1, <1>3, <2>1
<1>7. o = entries[k].obj /\ k \in DOMAIN entries
  BY <1>3, <1>6 DEF Slices
<1>8. Slice(o) \subseteq DOMAIN pool
  BY <1>7, ContractFacts DEF Inv
<1>9. \A b \in Slice(o) : pool'[b] = k
  BY <1>0, <1>8 DEF write_bytes
<1>10. o = h.objs[m] /\ k = h.keys[m]
  OBVIOUS
<1> HIDE DEF o, k
<1>11. \A i \in 1 .. m : \A b \in Slice(h.objs[i]) : pool'[b] = h.keys[i]
  <2> TAKE i \in 1 .. m
  <2>1. CASE i \in 1 .. h.n
    BY <1>5, <2>1 DEF FilledIn
  <2>2. CASE i = m
    BY <1>9, <1>10, <2>2
  <2> QED BY <1>6, <2>1, <2>2
<1>12. m <= Len(h.keys)
  BY <1>6
<1>13. FilledIn(pool', h.objs, h.keys, m)
  BY <1>11, <1>12 DEF FilledIn
<1> HIDE DEF m, pc
<1>14. g.kind = "STORE" /\ g.keys = h.keys /\ g.objs = h.objs /\ g.n = m /\ g.pc = pc
  BY <1>0, <1>1 DEF HandlerRec
<1> HIDE DEF g
<1>15. Slices(g.objs, g.keys)' /\ FilledTo(g.objs, g.keys, g.n)'
  BY <1>5, <1>13, <1>14 DEF SlicesIn, FilledIn, Slices, FilledTo, HasBytes
<1>16. g.pc = "copy" => g.n < Len(g.keys)
  <2>1. Len(h.keys) \in Nat
    BY <1>1
  <2> QED BY <1>6, <1>12, <1>14, <2>1
<1>17. g.pc # "start" /\ (g.pc = "finish" => g.n = Len(g.keys))
  BY <1>6, <1>14
<1>18. StoreData(g)'
  BY <1>0, <1>3, <1>14, <1>15, <1>16, <1>17 DEF StoreData
<1> QED BY <1>0, <1>18, StoreDataStays

\* A step of a handler.
LEMMA HandleData ==
  ASSUME Inv, Lawful, NEW h \in handlers, Handle(h)
  PROVE  DataInv'
<1>1. UNCHANGED <<pf, st, stored, tasks, futures>>
  BY DEF Handle, HandleLookup, FreeFirst, FreeRelease, FreeFinish, EndRelease, EndFinish, EndPop,
         RetrieveRead, RetrieveSend, RetrievePromote, RetrieveRelease, RetrieveFinish, StoreReserve,
         StoreReserveNone, StoreUnknown, StoreCopy, StoreFinish, Release, FinishRelease,
         smVars, prefetchVars, storeVars, l2Vars
<1>2. h \in HandlerRec
  BY HandlerFacts
<1>3. CASE StoreReserve(h)
  BY <1>1, <1>3, StoreReserveData, DataFrame DEF DataInv
<1>4. CASE StoreCopy(h)
  BY <1>1, <1>4, StoreCopyData, DataFrame DEF DataInv
<1>5. CASE StoreReserveNone(h)
  <2> DEFINE e == <<>>
             g == [h EXCEPT !.pc = "finish", !.keys = e]
  <2>1. h.kind = "STORE" /\ h.pc = "start" /\ handlers' = (handlers \ {h}) \cup {g}
    BY <1>5 DEF StoreReserveNone, At, Becomes
  <2>2. h.n = 0 /\ h.objs = <<>>
    BY <2>1 DEF Inv, DataInv, StoreData
  <2>3. e = <<>> /\ Len(e) = 0 /\ Range(e) = {}
    BY EmptyList
  <2> HIDE DEF e
  <2>4. g.kind = "STORE" /\ g.pc = "finish" /\ g.keys = e /\ g.n = 0 /\ g.objs = e
    BY <1>2, <2>1, <2>2, <2>3 DEF HandlerRec
  <2> HIDE DEF g
  <2>5. StoreData(g)'
    BY <2>3, <2>4 DEF StoreData, Slices, FilledTo
  <2> QED BY <1>1, <2>1, <2>5, StoreDataStays, DataFrame DEF DataInv
<1>6. CASE ~StoreReserve(h) /\ ~StoreCopy(h) /\ ~StoreReserveNone(h)
  <2>1. \A g \in handlers' : g \in handlers \/ g.kind # "STORE"
    <3>1. CASE \/ HandleLookup(h) \/ FreeFinish(h) \/ EndPop(h) \/ RetrieveFinish(h)
               \/ StoreUnknown(h) \/ StoreFinish(h)
      BY <3>1 DEF HandleLookup, FreeFinish, EndPop, RetrieveFinish, StoreUnknown, StoreFinish, Ends
    <3>2. CASE FreeFirst(h)
      <4> DEFINE K == First(Min({h.n * WorldSize, Len(held[h.rid])}), held[h.rid])
      <4> HIDE DEF K
      <4>1. h.kind = "FREE" /\ handlers' = (handlers \ {h}) \cup {[h EXCEPT !.pc = "release", !.keys = K]}
        BY <3>2 DEF FreeFirst, At, Becomes, K
      <4> QED BY <1>2, <4>1 DEF HandlerRec
    <3>3. ASSUME NEW keys, Release(h, keys), h.kind # "STORE"
          PROVE  \A g \in handlers' : g \in handlers \/ g.kind # "STORE"
      <4> DEFINE K == Selected(keys, Range(held[h.rid]))
      <4> HIDE DEF K
      <4>1. handlers' = (handlers \ {h}) \cup {[h EXCEPT !.pc = "finish", !.keys = K]}
        BY <3>3 DEF Release, Becomes, K
      <4> QED BY <1>2, <3>3, <4>1 DEF HandlerRec
    <3>4. CASE FreeRelease(h) \/ EndRelease(h) \/ RetrieveRelease(h)
      BY <3>3, <3>4 DEF FreeRelease, EndRelease, RetrieveRelease, At
    <3>5. CASE EndFinish(h)
      <4> DEFINE e == <<>>
      <4> HIDE DEF e
      <4>1. h.kind = "END" /\ handlers' = (handlers \ {h}) \cup {[h EXCEPT !.pc = "pop", !.keys = e]}
        BY <3>5 DEF EndFinish, At, Becomes, e
      <4> QED BY <1>2, <4>1 DEF HandlerRec
    <3>6. CASE RetrieveRead(h)
      <4> DEFINE O == ObjsOf(h.keys)
      <4> HIDE DEF O
      <4>1. /\ h.kind = "RETRIEVE"
            /\ \/ handlers' = (handlers \ {h}) \cup {[h EXCEPT !.pc = "send", !.objs = O]}
               \/ handlers' = handlers \ {h}
        BY <3>6 DEF RetrieveRead, At, Becomes, Ends, O
      <4>2. CASE handlers' = handlers \ {h}
        BY <1>2, <4>2
      <4>3. CASE handlers' = (handlers \ {h}) \cup {[h EXCEPT !.pc = "send", !.objs = O]}
        BY <1>2, <4>1, <4>3 DEF HandlerRec
      <4> QED BY <4>1, <4>2, <4>3
    <3>7. CASE RetrieveSend(h)
      <4> DEFINE e == <<>>
      <4> HIDE DEF e
      <4>1. h.kind = "RETRIEVE" /\ handlers' = (handlers \ {h}) \cup {[h EXCEPT !.pc = "promote", !.objs = e]}
        BY <3>7 DEF RetrieveSend, At, Becomes, e
      <4> QED BY <1>2, <4>1 DEF HandlerRec
    <3>8. CASE RetrievePromote(h)
      <4>1. h.kind = "RETRIEVE" /\ handlers' = (handlers \ {h}) \cup {[h EXCEPT !.pc = "release"]}
        BY <3>8 DEF RetrievePromote, At, Becomes
      <4> QED BY <1>2, <4>1 DEF HandlerRec
    <3> QED BY <1>6, <3>1, <3>2, <3>4, <3>5, <3>6, <3>7, <3>8 DEF Handle
  <2>2. \A g \in handlers' : g.kind = "STORE" => StoreData(g)'
    BY <2>1, StoreDataStays
  <2> QED BY <1>1, <2>2, DataFrame DEF DataInv
<1> QED BY <1>3, <1>4, <1>5, <1>6
\* Only a loading thread has load tasks.
LEMMA NoLoads ==
  ASSUME Lawful, pf'.pc \notin {"loading", "dead"}
  PROVE  LoadData'
<1>1. ASSUME NEW a \in Adapters, NEW i \in 1 .. Len(tasks'[a]) PROVE tasks'[a][i].op # "load"
  <2>1. TaskOf(a, tasks[a][i])'
    BY DEF Lawful, ProtoInv, TaskInv
  <2> QED BY <2>1 DEF TaskOf
<1> QED BY <1>1 DEF LoadData

\* Without a list there is nothing to fill.
LEMMA NoSlices ==
  ASSUME pf'.load = <<>>, pf'.objs = <<>>, pf'.loaded = 0
  PROVE  PfData'
<1> DEFINE e == <<>>
<1>1. e = <<>> /\ Len(e) = 0 /\ pf'.load = e /\ pf'.objs = e
  OBVIOUS
<1> HIDE DEF e
<1> QED BY <1>1 DEF PfData, Slices, FilledTo

\* The slices of the thread, when it keeps its list.
LEMMA SlicesKept ==
  ASSUME Inv, Lawful, pf.pc \in {"reserve", "load", "loading", "dead"}, pf'.pc # "get",
         pf'.load = pf.load, pf'.objs = pf.objs, pf'.loaded \in Nat,
         FilledTo(pf.objs, pf.load, pf'.loaded)
  PROVE  PfData'
<1>1. SlicesIn(entries', pf.objs, pf.load) /\ FilledIn(pool', pf.objs, pf.load, pf'.loaded)
  BY LoadStays
<1> QED BY <1>1 DEF SlicesIn, FilledIn, PfData, Slices, FilledTo, HasBytes

\* A slot is reserved: its slice is that of the new entry.
LEMMA PfReserveData ==
  ASSUME Inv, Lawful, PfReserve
  PROVE  PfData'
<1> DEFINE k == NextLoad
           L == Append(pf.load, NextLoad)
           o == entries'[NextLoad].obj
           O == Append(pf.objs, entries'[NextLoad].obj)
           pc == IF Len(pf.load) + 1 = MostHits THEN "load" ELSE "reserve"
<1>0. /\ pf.pc = "reserve" /\ reserve_write({k}, ChunkNBytes, TRUE)
      /\ pf' = [pf EXCEPT !.load = L, !.objs = O, !.pc = pc]
  BY DEF PfReserve
<1>1. /\ pf \in PfRec /\ pf.load \in Seq(Keys) /\ pf.objs \in Seq(MemoryObj) /\ k \in Keys
      /\ pf.loaded = 0
  BY <1>0, PfFacts, NextLoadFacts DEF Inv, ProtoInv, PfInv
<1>2. Slices(pf.objs, pf.load)
  BY <1>0 DEF Inv, DataInv, PfData
<1>3. Len(pf.objs) = Len(pf.load)
  BY <1>2 DEF Slices
<1>4. /\ \A i \in 1 .. Len(pf.load) : L[i] = pf.load[i]
      /\ L[Len(pf.load) + 1] = k /\ Len(L) = Len(pf.load) + 1
  BY <1>1, AppendProperties
<1>5. o \in MemoryObj /\ k \in DOMAIN entries'
  <2>1. k \in DOMAIN entries'
    BY <1>0, ReservedEntries
  <2>2. entries' \in [DOMAIN entries' -> Entry]
    BY EntriesTyped DEF Inv, Lawful
  <2> QED BY <2>1, <2>2 DEF Entry
<1>6. /\ \A i \in 1 .. Len(pf.objs) : O[i] = pf.objs[i]
      /\ O[Len(pf.objs) + 1] = o /\ Len(O) = Len(pf.objs) + 1
  BY <1>1, <1>5, AppendProperties
<1>7. \A i \in 1 .. Len(pf.load) : pf.load[i] \in DOMAIN entries'
  <2>1. \A i \in 1 .. Len(pf.load) : pf.load[i] \in DOMAIN entries
    BY <1>2 DEF Slices
  <2> QED BY <1>0, <2>1, ReservedEntries
<1>8. SlicesIn(entries', pf.objs, pf.load)
  BY <1>1, <1>2, <1>7, ListStays
<1>9. o = entries'[k].obj
  OBVIOUS
<1> HIDE DEF k, o, L, O, pc
<1>10. Len(pf.load) \in Nat /\ \A i \in 1 .. Len(L) : i \in 1 .. Len(pf.load) \/ i = Len(pf.load) + 1
  BY <1>1, <1>4
<1>11. SlicesIn(entries', O, L)
  <2>1. ASSUME NEW i \in 1 .. Len(L) PROVE L[i] \in DOMAIN entries' /\ O[i] = entries'[L[i]].obj
    <3>1. CASE i \in 1 .. Len(pf.load)
      BY <1>3, <1>4, <1>6, <1>8, <3>1 DEF SlicesIn
    <3>2. CASE i = Len(pf.load) + 1
      BY <1>3, <1>4, <1>5, <1>6, <1>9, <3>2
    <3> QED BY <1>10, <3>1, <3>2
  <2> QED BY <1>3, <1>4, <1>6, <2>1 DEF SlicesIn
<1>12. pf'.load = L /\ pf'.objs = O /\ pf'.loaded = 0
  BY <1>0, <1>1 DEF PfRec
<1>13. FilledIn(pool', O, L, 0)
  BY <1>4, <1>10 DEF FilledIn
<1> QED BY <1>11, <1>12, <1>13 DEF SlicesIn, FilledIn, PfData, Slices, FilledTo, HasBytes

\* A task to load is queued: none of its chunks is loaded yet.
LEMMA PfLoadData ==
  ASSUME Inv, Lawful, NEW c \in Adapters, PfLoad(c)
  PROVE  PfData' /\ LoadData'
<1> DEFINE K == After(pf.loaded, pf.load)
           O == After(pf.loaded, pf.objs)
           t == Task("prefetch", "load", K, O)
<1>0. /\ pf.pc = "load" /\ pf.loaded < Len(pf.load) /\ submit({c}, "prefetch", "load", K, O)
      /\ pf' = [pf EXCEPT !.pc = "loading", !.tried = @ \cup {c}]
  BY DEF PfLoad, Best, Useful
<1>1. /\ pf \in PfRec /\ AdapterType /\ pf.load \in Seq(Keys) /\ pf.objs \in Seq(MemoryObj) /\ pf.loaded \in Nat
  BY PfFacts
<1>2. pf'.pc = "loading" /\ pf'.load = pf.load /\ pf'.objs = pf.objs /\ pf'.loaded = pf.loaded
  BY <1>0, <1>1 DEF PfRec
<1>3. Slices(pf.objs, pf.load) /\ FilledTo(pf.objs, pf.load, pf.loaded)
  BY <1>0 DEF Inv, DataInv, PfData
<1>4. PfData'
  BY <1>0, <1>1, <1>2, <1>3, SlicesKept
<1>5. pf.loaded <= Len(pf.load) /\ pf.loaded <= Len(pf.objs) /\ Len(pf.load) \in Nat /\ Len(pf.objs) \in Nat
  BY <1>0, <1>1, <1>3 DEF Slices
<1>6. K \in Seq(Keys)
  BY <1>1, <1>5, RestOf
<1>7. O \in Seq(MemoryObj)
  BY <1>1, <1>5, RestOf
<1>8. "prefetch" \in Submitters /\ Submitters = {"prefetch", "store"}
  BY DEF Submitters
<1>9. t.done = 0
  BY DEF Task
<1>10. QueuedAt({c}, t) /\ PendingAt({c}, "prefetch")
  BY <1>0, <1>1, <1>6, <1>7, <1>8, Submitted
<1> HIDE DEF K, O, t
<1>11. FilledIn(pool', pf.objs, pf.load, pf.loaded)
  BY <1>0, <1>1, <1>2, <1>3, LoadStays
<1>12. ASSUME NEW a \in Adapters, NEW i \in 1 .. Len(tasks[a]) PROVE tasks[a][i].op # "load"
  <2>1. TaskOf(a, tasks[a][i])
    BY TaskFacts
  <2> QED BY <1>0, <2>1 DEF TaskOf
<1>13. ASSUME NEW a \in Adapters, NEW i \in 1 .. Len(tasks'[a]), tasks'[a][i].op = "load"
       PROVE  FilledIn(pool', pf.objs, pf.load, pf.loaded + tasks'[a][i].done)
  <2>1. tasks'[a][i] = t
    BY <1>10, <1>12, <1>13 DEF QueuedAt
  <2>2. pf.loaded + tasks'[a][i].done = pf.loaded
    BY <1>1, <1>9, <2>1
  <2> QED BY <1>11, <2>2
<1>14. ASSUME NEW a \in Adapters PROVE futures'[a]["prefetch"].state # "done"
  <2>1. futures[a]["prefetch"].state = "none"
    BY <1>0 DEF Inv, ProtoInv, FutureInv
  <2> QED BY <1>8, <1>10, <2>1 DEF PendingAt
<1>15. LoadData'
  BY <1>2, <1>13, <1>14 DEF LoadData, FilledTo, FilledIn, HasBytes
<1> QED BY <1>4, <1>15

\* A step of the prefetch thread.
LEMMA PrefetchData ==
  ASSUME Inv, Lawful, Prefetch, UNCHANGED <<handlers, cl, lost>>
  PROVE  DataInv'
<1>0. st' = st /\ stored' = stored
  BY DEF Prefetch, PfGet, PfLookup, PfLookups, PfDies, PfReserve, PfReserveStops, PfLoad, PfLoaded, PfPublish,
         PfDiscard, PfResolve, PfUnhold, storeVars, l2Vars, submit, Consume
<1>1. /\ \A h \in handlers' : h.kind = "STORE" => StoreData(h)'
      /\ Slices(st.objs, st.keys)' /\ L2Integrity'
  BY <1>0, DataFrame
<1>2. PfData' /\ LoadData' => DataInv'
  BY <1>1 DEF DataInv
<1>3. pf \in PfRec /\ pf.loaded \in Nat /\ AdapterType
  BY PfFacts
<1>4. ASSUME pf'.pc \in {"get", "lookup", "lookups", "discard", "resolve", "unhold"} PROVE DataInv'
  <2>1. PfData'
    BY <1>4 DEF PfData
  <2>2. LoadData'
    BY <1>4, NoLoads
  <2> QED BY <1>2, <2>1, <2>2
<1>5. CASE PfGet
  <2> DEFINE n == PrefixHits(Head(jobs).keys)
             m == After(n, Head(jobs).keys)
             h == First(n, Head(jobs).keys)
             r == Head(jobs).rid
             pc == IF m = <<>> \/ NumAdapters = 0 THEN "resolve" ELSE "lookup"
  <2>1. pf' = [PfIdle EXCEPT !.pc = pc, !.rid = r, !.missing = m, !.hit = h, !.l1 = n]
    BY <1>5 DEF PfGet
  <2>2. pc \in {"resolve", "lookup"}
    OBVIOUS
  <2> HIDE DEF pc, r, m, h, n
  <2>3. pf'.pc = pc
    BY <2>1 DEF PfIdle
  <2> QED BY <1>4, <2>2, <2>3
<1>6. CASE PfLookup
  <2>1. pf'.pc = "lookups"
    BY <1>3, <1>6 DEF PfLookup, PfRec
  <2> QED BY <1>4, <2>1
<1>7. CASE PfLookups
  <2> DEFINE H == [a \in Adapters |-> futures[a]["prefetch"].result]
             pc == IF \E a \in Adapters : H[a] > 0 THEN "reserve" ELSE "resolve"
  <2>1. pf.pc = "lookups" /\ pf' = [pf EXCEPT !.pc = pc, !.l2_hits = H]
    BY <1>7 DEF PfLookups
  <2>2. pc \in {"reserve", "resolve"}
    OBVIOUS
  <2> HIDE DEF H, pc
  <2>3. pf.load = <<>> /\ pf.objs = <<>> /\ pf.loaded = 0
    BY <2>1 DEF Inv, ProtoInv, PfInv
  <2>4. pf'.pc = pc /\ pf'.load = pf.load /\ pf'.objs = pf.objs /\ pf'.loaded = pf.loaded
    BY <1>3, <2>1 DEF PfRec
  <2>5. PfData'
    BY <2>3, <2>4, NoSlices
  <2>6. LoadData'
    BY <2>2, <2>4, NoLoads
  <2> QED BY <1>2, <2>5, <2>6
<1>8. CASE PfDies
  <2>1. /\ pf.pc \in {"lookups", "loading"} /\ pf' = [pf EXCEPT !.pc = "dead"]
        /\ UNCHANGED <<tasks, futures>>
    BY <1>8 DEF PfDies, l2Vars
  <2>2. pf'.pc = "dead" /\ pf'.load = pf.load /\ pf'.objs = pf.objs /\ pf'.loaded = pf.loaded
    BY <1>3, <2>1 DEF PfRec
  <2>3. CASE pf.pc = "lookups"
    <3>1. pf.load = <<>> /\ pf.objs = <<>> /\ pf.loaded = 0
      BY <2>3 DEF Inv, ProtoInv, PfInv
    <3>2. PfData'
      BY <2>2, <3>1, NoSlices
    <3>3. ASSUME NEW a \in Adapters, NEW i \in 1 .. Len(tasks[a]) PROVE tasks[a][i].op # "load"
      <4>1. TaskOf(a, tasks[a][i])
        BY TaskFacts
      <4> QED BY <2>3, <4>1 DEF TaskOf
    <3>4. LoadData'
      BY <2>1, <2>2, <3>3 DEF LoadData
    <3> QED BY <1>2, <3>2, <3>4
  <2>4. CASE pf.pc = "loading"
    <3>1. FilledTo(pf.objs, pf.load, pf.loaded)
      BY <2>4 DEF Inv, DataInv, PfData
    <3>2. PfData'
      BY <1>3, <2>2, <2>4, <3>1, SlicesKept
    <3>3. ASSUME NEW a \in Adapters, NEW i \in 1 .. Len(tasks[a]), tasks[a][i].op = "load"
          PROVE  FilledIn(pool', pf.objs, pf.load, pf.loaded + tasks[a][i].done)
      <4>1. FilledTo(pf.objs, pf.load, pf.loaded + tasks[a][i].done)
        BY <3>3 DEF Inv, DataInv, LoadData
      <4>2. pf.loaded + tasks[a][i].done \in Nat
        BY <1>3, TaskFacts
      <4> QED BY <2>2, <2>4, <4>1, <4>2, LoadStays
    <3>4. LoadData'
      BY <2>1, <2>2, <3>3 DEF LoadData, FilledTo, FilledIn, HasBytes
    <3> QED BY <1>2, <3>2, <3>4
  <2> QED BY <2>1, <2>3, <2>4
<1>9. CASE PfReserve
  <2> DEFINE L == Append(pf.load, NextLoad)
             O == Append(pf.objs, entries'[NextLoad].obj)
             pc == IF Len(pf.load) + 1 = MostHits THEN "load" ELSE "reserve"
  <2>1. pf' = [pf EXCEPT !.load = L, !.objs = O, !.pc = pc]
    BY <1>9 DEF PfReserve
  <2>2. pc \in {"load", "reserve"}
    OBVIOUS
  <2> HIDE DEF L, O, pc
  <2>3. pf'.pc = pc
    BY <1>3, <2>1 DEF PfRec
  <2>4. LoadData'
    BY <2>2, <2>3, NoLoads
  <2> QED BY <1>2, <1>9, <2>4, PfReserveData
<1>10. CASE PfReserveStops
  <2> DEFINE pc == IF pf.load = <<>> THEN "resolve" ELSE "load"
  <2>1. pf.pc = "reserve" /\ pf' = [pf EXCEPT !.pc = pc]
    BY <1>10 DEF PfReserveStops
  <2>2. pc \in {"load", "resolve"}
    OBVIOUS
  <2> HIDE DEF pc
  <2>3. pf'.pc = pc /\ pf'.load = pf.load /\ pf'.objs = pf.objs /\ pf'.loaded = pf.loaded
    BY <1>3, <2>1 DEF PfRec
  <2>4. LoadData'
    BY <2>2, <2>3, NoLoads
  <2>5. FilledTo(pf.objs, pf.load, pf.loaded)
    BY <2>1 DEF Inv, DataInv, PfData
  <2>6. PfData'
    BY <1>3, <2>1, <2>2, <2>3, <2>5, SlicesKept
  <2> QED BY <1>2, <2>4, <2>6
<1>11. ASSUME NEW a \in Adapters, PfLoad(a) PROVE DataInv'
  BY <1>2, <1>11, PfLoadData
<1>12. ASSUME NEW a \in Adapters, PfLoaded(a) PROVE DataInv'
  <2> DEFINE n == pf.loaded + futures[a]["prefetch"].result
  <2>1. /\ pf.pc = "loading" /\ futures[a]["prefetch"].state = "done"
        /\ pf' = [pf EXCEPT !.pc = "load", !.loaded = n]
    BY <1>12 DEF PfLoaded
  <2>2. FilledTo(pf.objs, pf.load, n)
    BY <2>1 DEF Inv, DataInv, LoadData
  <2>3. n \in Nat
    <3>1. futures[a]["prefetch"] \in FutureRec
      BY <1>3 DEF AdapterType, Submitters
    <3> QED BY <1>3, <3>1 DEF FutureRec
  <2> HIDE DEF n
  <2>4. pf'.pc = "load" /\ pf'.load = pf.load /\ pf'.objs = pf.objs /\ pf'.loaded = n
    BY <1>3, <2>1 DEF PfRec
  <2>5. PfData'
    BY <2>1, <2>2, <2>3, <2>4, SlicesKept
  <2>6. LoadData'
    BY <2>4, NoLoads
  <2> QED BY <1>2, <2>5, <2>6
<1>13. CASE PfPublish
  <2> DEFINE L == First(pf.loaded, pf.load)
             R == After(pf.loaded, pf.load)
             H == pf.hit \o L
             pc == IF R = <<>> THEN "resolve" ELSE "discard"
  <2>1. pf' = [pf EXCEPT !.pc = pc, !.hit = H, !.load = R]
    BY <1>13 DEF PfPublish
  <2>2. pc \in {"resolve", "discard"}
    OBVIOUS
  <2> HIDE DEF H, L, R, pc
  <2>3. pf'.pc = pc
    BY <1>3, <2>1 DEF PfRec
  <2> QED BY <1>4, <2>2, <2>3
<1>14. CASE PfDiscard
  <2> DEFINE e == <<>>
  <2> HIDE DEF e
  <2>1. pf' = [pf EXCEPT !.pc = "resolve", !.load = e]
    BY <1>14 DEF PfDiscard, e
  <2>2. pf'.pc = "resolve"
    BY <1>3, <2>1 DEF PfRec
  <2> QED BY <1>4, <2>2
<1>15. CASE PfResolve \/ PfUnhold
  <2>1. pf' = PfIdle \/ pf' = [pf EXCEPT !.pc = "unhold"]
    BY <1>15 DEF PfResolve, PfUnhold
  <2>2. PfIdle.pc = "get"
    BY DEF PfIdle
  <2>3. pf'.pc \in {"get", "unhold"}
    BY <1>3, <2>1, <2>2 DEF PfRec
  <2> QED BY <1>4, <2>3
<1> QED BY <1>5, <1>6, <1>7, <1>8, <1>9, <1>10, <1>11, <1>12, <1>13, <1>14, <1>15 DEF Prefetch
\* The tasks to load are those of the prefetch thread, which does not move.
LEMMA SameLoads ==
  ASSUME Inv, Lawful, pf' = pf,
         \A a \in Adapters : \A i \in 1 .. Len(tasks'[a]) : tasks'[a][i].op = "load" =>
           i \in 1 .. Len(tasks[a]) /\ tasks'[a][i] = tasks[a][i],
         \A a \in Adapters : futures'[a]["prefetch"] = futures[a]["prefetch"]
  PROVE  LoadData'
<1>1. \A a \in Adapters : \A i \in 1 .. Len(tasks'[a]) : tasks'[a][i].op = "load" =>
        FilledTo(pf.objs, pf.load, pf.loaded + tasks'[a][i].done)
  BY DEF Inv, DataInv, LoadData
<1>2. pf.pc = "loading" => \A a \in Adapters : futures'[a]["prefetch"].state = "done" =>
        FilledTo(pf.objs, pf.load, pf.loaded + futures'[a]["prefetch"].result)
  BY DEF Inv, DataInv, LoadData
<1> QED BY <1>1, <1>2, LoadDataStays

\* A step of the store thread.
LEMMA StoreThreadData ==
  ASSUME Inv, Lawful, Store, UNCHANGED <<handlers, cl, lost>>
  PROVE  DataInv'
<1>0. pf' = pf /\ stored' = stored
  BY DEF Store, StGet, StSubmit, StWait, StDies, prefetchVars, l2Vars, submit, Consume
<1>1. /\ \A h \in handlers' : h.kind = "STORE" => StoreData(h)'
      /\ PfData' /\ L2Integrity'
  BY <1>0, DataFrame
<1>2. Slices(st.objs, st.keys)' /\ LoadData' => DataInv'
  BY <1>1 DEF DataInv
<1>3. st \in StRec /\ pending \in Seq(Seq(Keys)) /\ AdapterType
  BY StFacts
<1>4. "prefetch" \in Submitters /\ "store" \in Submitters /\ "prefetch" # "store"
  BY DEF Submitters
<1>5. Slices(StIdle.objs, StIdle.keys)'
  <2> DEFINE e == <<>>
  <2>1. StIdle.objs = e /\ StIdle.keys = e /\ Len(e) = 0
    BY IdleStore
  <2> HIDE DEF e
  <2> QED BY <2>1 DEF Slices
<1>6. st' = StIdle => Slices(st.objs, st.keys)'
  BY <1>5 DEF Slices
<1>7. CASE StGet
  <2> DEFINE K == Head(pending)
             S == Reservable(Range(K))
             L == Selected(K, S)
             O == ObjsOf(L)
  <2>1. /\ pending # <<>> /\ reserve_read(Range(K)) /\ UNCHANGED <<tasks, futures>>
        /\ st' = IF L = <<>> THEN StIdle ELSE [pc |-> "submit", keys |-> L, objs |-> O]
    BY <1>7 DEF StGet, l2Vars
  <2>2. LoadData'
    BY <1>0, <2>1, DataFrame
  <2>3. K \in Seq(Keys)
    BY <1>3, <2>1, HeadTailProperties
  <2>4. L \in Seq(Keys) /\ Range(L) = Range(K) \cap S
    BY <2>3, SelectedKeeps
  <2>5. \A k \in S : k \in DOMAIN entries
    BY DEF Reservable, readable
  <2>6. \A i \in 1 .. Len(L) : L[i] \in DOMAIN entries
    BY <2>4, <2>5, RangeOf
  <2>7. Len(O) = Len(L) /\ \A i \in 1 .. Len(L) : O[i] = entries[L[i]].obj
    BY <2>4 DEF ObjsOf
  <2>8. Slices(O, L)
    BY <2>6, <2>7 DEF Slices
  <2>9. DOMAIN entries' = DOMAIN entries
    BY <2>1 DEF reserve_read
  <2>10. SlicesIn(entries', O, L)
    BY <2>4, <2>6, <2>8, <2>9, ListStays
  <2> HIDE DEF K, S, L, O
  <2>11. CASE L = <<>>
    BY <1>2, <1>6, <2>1, <2>2, <2>11
  <2>12. CASE L # <<>>
    <3>1. st'.keys = L /\ st'.objs = O
      BY <2>1, <2>12
    <3> QED BY <1>2, <2>2, <2>10, <3>1 DEF Slices, SlicesIn
  <2> QED BY <2>11, <2>12
<1>8. CASE StSubmit
  <2> DEFINE t == Task("store", "store", st.keys, st.objs)
  <2>1. submit(Adapters, "store", "store", st.keys, st.objs) /\ st' = [st EXCEPT !.pc = "wait"]
    BY <1>8 DEF StSubmit
  <2>2. st'.keys = st.keys /\ st'.objs = st.objs
    BY <1>3, <2>1 DEF StRec
  <2>3. SlicesIn(entries', st.objs, st.keys)
    <3>1. st.keys \in Seq(Keys) /\ Slices(st.objs, st.keys)
      BY StFacts DEF Inv, DataInv
    <3>2. \A i \in 1 .. Len(st.keys) : st.keys[i] \in DOMAIN entries'
      BY <2>2, <3>1, OwnedNext, RangeOf
    <3> QED BY <3>1, <3>2, ListStays
  <2>4. t.op = "store"
    BY DEF Task
  <2>5. QueuedAt(Adapters, t) /\ PendingAt(Adapters, "store")
    <3>1. st.keys \in Seq(Keys) /\ st.objs \in Seq(MemoryObj)
      BY StFacts
    <3> QED BY <1>3, <1>4, <2>1, <3>1, Submitted
  <2> HIDE DEF t
  <2>6. \A a \in Adapters : \A i \in 1 .. Len(tasks'[a]) : tasks'[a][i].op = "load" =>
          i \in 1 .. Len(tasks[a]) /\ tasks'[a][i] = tasks[a][i]
    BY <2>4, <2>5 DEF QueuedAt
  <2>7. \A a \in Adapters : futures'[a]["prefetch"] = futures[a]["prefetch"]
    BY <1>4, <2>5 DEF PendingAt
  <2>8. LoadData'
    BY <1>0, <2>6, <2>7, SameLoads
  <2> QED BY <1>2, <2>2, <2>3, <2>8 DEF Slices, SlicesIn
<1>9. CASE StWait
  <2>1. Consume("store") /\ st' = StIdle
    BY <1>9 DEF StWait
  <2>2. /\ tasks' = tasks
        /\ \A a \in Adapters : futures'[a]["prefetch"] = futures[a]["prefetch"]
    BY <1>3, <1>4, <2>1, Consumed
  <2>3. LoadData'
    BY <1>0, <2>2, SameLoads
  <2> QED BY <1>2, <1>6, <2>1, <2>3
<1>10. CASE StDies
  <2>1. st' = [st EXCEPT !.pc = "dead"] /\ UNCHANGED <<tasks, futures>>
    BY <1>10 DEF StDies, l2Vars
  <2>2. st'.keys = st.keys /\ st'.objs = st.objs
    BY <1>3, <2>1 DEF StRec
  <2>3. SlicesIn(entries', st.objs, st.keys)
    <3>1. st.keys \in Seq(Keys) /\ Slices(st.objs, st.keys)
      BY StFacts DEF Inv, DataInv
    <3>2. \A i \in 1 .. Len(st.keys) : st.keys[i] \in DOMAIN entries'
      BY <2>2, <3>1, OwnedNext, RangeOf
    <3> QED BY <3>1, <3>2, ListStays
  <2>4. LoadData'
    BY <1>0, <2>1, DataFrame
  <2> QED BY <1>2, <2>2, <2>3, <2>4 DEF Slices, SlicesIn
<1> QED BY <1>7, <1>8, <1>9, <1>10 DEF Store

\* A store task writes the chunks the store thread holds.
LEMMA NextStored ==
  ASSUME Inv, NEW a \in Adapters, Running(a, "store")
  PROVE  /\ NextKey(a) \in Keys /\ Bytes(NextObj(a)) = NextKey(a)
         /\ Current(a).who = "store"
<1>1. tasks[a] # <<>> /\ Current(a).op = "store"
  BY DEF Running
<1>2. /\ TaskOf(a, Current(a)) /\ Current(a).done \in Nat /\ Current(a).keys \in Seq(Keys)
      /\ Current(a).who \in Submitters
  BY <1>1, CurrentFacts
<1>3. /\ Current(a).who = "store" /\ Current(a).keys = st.keys /\ Current(a).objs = st.objs
      /\ Current(a).done < Len(Current(a).keys)
  BY <1>1, <1>2 DEF TaskOf, Submitters
<1> DEFINE j == Current(a).done + 1
<1>4. j \in 1 .. Len(st.keys) /\ NextKey(a) = st.keys[j] /\ NextObj(a) = st.objs[j]
  <2>1. Len(Current(a).keys) \in Nat
    BY <1>2
  <2> QED BY <1>2, <1>3, <2>1 DEF NextKey, NextObj
<1> HIDE DEF j
<1>5. st.keys \in Seq(Keys) /\ Slices(st.objs, st.keys)
  BY StFacts DEF Inv, DataInv
<1> DEFINE k == NextKey(a)
<1>6. k \in Keys /\ k \in Range(st.keys) /\ k \in DOMAIN entries /\ NextObj(a) = entries[k].obj
  BY <1>4, <1>5, RangeOf DEF Slices
<1> HIDE DEF k
<1>7. readable(k)
  <2>1. StoreThread \in L1Clients /\ Holds[StoreThread] = Range(st.keys)
    BY Owners
  <2> QED BY <1>6, <2>1, ContractFacts DEF Inv
<1>8. HasBytes(entries[k].obj, k) /\ Slice(entries[k].obj) # {}
  BY <1>6, <1>7, ContractFacts DEF Inv
<1>9. \A l : HasBytes(entries[k].obj, l) => l = k
  <2>1. PICK b : b \in Slice(entries[k].obj)
    BY <1>8
  <2> QED BY <1>8, <2>1 DEF HasBytes
<1>10. Bytes(entries[k].obj) = k
  BY <1>6, <1>8, <1>9 DEF Bytes
<1> QED BY <1>3, <1>6, <1>10 DEF k

\* What completes or goes on, and what stays.
LEMMA AdvanceLoads ==
  ASSUME Inv, NEW a \in Adapters, tasks[a] # <<>>, Current(a).op # "lookup", Advance(a), UNCHANGED <<pf, st>>
  PROVE  /\ \A b \in Adapters : \A i \in 1 .. Len(tasks'[b]) :
              \/ \E j \in 1 .. Len(tasks[b]) : tasks'[b][i] = tasks[b][j]
              \/ /\ b = a /\ tasks'[b][i].op = Current(a).op
                 /\ tasks'[b][i].done = Current(a).done + 1
         /\ \A b \in Adapters :
              \/ futures'[b]["prefetch"] = futures[b]["prefetch"]
              \/ /\ b = a /\ Current(a).who = "prefetch"
                 /\ futures'[b]["prefetch"].result = Current(a).done + 1
<1>1. /\ Current(a).keys \in Seq(Keys) /\ Current(a).done \in Nat /\ TaskOf(a, Current(a))
      /\ Current(a) = tasks[a][1] /\ Current(a) \in TaskRec
  BY CurrentFacts
<1>2. Current(a).done < Len(Current(a).keys) /\ Len(Current(a).keys) \in Nat
  BY <1>1 DEF TaskOf
<1>3. AdapterType /\ "prefetch" \in Submitters
  BY StFacts DEF Submitters
<1>4. CASE LastKey(a)
  <2>1. Complete(a, "done", Len(Current(a).keys))
    BY <1>4 DEF Advance
  <2>2. /\ \A b \in Adapters : b # a => tasks'[b] = tasks[b]
        /\ \A i \in 1 .. Len(tasks'[a]) : i + 1 \in 1 .. Len(tasks[a]) /\ tasks'[a][i] = tasks[a][i + 1]
        /\ \A b \in Adapters, w \in Submitters :
             futures'[b][w] = IF b = a /\ w = Current(a).who
                              THEN [state |-> "done", result |-> Len(Current(a).keys)]
                              ELSE futures[b][w]
    <3>1. Len(Current(a).keys) \in Nat
      BY <1>2, <1>3
    <3>2. TaskOver(a, "done", Len(Current(a).keys))
      BY <1>2, <1>3, <2>1, <3>1, Completed
    <3> QED BY <3>2 DEF TaskOver
  <2>3. Len(Current(a).keys) = Current(a).done + 1
    BY <1>4 DEF LastKey
  <2>4. \A b \in Adapters :
          \/ futures'[b]["prefetch"] = futures[b]["prefetch"]
          \/ /\ b = a /\ Current(a).who = "prefetch"
             /\ futures'[b]["prefetch"].result = Current(a).done + 1
    BY <1>3, <2>2, <2>3
  <2>5. \A b \in Adapters : \A i \in 1 .. Len(tasks'[b]) :
          \E j \in 1 .. Len(tasks[b]) : tasks'[b][i] = tasks[b][j]
    BY <2>2
  <2> QED BY <2>4, <2>5
<1>5. CASE ~LastKey(a)
  <2>1. tasks' = [tasks EXCEPT ![a][1].done = @ + 1] /\ UNCHANGED futures
    BY <1>5 DEF Advance
  <2>2. Current(a).done + 1 < Len(Current(a).keys)
    BY <1>1, <1>2, <1>5 DEF LastKey
  <2>3. /\ \A b \in Adapters : Len(tasks'[b]) = Len(tasks[b])
        /\ \A b \in Adapters : \A i \in 1 .. Len(tasks[b]) :
             tasks'[b][i] = IF b = a /\ i = 1 THEN [Current(a) EXCEPT !.done = @ + 1] ELSE tasks[b][i]
    BY <2>1, <2>2, TaskGoesOn
  <2>4. /\ [Current(a) EXCEPT !.done = @ + 1].op = Current(a).op
        /\ [Current(a) EXCEPT !.done = @ + 1].done = Current(a).done + 1
    BY <1>1 DEF TaskRec
  <2>5. ASSUME NEW b \in Adapters, NEW i \in 1 .. Len(tasks'[b])
        PROVE  \/ \E j \in 1 .. Len(tasks[b]) : tasks'[b][i] = tasks[b][j]
               \/ /\ b = a /\ tasks'[b][i].op = Current(a).op
                  /\ tasks'[b][i].done = Current(a).done + 1
    <3>1. i \in 1 .. Len(tasks[b])
      BY <2>3
    <3>2. CASE b = a /\ i = 1
      BY <2>3, <2>4, <3>1, <3>2
    <3>3. CASE ~(b = a /\ i = 1)
      BY <2>3, <3>1, <3>3
    <3> QED BY <3>2, <3>3
  <2> QED BY <2>1, <2>5
<1> QED BY <1>4, <1>5

\* The loads after a step of a worker: those before it, and what it filled.
LEMMA WorkLoads ==
  ASSUME Inv, Lawful, pf' = pf,
         \A b \in Adapters : \A i \in 1 .. Len(tasks'[b]) : tasks'[b][i].op = "load" =>
           \/ \E j \in 1 .. Len(tasks[b]) : tasks'[b][i] = tasks[b][j]
           \/ FilledIn(pool', pf.objs, pf.load, pf.loaded + tasks'[b][i].done),
         pf.pc = "loading" => \A b \in Adapters : futures'[b]["prefetch"].state = "done" =>
           \/ futures'[b]["prefetch"] = futures[b]["prefetch"]
           \/ FilledIn(pool', pf.objs, pf.load, pf.loaded + futures'[b]["prefetch"].result)
  PROVE  LoadData'
<1>0. /\ tasks' \in [Adapters -> Seq(TaskRec)] /\ futures' \in [Adapters -> [Submitters -> FutureRec]]
      /\ TaskInv'
  BY DEF Lawful, ProtoInv, TypeInv, AdapterType
<1>1. pf.loaded \in Nat
  BY PfFacts
<1>2. ASSUME NEW b \in Adapters, NEW i \in 1 .. Len(tasks'[b]), tasks'[b][i].op = "load"
      PROVE  FilledIn(pool', pf.objs, pf.load, pf.loaded + tasks'[b][i].done)
  <2>1. CASE \E j \in 1 .. Len(tasks[b]) : tasks'[b][i] = tasks[b][j]
    <3>1. TaskOf(b, tasks[b][i])'
      BY <1>0 DEF TaskInv
    <3>2. pf.pc \in {"loading", "dead"}
      BY <1>2, <3>1 DEF TaskOf
    <3>3. tasks'[b][i] \in TaskRec
      BY <1>0
    <3>4. pf.loaded + tasks'[b][i].done \in Nat
      <4>1. tasks'[b][i].done \in Nat
        BY <3>3 DEF TaskRec
      <4> QED BY <1>1, <4>1
    <3>5. FilledTo(pf.objs, pf.load, pf.loaded + tasks'[b][i].done)
      BY <1>2, <2>1 DEF Inv, DataInv, LoadData
    <3> QED BY <3>2, <3>4, <3>5, LoadStays
  <2> QED BY <1>2, <2>1
<1>3. ASSUME pf.pc = "loading", NEW b \in Adapters, futures'[b]["prefetch"].state = "done"
      PROVE  FilledIn(pool', pf.objs, pf.load, pf.loaded + futures'[b]["prefetch"].result)
  <2>1. CASE futures'[b]["prefetch"] = futures[b]["prefetch"]
    <3>1. futures'[b]["prefetch"] \in FutureRec
      BY <1>0 DEF Submitters
    <3>2. pf.loaded + futures'[b]["prefetch"].result \in Nat
      BY <1>1, <3>1 DEF FutureRec
    <3>3. FilledTo(pf.objs, pf.load, pf.loaded + futures'[b]["prefetch"].result)
      BY <1>3, <2>1 DEF Inv, DataInv, LoadData
    <3> QED BY <1>3, <3>2, <3>3, LoadStays
  <2> QED BY <1>3, <2>1
<1>4. ASSUME NEW n, FilledIn(pool', pf.objs, pf.load, n) PROVE FilledTo(pf.objs, pf.load, n)'
  BY <1>4 DEF FilledIn, FilledTo, HasBytes
<1> QED BY <1>2, <1>3, <1>4 DEF LoadData

\* A worker fills the next slice of a load.
LEMMA NextFilled ==
  ASSUME Inv, Lawful, pf' = pf, NEW a \in Adapters, Running(a, "load"), write_bytes(NextObj(a), NextKey(a))
  PROVE  FilledIn(pool', pf.objs, pf.load, pf.loaded + (Current(a).done + 1))
<1>1. tasks[a] # <<>> /\ Current(a).op = "load"
  BY DEF Running
<1>2. /\ pf.pc \in {"loading", "dead"}
      /\ pf.loaded + Current(a).done + 1 \in 1 .. Len(pf.load)
      /\ NextKey(a) = pf.load[pf.loaded + Current(a).done + 1]
      /\ NextObj(a) = pf.objs[pf.loaded + Current(a).done + 1]
      /\ NextKey(a) \in DOMAIN entries /\ NextObj(a) = entries[NextKey(a)].obj
  BY NextLoaded
<1>3. FilledTo(pf.objs, pf.load, pf.loaded + Current(a).done)
  <2>1. Current(a) = tasks[a][1] /\ 1 \in 1 .. Len(tasks[a])
    BY <1>1, CurrentFacts
  <2> QED BY <1>1, <2>1 DEF Inv, DataInv, LoadData
<1>4. pf.loaded \in Nat /\ Current(a).done \in Nat
  BY <1>1, CurrentFacts, PfFacts
<1> DEFINE n == pf.loaded + Current(a).done
<1>5. n \in Nat /\ n + 1 = pf.loaded + (Current(a).done + 1) /\ n + 1 = pf.loaded + Current(a).done + 1
  BY <1>4
<1>6. FilledTo(pf.objs, pf.load, n)
  BY <1>3
<1>7. n + 1 \in 1 .. Len(pf.load) /\ NextKey(a) = pf.load[n + 1] /\ NextObj(a) = pf.objs[n + 1]
  BY <1>2, <1>5
<1> HIDE DEF n
<1>8. FilledIn(pool', pf.objs, pf.load, n)
  BY <1>2, <1>5, <1>6, LoadStays
<1>9. \A b \in Slice(NextObj(a)) : pool'[b] = NextKey(a)
  <2>1. Slice(NextObj(a)) \subseteq DOMAIN pool
    BY <1>2, ContractFacts DEF Inv
  <2> QED BY <2>1 DEF write_bytes
<1>10. \A i \in 1 .. (n + 1) : i \in 1 .. n \/ i = n + 1
  BY <1>5
<1>11. n + 1 <= Len(pf.load)
  <2>1. Len(pf.load) \in Nat
    BY PfFacts
  <2> QED BY <1>7, <2>1
<1>12. FilledIn(pool', pf.objs, pf.load, n + 1)
  BY <1>7, <1>8, <1>9, <1>10, <1>11 DEF FilledIn
<1> QED BY <1>5, <1>12

\* What the other steps have in common.
LEMMA BackgroundData ==
  ASSUME Inv, Lawful, UNCHANGED <<handlers, pf, st>>, LoadData', L2Integrity'
  PROVE  DataInv'
<1>1. handlers' = handlers /\ pf' = pf /\ st' = st
  OBVIOUS
<1>2. /\ \A h \in handlers' : h.kind = "STORE" => StoreData(h)'
      /\ PfData' /\ Slices(st.objs, st.keys)'
  BY <1>1, DataFrame
<1> QED BY <1>2 DEF DataInv

\* A step of the world the adapters depend on, of the evictor, of a rank.
LEMMA QuietData ==
  ASSUME Inv, Lawful, UNCHANGED <<handlers, pf, st, tasks, futures, stored>>
  PROVE  DataInv'
<1>1. pf' = pf /\ UNCHANGED <<tasks, futures>> /\ stored' = stored
  OBVIOUS
<1>2. LoadData' /\ L2Integrity'
  BY <1>1, DataFrame
<1> QED BY <1>2, BackgroundData

\* A step of the worker of an adapter.
LEMMA WorkerData ==
  ASSUME Inv, Lawful, NEW a \in Adapters, Worker(a), UNCHANGED <<handlers, cl, lost>>
  PROVE  DataInv'
<1>0. Work(a) /\ UNCHANGED <<allocVars, entries, order, prefetchVars, storeVars, ev>>
  BY DEF Worker
<1>1. UNCHANGED <<pf, st, pending>>
  BY <1>0 DEF prefetchVars, storeVars
<1>2. stored' = stored => L2Integrity'
  BY DataFrame
<1>3. LoadData' /\ L2Integrity' => DataInv'
  BY <1>1, BackgroundData
<1>4. AdapterType /\ "prefetch" \in Submitters
  BY StFacts DEF Submitters
<1>5. CASE store(a)
  <2>1. Running(a, "store") /\ Advance(a)
    BY <1>5 DEF store
  <2>2. tasks[a] # <<>> /\ Current(a).op = "store"
    BY <2>1 DEF Running
  <2>3. /\ \A b \in Adapters : \A i \in 1 .. Len(tasks'[b]) :
              \/ \E j \in 1 .. Len(tasks[b]) : tasks'[b][i] = tasks[b][j]
              \/ /\ b = a /\ tasks'[b][i].op = Current(a).op
                 /\ tasks'[b][i].done = Current(a).done + 1
        /\ \A b \in Adapters :
              \/ futures'[b]["prefetch"] = futures[b]["prefetch"]
              \/ /\ b = a /\ Current(a).who = "prefetch"
                 /\ futures'[b]["prefetch"].result = Current(a).done + 1
    BY <1>1, <2>1, <2>2, AdvanceLoads
  <2>4. /\ NextKey(a) \in Keys /\ Bytes(NextObj(a)) = NextKey(a) /\ Current(a).who = "store"
    BY <2>1, NextStored
  <2>5. LoadData'
    BY <1>1, <2>2, <2>3, <2>4, WorkLoads
  <2>6. L2Integrity'
    <3>1. CASE stored' = stored
      BY <1>2, <3>1
    <3>2. CASE stored' # stored
      <4> DEFINE f == [k \in DOMAIN stored[a] \cup {NextKey(a)} |->
                         IF k = NextKey(a) THEN Bytes(NextObj(a)) ELSE stored[a][k]]
      <4>1. stored' = [stored EXCEPT ![a] = f]
        BY <1>5, <3>2 DEF store
      <4>2. \A k \in DOMAIN f : f[k] = k
        BY <2>4 DEF Inv, DataInv, L2Integrity
      <4> HIDE DEF f
      <4>3. \A b \in Adapters : stored'[b] = IF b = a THEN f ELSE stored[b]
        BY <1>4, <4>1 DEF AdapterType
      <4> QED BY <4>2, <4>3 DEF Inv, DataInv, L2Integrity
    <3> QED BY <3>1, <3>2
  <2> QED BY <1>3, <2>5, <2>6
<1>6. CASE lookup(a)
  <2>1. /\ Running(a, "lookup") /\ stored' = stored
        /\ \E n \in 0 .. Len(Current(a).keys) : Complete(a, "done", n)
    BY <1>6 DEF lookup
  <2>2. tasks[a] # <<>> /\ Current(a).op = "lookup"
    BY <2>1 DEF Running
  <2>3. TaskOf(a, Current(a)) /\ Current(a).keys \in Seq(Keys)
    BY <2>2, CurrentFacts
  <2>4. pf.pc # "loading"
    BY <2>2, <2>3 DEF TaskOf
  <2>5. PICK n \in 0 .. Len(Current(a).keys) : Complete(a, "done", n)
    BY <2>1
  <2>6. n \in Nat
    BY <2>3
  <2>7. /\ \A b \in Adapters : b # a => tasks'[b] = tasks[b]
        /\ \A i \in 1 .. Len(tasks'[a]) : i + 1 \in 1 .. Len(tasks[a]) /\ tasks'[a][i] = tasks[a][i + 1]
    <3>1. TaskOver(a, "done", n)
      BY <1>4, <2>2, <2>5, <2>6, Completed
    <3> QED BY <3>1 DEF TaskOver
  <2>8. \A b \in Adapters : \A i \in 1 .. Len(tasks'[b]) :
          \E j \in 1 .. Len(tasks[b]) : tasks'[b][i] = tasks[b][j]
    BY <2>7
  <2>9. LoadData'
    BY <1>1, <2>4, <2>8, WorkLoads
  <2> QED BY <1>2, <1>3, <2>1, <2>9
<1>7. CASE load(a)
  <2>1. Running(a, "load") /\ stored' = stored
    BY <1>7 DEF load
  <2>2. tasks[a] # <<>> /\ Current(a).op = "load"
    BY <2>1 DEF Running
  <2>3. Current(a).done \in Nat /\ TaskOf(a, Current(a)) /\ Current(a) = tasks[a][1] /\ 1 \in 1 .. Len(tasks[a])
    BY <2>2, CurrentFacts
  <2>4. pf.pc \in {"loading", "dead"} /\ pf.loaded \in Nat
    BY <2>2, <2>3, PfFacts DEF TaskOf
  <2>5. CASE NextKey(a) \in DOMAIN stored[a]
    <3>1. write_bytes(NextObj(a), stored[a][NextKey(a)]) /\ Advance(a)
      BY <1>7, <2>5 DEF load
    <3>2. stored[a][NextKey(a)] = NextKey(a)
      BY <2>5 DEF Inv, DataInv, L2Integrity
    <3>3. FilledIn(pool', pf.objs, pf.load, pf.loaded + (Current(a).done + 1))
      BY <1>1, <2>1, <3>1, <3>2, NextFilled
    <3>4. Current(a).op # "lookup"
      BY <2>2
    <3>5. /\ \A b \in Adapters : \A i \in 1 .. Len(tasks'[b]) :
                \/ \E j \in 1 .. Len(tasks[b]) : tasks'[b][i] = tasks[b][j]
                \/ /\ b = a /\ tasks'[b][i].op = Current(a).op
                   /\ tasks'[b][i].done = Current(a).done + 1
          /\ \A b \in Adapters :
                \/ futures'[b]["prefetch"] = futures[b]["prefetch"]
                \/ /\ b = a /\ Current(a).who = "prefetch"
                   /\ futures'[b]["prefetch"].result = Current(a).done + 1
      BY <1>1, <2>2, <3>1, <3>4, AdvanceLoads
    <3>6. LoadData'
      BY <1>1, <3>3, <3>5, WorkLoads
    <3> QED BY <1>2, <1>3, <2>1, <3>6
  <2>6. CASE NextKey(a) \notin DOMAIN stored[a]
    <3>1. Complete(a, "done", Current(a).done)
      BY <1>7, <2>6 DEF load
    <3>2. /\ \A b \in Adapters : b # a => tasks'[b] = tasks[b]
          /\ \A i \in 1 .. Len(tasks'[a]) : i + 1 \in 1 .. Len(tasks[a]) /\ tasks'[a][i] = tasks[a][i + 1]
          /\ \A b \in Adapters, w \in Submitters :
               futures'[b][w] = IF b = a /\ w = Current(a).who
                                THEN [state |-> "done", result |-> Current(a).done]
                                ELSE futures[b][w]
      <4>1. Current(a).done \in Nat
        BY <2>3
      <4>2. TaskOver(a, "done", Current(a).done)
        BY <1>4, <2>2, <3>1, <4>1, Completed
      <4> QED BY <4>2 DEF TaskOver
    <3>3. ASSUME NEW b \in Adapters, NEW i \in 1 .. Len(tasks'[b])
          PROVE  \E j \in 1 .. Len(tasks[b]) : tasks'[b][i] = tasks[b][j]
      <4>1. CASE b = a
        BY <3>2, <4>1
      <4>2. CASE b # a
        BY <3>2, <4>2
      <4> QED BY <4>1, <4>2
    <3>4. FilledTo(pf.objs, pf.load, pf.loaded + Current(a).done)
      BY <2>2, <2>3 DEF Inv, DataInv, LoadData
    <3>5. FilledIn(pool', pf.objs, pf.load, pf.loaded + Current(a).done)
      <4>1. pf.loaded + Current(a).done \in Nat
        BY <2>3, <2>4
      <4>2. pf'.pc # "get" /\ pf'.load = pf.load
        BY <1>1, <2>4
      <4> QED BY <2>4, <3>4, <4>1, <4>2, LoadStays
    <3>6. \A b \in Adapters :
            \/ futures'[b]["prefetch"] = futures[b]["prefetch"]
            \/ futures'[b]["prefetch"].result = Current(a).done
      BY <1>4, <3>2
    <3>7. LoadData'
      BY <1>1, <3>3, <3>5, <3>6, WorkLoads
    <3> QED BY <1>2, <1>3, <2>1, <3>7
  <2> QED BY <2>5, <2>6
<1> QED BY <1>0, <1>5, <1>6, <1>7 DEF Work

\* A task raises, or a file disappears.
LEMMA StorageData ==
  ASSUME Inv, Lawful, NEW a \in Adapters, Storage(a), UNCHANGED <<handlers, cl, lost>>
  PROVE  DataInv'
<1>0. /\ TaskFails(a) \/ \E k \in Keys : Lose(a, k)
      /\ UNCHANGED <<prefetchVars, storeVars>>
  BY DEF Storage
<1>1. UNCHANGED <<pf, st>>
  BY <1>0 DEF prefetchVars, storeVars
<1>2. LoadData' /\ L2Integrity' => DataInv'
  BY <1>1, BackgroundData
<1>3. AdapterType /\ "prefetch" \in Submitters
  BY StFacts DEF Submitters
<1>4. CASE TaskFails(a)
  <2>1. tasks[a] # <<>> /\ Complete(a, "failed", 0) /\ stored' = stored
    BY <1>4 DEF TaskFails
  <2>2. /\ \A b \in Adapters : b # a => tasks'[b] = tasks[b]
        /\ \A i \in 1 .. Len(tasks'[a]) : i + 1 \in 1 .. Len(tasks[a]) /\ tasks'[a][i] = tasks[a][i + 1]
        /\ \A b \in Adapters, w \in Submitters :
             futures'[b][w] = IF b = a /\ w = Current(a).who
                              THEN [state |-> "failed", result |-> 0]
                              ELSE futures[b][w]
    <3>1. TaskOver(a, "failed", 0)
      BY <1>3, <2>1, Completed
    <3> QED BY <3>1 DEF TaskOver
  <2>3. \A b \in Adapters : \A i \in 1 .. Len(tasks'[b]) :
          \E j \in 1 .. Len(tasks[b]) : tasks'[b][i] = tasks[b][j]
    <3> TAKE b \in Adapters
    <3> TAKE i \in 1 .. Len(tasks'[b])
    <3>1. CASE b = a
      BY <2>2, <3>1
    <3>2. CASE b # a
      <4>1. tasks'[b] = tasks[b]
        BY <2>2, <3>2
      <4> QED BY <4>1
    <3> QED BY <3>1, <3>2
  <2>4. \A b \in Adapters :
          \/ futures'[b]["prefetch"] = futures[b]["prefetch"]
          \/ futures'[b]["prefetch"].state # "done"
    BY <1>3, <2>2
  <2>5. LoadData'
    BY <1>1, <2>3, <2>4, WorkLoads
  <2>6. L2Integrity'
    BY <2>1, DataFrame
  <2> QED BY <1>2, <2>5, <2>6
<1>5. ASSUME NEW k \in Keys, Lose(a, k) PROVE DataInv'
  <2> DEFINE f == Restrict(stored[a], DOMAIN stored[a] \ {k})
  <2>1. stored' = [stored EXCEPT ![a] = f] /\ UNCHANGED <<tasks, futures>>
    BY <1>5 DEF Lose
  <2>2. \A l \in DOMAIN f : f[l] = l
    BY DEF Restrict, Inv, DataInv, L2Integrity
  <2> HIDE DEF f
  <2>3. \A b \in Adapters : stored'[b] = IF b = a THEN f ELSE stored[b]
    BY <1>3, <2>1 DEF AdapterType
  <2>4. L2Integrity'
    BY <2>2, <2>3 DEF Inv, DataInv, L2Integrity
  <2>5. LoadData'
    BY <1>1, <2>1, DataFrame
  <2> QED BY <1>2, <2>4, <2>5
<1> QED BY <1>0, <1>4, <1>5

-----------------------------------------------------------------------------

\* Every step keeps the invariant.
LEMMA InvStep ==
  ASSUME Inv, [Next]_vars
  PROVE  Inv' /\ [L1!Next]_(L1!vars)
<1>1. [L1!Next]_(L1!vars) /\ ProtoInv'
  BY NextStep
<1>2. L1!IInv'
  BY <1>1, ContractStep DEF Inv
<1>3. Lawful
  BY <1>1, <1>2 DEF Lawful
<1>4. DataInv' => Inv'
  BY <1>1, <1>2 DEF Inv
<1>5. CASE Background
  <2>1. UNCHANGED <<handlers, cl, lost>>
    BY <1>5 DEF Background, serverVars
  <2>2. Prefetch \/ Store \/ Eviction \/ \E a \in Adapters : Worker(a) \/ Storage(a)
    BY <1>5 DEF Background
  <2>3. CASE Eviction
    <3>1. UNCHANGED <<handlers, pf, st, tasks, futures, stored>>
      BY <2>1, <2>3 DEF Eviction, EvCheck, EvScan, EvDelete, prefetchVars, storeVars, l2Vars
    <3> QED BY <1>1, <1>3, <1>4, <3>1, QuietData
  <2>4. ~Eviction => DataInv'
    BY <1>3, <2>1, <2>2, PrefetchData, StoreThreadData, WorkerData, StorageData
  <2> QED BY <1>1, <1>4, <2>3, <2>4
<1>6. CASE Waiting \/ UNCHANGED vars
  <2>1. UNCHANGED <<handlers, pf, st, tasks, futures, stored>>
    BY <1>6 DEF Waiting, vars, smVars, serverVars, prefetchVars, storeVars, l2Vars
  <2> QED BY <1>1, <1>3, <1>4, <2>1, QuietData
<1>7. CASE \E rank \in Ranks : Register(rank) \/ Unregister(rank)
  <2>1. UNCHANGED <<handlers, pf, st, tasks, futures, stored>>
    BY <1>7 DEF Register, Unregister, smVars, prefetchVars, storeVars, l2Vars
  <2> QED BY <1>1, <1>3, <1>4, <2>1, QuietData
<1>8. CASE \E r \in Requests : Client(r)
  BY <1>1, <1>3, <1>4, <1>8, ClientData
<1>9. CASE \E h \in handlers : Handle(h)
  BY <1>1, <1>3, <1>4, <1>9, HandleData
<1> QED BY <1>5, <1>6, <1>7, <1>8, <1>9 DEF Next

\* In the initial states nothing is owned.
LEMMA InitOwners ==
  ASSUME Init
  PROVE  /\ \A r \in Requests : WritingFor(r) = {} /\ HeldFor(r) = {}
         /\ L1!Init
<1>0. /\ L1Init /\ held = [r \in Requests |-> <<>>] /\ pf = PfIdle /\ st = StIdle
      /\ handlers = {} /\ lost = [r \in Requests |-> {}]
  BY DEF Init, SMInit
<1> DEFINE e == <<>>
<1>1. e \in Seq(Keys) /\ Range(e) = {} /\ e = <<>>
  BY EmptyList
<1>2. held = [r \in Requests |-> e] /\ pf.rid = NoRequest /\ NoRequest \notin Requests
  BY <1>0, <1>1, IdleThread
<1> HIDE DEF e
<1>3. \A r \in Requests : \A k : ~HandlerWrites(r, k) /\ ~HandlerDrops(r, k)
  BY <1>0 DEF HandlerWrites, HandlerDrops
<1>4. ASSUME NEW r \in Requests PROVE WritingFor(r) = {} /\ HeldFor(r) = {}
  <2>1. pf.rid # r /\ held[r] = e /\ lost[r] = {}
    BY <1>0, <1>2
  <2>2. \A k : k \notin WritingFor(r)
    BY <1>3, <2>1, WritingIs
  <2>3. \A k : k \notin HeldFor(r)
    BY <1>1, <1>3, <2>1, HeldIs
  <2> QED BY <2>2, <2>3
<1>5. \A c \in L1Clients : (IF c = StoreThread THEN {} ELSE WritingFor(c)) = {}
  BY <1>4, Owners
<1>6. Range(st.keys) = {}
  BY <1>0, IdleStore
<1>7. \A c \in L1Clients : (IF c = StoreThread THEN Range(st.keys) ELSE HeldFor(c)) = {}
  BY <1>4, <1>6, Owners
<1>8. Writing = [c \in L1Clients |-> {}] /\ Holds = [c \in L1Clients |-> {}]
  BY <1>5, <1>7, Owners
<1>9. L1!L1Init
  BY <1>0 DEF L1Init, PoolInit, L1!L1Init, L1!PoolInit
<1> QED BY <1>4, <1>8, <1>9 DEF L1!Init

\* ... and every variable has its type.
LEMMA InitType ==
  ASSUME Init
  PROVE  TypeInv
<1>1. ThreadType
  <2>0. /\ order = <<>> /\ jobs = <<>> /\ hits = [r \in Requests |-> Absent]
        /\ held = [r \in Requests |-> <<>>] /\ pf = PfIdle /\ pending = <<>> /\ st = StIdle /\ ev = EvIdle
    BY DEF Init, SMInit, LRUInit
  <2> DEFINE e == <<>>
  <2>1. e \in Seq(Keys) /\ e \in Seq(JobRec) /\ e \in Seq(Seq(Keys)) /\ Len(e) = 0
    OBVIOUS
  <2>2. order = e /\ jobs = e /\ held = [r \in Requests |-> e] /\ pending = e
    BY <2>0
  <2>3. PfIdle \in PfRec /\ PfIdle.l1 = 0 /\ PfIdle.hit = e
    BY IdleThread
  <2> HIDE DEF e
  <2>4. pf \in PfRec /\ pf.l1 <= Len(pf.hit)
    BY <2>0, <2>1, <2>3
  <2>5. st \in StRec
    BY <2>0, IdleStore
  <2>6. ev \in EvRec
    BY <2>0 DEF EvIdle, EvRec
  <2>7. hits \in [Requests -> HitRec]
    BY <2>0 DEF Absent, HitRec
  <2>8. held \in [Requests -> Seq(Keys)]
    BY <2>1, <2>2
  <2> QED BY <2>1, <2>2, <2>4, <2>5, <2>6, <2>7, <2>8 DEF ThreadType
<1>2. AdapterType
  <2>0. /\ stored \in [Adapters -> {[k \in S |-> k] : S \in L2Start \cup {{}}}]
        /\ tasks = [a \in Adapters |-> <<>>]
        /\ futures = [a \in Adapters |-> [who \in Submitters |-> NoFuture]]
    BY DEF Init, SMInit, L2Init
  <2> DEFINE e == <<>>
  <2>1. e \in Seq(TaskRec)
    OBVIOUS
  <2>2. tasks = [a \in Adapters |-> e]
    BY <2>0
  <2> HIDE DEF e
  <2>3. NoFuture \in FutureRec
    BY DEF NoFuture, FutureRec
  <2>4. futures \in [Adapters -> [Submitters -> FutureRec]]
    BY <2>0, <2>3
  <2>5. tasks \in [Adapters -> Seq(TaskRec)]
    BY <2>1, <2>2
  <2>6. DOMAIN stored = Adapters
    BY <2>0
  <2> QED BY <2>4, <2>5, <2>6 DEF AdapterType
<1>3. ServerType
  <2>0. /\ handlers = {} /\ cl = [r \in Requests |-> NewTracker] /\ lost = [r \in Requests |-> {}]
    BY DEF Init
  <2>1. NewTracker \in TrackerRec
    BY DEF NewTracker, TrackerRec
  <2> QED BY <2>0, <2>1 DEF ServerType
<1> QED BY <1>1, <1>2, <1>3 DEF TypeInv

\* The initial states satisfy the invariant.
LEMMA InitInv ==
  ASSUME Init
  PROVE  Inv
<1>0. /\ order = <<>> /\ jobs = <<>> /\ hits = [r \in Requests |-> Absent]
      /\ held = [r \in Requests |-> <<>>] /\ pf = PfIdle /\ pending = <<>> /\ st = StIdle
      /\ tasks = [a \in Adapters |-> <<>>]
      /\ futures = [a \in Adapters |-> [who \in Submitters |-> NoFuture]]
      /\ handlers = {} /\ cl = [r \in Requests |-> NewTracker] /\ lost = [r \in Requests |-> {}]
  BY DEF Init, SMInit, LRUInit, L2Init
<1> DEFINE e == <<>>
<1>1. e \in Seq(Keys) /\ Range(e) = {} /\ Len(e) = 0 /\ e = <<>>
  BY EmptyList
<1>2. /\ jobs = e /\ held = [r \in Requests |-> e] /\ pending = e
      /\ tasks = [a \in Adapters |-> e]
  BY <1>0
<1>3. /\ pf.pc = "get" /\ pf.rid = NoRequest /\ pf.load = e /\ pf.hit = e /\ pf.objs = e
      /\ NoRequest \notin Requests
  BY <1>0, IdleThread
<1>4. st.pc = "get" /\ st.keys = e /\ st.objs = e
  BY <1>0, IdleStore
<1>5. /\ \A r \in Requests : hits[r].state = "absent" /\ hits[r].l1 = 0 /\ hits[r].l2 = 0
      /\ \A r \in Requests : cl[r].pc = "new" /\ cl[r].lm = 0
      /\ \A r \in Requests : held[r] = e /\ lost[r] = {}
      /\ \A a \in Adapters : tasks[a] = e
      /\ \A a \in Adapters, w \in Submitters : futures[a][w].state = "none"
  BY <1>0, <1>2 DEF Absent, NewTracker, NoFuture
<1>6. \A i : i \notin 1 .. Len(e)
  BY <1>1
<1>7. "prefetch" \in Submitters /\ "store" \in Submitters
  BY DEF Submitters
<1>8. \A r \in Requests : Len(LookupKeys(r)) \in Nat /\ Len(Prompt[r]) \in Nat
  <2>1. ASSUME NEW r \in Requests PROVE Len(LookupKeys(r)) \in Nat /\ Len(Prompt[r]) \in Nat
    <3>1. LookupKeys(r) \in Seq(Keys)
      BY LookupKey
    <3>2. Prompt[r] \in Seq(Range(Prompt[r]))
      BY ServerAssumption
    <3> QED BY <3>1, <3>2
  <2> QED BY <2>1
<1>9. IsInjective(e)
  BY <1>1 DEF IsInjective
<1> HIDE DEF e
<1>10. TypeInv
  BY InitType
<1>11. OnceInv
  BY <1>0, <1>2, <1>3, <1>5, <1>6 DEF OnceInv, Queued
<1>12. AheadInv
  BY <1>0, <1>1, <1>5 DEF AheadInv, AheadOf
<1>13. HoldInv
  BY <1>0, <1>1, <1>5, <1>9 DEF HoldInv
<1>14. WriteInv
  BY <1>0 DEF WriteInv
<1>15. PfInv
  BY <1>0, <1>3, <1>9 DEF PfInv
<1>16. PrefixInv
  BY <1>3, <1>5, <1>8 DEF PrefixInv
<1>17. StInv
  BY <1>0, <1>2, <1>4, <1>6, <1>9 DEF StInv
<1>18. TaskInv
  BY <1>5, <1>6 DEF TaskInv
<1>19. FutureInv
  BY <1>3, <1>5, <1>7 DEF FutureInv
<1>20. L1!IInv
  BY InitOwners, ContractAssumptions, PoolAssumption, L1!InitEstablishes
<1>21. DataInv
  <2>1. \A h \in handlers : h.kind = "STORE" => StoreData(h)
    BY <1>0
  <2>2. PfData
    BY <1>3 DEF PfData
  <2>3. Slices(st.objs, st.keys)
    BY <1>1, <1>4, <1>6 DEF Slices
  <2>4. LoadData
    BY <1>3, <1>5, <1>6 DEF LoadData
  <2>5. L2Integrity
    <3>1. stored \in [Adapters -> {[k \in S |-> k] : S \in L2Start \cup {{}}}]
      BY DEF Init, SMInit, L2Init
    <3>2. ASSUME NEW a \in Adapters, NEW k \in DOMAIN stored[a] PROVE stored[a][k] = k
      <4>1. PICK S \in L2Start \cup {{}} : stored[a] = [l \in S |-> l]
        BY <3>1
      <4> QED BY <4>1
    <3> QED BY <3>2 DEF L2Integrity
  <2> QED BY <2>1, <2>2, <2>3, <2>4, <2>5 DEF DataInv
<1>22. ProtoInv
  BY <1>10, <1>11, <1>12, <1>13, <1>14, <1>15, <1>16, <1>17, <1>18, <1>19 DEF ProtoInv
<1> QED BY <1>20, <1>21, <1>22 DEF Inv

-----------------------------------------------------------------------------

(***************************************************************************)
(* The specification the server is said to implement and the one its       *)
(* proof is about are the same: one instance of L1Contract comes with      *)
(* CacheServer, the other with the theorems about L1Contract.              *)
(***************************************************************************)

\* finish_write is the same in both.
LEMMA ContractFinishWrite ==
  ASSUME NEW keys PROVE Contract!finish_write(keys) <=> finish_write(keys)
BY DEF finish_write, Contract!finish_write, poolVars, Contract!poolVars

\* finish_write_and_reserve_read is the same in both.
LEMMA ContractPublish ==
  ASSUME NEW keys PROVE Contract!finish_write_and_reserve_read(keys) <=> finish_write_and_reserve_read(keys)
BY DEF finish_write_and_reserve_read, Contract!finish_write_and_reserve_read, poolVars, Contract!poolVars

\* reserve_read is the same in both.
LEMMA ContractReserveRead ==
  ASSUME NEW keys PROVE Contract!reserve_read(keys) <=> reserve_read(keys)
BY DEF reserve_read, Contract!reserve_read, poolVars, Contract!poolVars, Reservable, Contract!Reservable,
       readable, Contract!readable

\* The readable prefix is the same in both.
LEMMA ContractPrefixKeys ==
  ASSUME NEW keys PROVE Contract!PrefixKeys(keys) = PrefixKeys(keys)
BY DEF PrefixKeys, Contract!PrefixKeys, PrefixIndices, Contract!PrefixIndices, readable, Contract!readable

\* free is the same in both.
LEMMA ContractFree ==
  ASSUME NEW objs PROVE Contract!free(objs) <=> free(objs)
BY DEF free, Contract!free, MapThenSumSet, Contract!MapThenSumSet, MapThenFoldSet, Contract!MapThenFoldSet

\* finish_read is the same in both.
LEMMA ContractFinishRead ==
  ASSUME NEW keys PROVE Contract!finish_read(keys) <=> finish_read(keys)
BY ContractFree DEF finish_read, Contract!finish_read, LastHold, Contract!LastHold

\* promote is the same in both.
LEMMA ContractPromote ==
  ASSUME NEW keys PROVE Contract!promote(keys) <=> promote(keys)
BY DEF promote, Contract!promote, poolVars, Contract!poolVars

\* delete is the same in both.
LEMMA ContractDelete ==
  ASSUME NEW keys, NEW force PROVE Contract!delete(keys, force) <=> delete(keys, force)
BY ContractFree DEF delete, Contract!delete, RemoveEntries, Contract!RemoveEntries, Deletable, Contract!Deletable,
                unlocked, Contract!unlocked, Restrict, Contract!Restrict

\* reserve_write is the same in both.
LEMMA ContractReserveWrite ==
  ASSUME NEW keys, NEW nbytes, NEW is_temporary
  PROVE  Contract!reserve_write(keys, nbytes, is_temporary) <=> reserve_write(keys, nbytes, is_temporary)
BY DEF reserve_write, Contract!reserve_write, Missing, Contract!Missing, Allocations, Contract!Allocations,
       allocate, Contract!allocate, Reused, Contract!Reused, Bumped, Contract!Bumped, kSubset, Contract!kSubset,
       Cardinality, Contract!Cardinality, Bijection, Contract!Bijection, NewEntry, Contract!NewEntry,
       Satisfiable, Contract!Satisfiable, Room, Contract!Room, Injection, Contract!Injection, Surjection, Contract!Surjection,
       IsInjective, Contract!IsInjective, IsFiniteSet, Contract!IsFiniteSet, ExistsBijection, Contract!ExistsBijection

\* A refused reserve_write is the same in both.
LEMMA ContractReserveWriteNone ==
  ASSUME NEW keys, NEW nbytes
  PROVE  Contract!reserve_write_none(keys, nbytes) <=> reserve_write_none(keys, nbytes)
BY DEF reserve_write_none, Contract!reserve_write_none, Missing, Contract!Missing,
       allocate_none, Contract!allocate_none, Reused, Contract!Reused, Bumped, Contract!Bumped,
       Cardinality, Contract!Cardinality, Satisfiable, Contract!Satisfiable, Room, Contract!Room

\* The steps of the two are the same.
LEMMA SameContract ==
  /\ L1!Init => Contract!Init
  /\ [L1!Next]_(L1!vars) => [Contract!Next]_(Contract!vars)
<1>1. L1!Init => Contract!Init
  BY DEF L1!Init, L1!L1Init, L1!PoolInit, Contract!Init, Contract!L1Init, Contract!PoolInit
<1>2. UNCHANGED L1!vars => UNCHANGED Contract!vars
  BY DEF L1!vars, L1!l1Vars, L1!poolVars, L1!ownerVars,
         Contract!vars, Contract!l1Vars, Contract!poolVars, Contract!ownerVars
<1>3. UNCHANGED L1!ownerVars => UNCHANGED Contract!ownerVars
  BY DEF L1!ownerVars, Contract!ownerVars
<1>4. ASSUME NEW keys \in SUBSET Keys, NEW nbytes \in Sizes, L1!ReserveWriteNone(keys, nbytes)
      PROVE  Contract!ReserveWriteNone(keys, nbytes)
  BY <1>3, <1>4, SameReserveWriteNone, ContractReserveWriteNone
  DEF L1!ReserveWriteNone, Contract!ReserveWriteNone
<1>5. ASSUME NEW keys \in SUBSET Keys, L1!Promote(keys) PROVE Contract!Promote(keys)
  BY <1>3, <1>5, SamePromote, ContractPromote DEF L1!Promote, Contract!Promote
<1>6. ASSUME NEW keys \in SUBSET Keys, L1!Evict(keys) PROVE Contract!Evict(keys)
  BY <1>3, <1>6, SameDelete, ContractDelete DEF L1!Evict, Contract!Evict
<1>7. ASSUME NEW keys \in SUBSET Keys, NEW c \in L1Clients, NEW nbytes \in Sizes, NEW is_temporary \in BOOLEAN,
             L1!ReserveWrite(c, keys, nbytes, is_temporary)
      PROVE  Contract!ReserveWrite(c, keys, nbytes, is_temporary)
  BY <1>7, SameReserveWrite, ContractReserveWrite
  DEF L1!ReserveWrite, Contract!ReserveWrite, L1!Own, Contract!Own, L1!Missing, Contract!Missing
<1>8. ASSUME NEW keys \in SUBSET Keys, NEW c \in L1Clients, L1!FinishWrite(c, keys)
      PROVE  Contract!FinishWrite(c, keys)
  BY <1>8, SameFinishWrite, ContractFinishWrite
  DEF L1!FinishWrite, Contract!FinishWrite, L1!Filled, Contract!Filled, L1!HasBytes, Contract!HasBytes,
      L1!Slice, Contract!Slice, L1!Disown, Contract!Disown
<1>9. ASSUME NEW keys \in SUBSET Keys, NEW c \in L1Clients, L1!FinishWriteAndReserveRead(c, keys)
      PROVE  Contract!FinishWriteAndReserveRead(c, keys)
  BY <1>9, SamePublish, ContractPublish
  DEF L1!FinishWriteAndReserveRead, Contract!FinishWriteAndReserveRead, L1!Filled, Contract!Filled,
      L1!HasBytes, Contract!HasBytes, L1!Slice, Contract!Slice, L1!Own, Contract!Own, L1!Disown, Contract!Disown
<1>10. ASSUME NEW keys \in SUBSET Keys, NEW c \in L1Clients, L1!ReserveRead(c, keys)
       PROVE  Contract!ReserveRead(c, keys)
  BY <1>10, SameReserveRead, ContractReserveRead
  DEF L1!ReserveRead, Contract!ReserveRead, L1!Own, Contract!Own, L1!Reservable, Contract!Reservable,
      L1!readable, Contract!readable
<1>11. ASSUME NEW keys \in SUBSET Keys, NEW c \in L1Clients, L1!FinishRead(c, keys)
       PROVE  Contract!FinishRead(c, keys)
  BY <1>11, SameFinishRead, ContractFinishRead
  DEF L1!FinishRead, Contract!FinishRead, L1!Disown, Contract!Disown
<1>12. ASSUME NEW keys \in SUBSET Keys, NEW c \in L1Clients, L1!Discard(c, keys)
       PROVE  Contract!Discard(c, keys)
  BY <1>12, SameDelete, ContractDelete
  DEF L1!Discard, Contract!Discard, L1!Disown, Contract!Disown
<1>13. ASSUME NEW c \in L1Clients, NEW k \in Keys, L1!Fill(c, k)
       PROVE  Contract!Fill(c, k)
  BY <1>3, <1>13
  DEF L1!Fill, Contract!Fill, L1!write_bytes, Contract!write_bytes, L1!Slice, Contract!Slice,
      L1!allocVars, Contract!allocVars, L1!ownerVars, Contract!ownerVars
<1>14. ASSUME NEW c \in L1Clients, NEW list \in {LookupKeys(r) : r \in Requests} \cup {<<>>},
              L1!ReserveReadPrefix(c, list)
       PROVE  Contract!ReserveReadPrefix(c, list)
  BY <1>14, SameReserveRead, ContractReserveRead, SamePrefixKeys, ContractPrefixKeys
  DEF L1!ReserveReadPrefix, Contract!ReserveReadPrefix, L1!reserve_read_prefix, Contract!reserve_read_prefix,
      L1!Own, Contract!Own
<1>15. ASSUME L1!Next PROVE Contract!Next
  <2>1. CASE \E keys \in SUBSET Keys, nbytes \in Sizes : L1!ReserveWriteNone(keys, nbytes)
    BY <1>4, <2>1 DEF Contract!Next
  <2>2. CASE \E keys \in SUBSET Keys : L1!Promote(keys)
    BY <1>5, <2>2 DEF Contract!Next
  <2>3. CASE \E keys \in SUBSET Keys : L1!Evict(keys)
    BY <1>6, <2>3 DEF Contract!Next
  <2>4. CASE \E keys \in SUBSET Keys, c \in L1Clients, nbytes \in Sizes, is_temporary \in BOOLEAN :
               L1!ReserveWrite(c, keys, nbytes, is_temporary)
    BY <1>7, <2>4 DEF Contract!Next
  <2>5. CASE \E keys \in SUBSET Keys, c \in L1Clients : L1!FinishWrite(c, keys)
    BY <1>8, <2>5 DEF Contract!Next
  <2>6. CASE \E keys \in SUBSET Keys, c \in L1Clients : L1!FinishWriteAndReserveRead(c, keys)
    BY <1>9, <2>6 DEF Contract!Next
  <2>7. CASE \E keys \in SUBSET Keys, c \in L1Clients : L1!ReserveRead(c, keys)
    BY <1>10, <2>7 DEF Contract!Next
  <2>8. CASE \E keys \in SUBSET Keys, c \in L1Clients : L1!FinishRead(c, keys)
    BY <1>11, <2>8 DEF Contract!Next
  <2>9. CASE \E keys \in SUBSET Keys, c \in L1Clients : L1!Discard(c, keys)
    BY <1>12, <2>9 DEF Contract!Next
  <2>10. CASE \E c \in L1Clients, k \in Keys : L1!Fill(c, k)
    BY <1>13, <2>10 DEF Contract!Next
  <2>11. CASE \E c \in L1Clients, list \in {LookupKeys(r) : r \in Requests} \cup {<<>>} :
               L1!ReserveReadPrefix(c, list)
    BY <1>14, <2>11 DEF Contract!Next
  <2> QED BY <1>15, <2>1, <2>2, <2>3, <2>4, <2>5, <2>6, <2>7, <2>8, <2>9, <2>10, <2>11 DEF L1!Next
<1> QED BY <1>1, <1>2, <1>15

-----------------------------------------------------------------------------

\* Inv holds in every reachable state, for every number of requests, ranks,
\* chunks and adapters, with aborts, timeouts and failures.
THEOREM ServerInvariance == Spec => []Inv
<1>1. Init => Inv
  BY InitInv
<1>2. Inv /\ [Next]_vars => Inv'
  BY InvStep
<1> QED BY <1>1, <1>2, PTL DEF Spec

\* The threads and handlers obey the lock protocol of L1 in every
\* interleaving: each step of the server is a step of a lawful client of
\* L1Contract, or changes nothing L1 knows of.
THEOREM ServerImplementsContract == Spec => ImplementsContract
<1>1. Init => Contract!Init
  BY InitOwners, SameContract
<1>2. Inv /\ [Next]_vars => [Contract!Next]_(Contract!vars)
  BY InvStep, SameContract
<1> QED BY <1>1, <1>2, ServerInvariance, PTL DEF Spec, ImplementsContract, Contract!Spec

\* What an adapter keeps under a key is that chunk, whatever tasks fail and
\* whatever files disappear: no store task reads a slice that has been
\* reused, and no load fills one that has been given to another chunk.
THEOREM AdaptersKeepOwnChunks == Spec => []L2Integrity
<1>1. Inv => L2Integrity
  BY DEF Inv, DataInv
<1> QED BY <1>1, ServerInvariance, PTL
-----------------------------------------------------------------------------

(***************************************************************************)
(* The evictor's list.  Every method of L1 that makes chunks readable, or  *)
(* takes readable ones away, notifies the list of just these chunks.       *)
(***************************************************************************)
Readable == {k \in DOMAIN entries : readable(k)}

LRUInv == order \in Seq(Keys) /\ IsInjective(order) /\ Range(order) = Readable

\* The entries are records.
LEMMA EntryRecords ==
  ASSUME Inv
  PROVE  /\ entries \in [DOMAIN entries -> Entry]
         /\ \A k \in DOMAIN entries : entries[k].write_locked \in BOOLEAN
<1>1. entries \in [DOMAIN entries -> Entry]
  BY ContractFacts DEF Inv
<1> QED BY <1>1 DEF Entry

\* The keys of R leave the list, and those of t come back at its end.
LEMMA ListMoves ==
  ASSUME LRUInv, NEW R, NEW t \in Seq(Keys), IsInjective(t), Range(t) \subseteq R,
         order' = Without(order, R) \o Reverse(t),
         Readable' = (Readable \ R) \cup Range(t)
  PROVE  LRUInv'
<1> DEFINE w == Without(order, R)
           v == Reverse(t)
<1>1. w \in Seq(Keys) /\ IsInjective(w) /\ Range(w) = Readable \ R
  BY WithoutKeeps DEF LRUInv
<1>2. v \in Seq(Keys) /\ IsInjective(v) /\ Range(v) = Range(t)
  BY Reversed
<1>3. order' = w \o v
  OBVIOUS
<1> HIDE DEF w, v
<1>4. Range(w) \cap Range(v) = {}
  BY <1>1, <1>2
<1>5. w \o v \in Seq(Keys) /\ IsInjective(w \o v) /\ Range(w \o v) = Range(w) \cup Range(v)
  BY <1>1, <1>2, <1>4, Joined
<1> QED BY <1>1, <1>2, <1>3, <1>5 DEF LRUInv

\* The keys of R leave the list.
LEMMA ListShrinks ==
  ASSUME LRUInv, NEW R, order' = Without(order, R), Readable' = Readable \ R
  PROVE  LRUInv'
BY WithoutKeeps DEF LRUInv

\* A read hold does not change what is readable.
LEMMA ReservedRead ==
  ASSUME Inv, NEW keys, reserve_read(keys)
  PROVE  Readable' = Readable
<1>1. entries' = [k \in DOMAIN entries |->
                    IF k \in Reservable(keys) THEN [entries[k] EXCEPT !.read_count = @ + 1] ELSE entries[k]]
  BY DEF reserve_read
<1>2. \A k \in DOMAIN entries : entries'[k].write_locked = entries[k].write_locked
  BY <1>1, EntryRecords DEF Entry
<1> QED BY <1>1, <1>2 DEF Readable, readable

\* Holds on readable chunks are dropped.
LEMMA DroppedRead ==
  ASSUME Inv, LRUInv, NEW keys \in Seq(Keys), IsInjective(keys),
         \A k \in Range(keys) : readable(k),
         finish_read(Range(keys)), on_finish_read(keys)
  PROVE  LRUInv'
<1> DEFINE R == Range(keys)
           F == LastHold(Range(keys))
           t == Without(keys, LastHold(Range(keys)))
<1>1. order' = Without(order, R) \o Reverse(t)
  BY DEF on_finish_read
<1>2. t \in Seq(Keys) /\ IsInjective(t) /\ Range(t) = R \ F
  BY WithoutKeeps
<1>3. entries' = [k \in DOMAIN entries \ F |->
                    IF k \in R THEN [entries[k] EXCEPT !.read_count = @ - 1] ELSE entries[k]]
  BY DEF finish_read
<1>4. F \subseteq R
  BY DEF LastHold
<1> HIDE DEF F, R, t
<1>5. \A k \in DOMAIN entries \ F : entries'[k].write_locked = entries[k].write_locked
  BY <1>3, EntryRecords DEF Entry
<1>6. Readable' = Readable \ F
  BY <1>3, <1>5 DEF Readable, readable
<1>7. R \subseteq Readable
  BY DEF R, Readable, readable
<1>8. Readable' = (Readable \ R) \cup Range(t) /\ Range(t) \subseteq R
  BY <1>2, <1>4, <1>6, <1>7
<1> QED BY <1>1, <1>2, <1>8, ListMoves

\* New entries are write-locked.
LEMMA ReservedWrite ==
  ASSUME NEW keys, NEW nbytes, NEW temporary, reserve_write(keys, nbytes, temporary)
  PROVE  Readable' = Readable
<1>1. /\ DOMAIN entries' = DOMAIN entries \cup keys
      /\ \A k \in DOMAIN entries : entries'[k] = entries[k]
      /\ \A k \in Missing(keys) : entries'[k].write_locked = TRUE
  BY ReservedEntries
<1> QED BY <1>1 DEF Readable, readable, Missing

\* Chunks that nobody could read become readable.
LEMMA Published ==
  ASSUME Inv, LRUInv, NEW keys \in Seq(Keys), IsInjective(keys),
         \A k \in Range(keys) : k \in DOMAIN entries,
         DOMAIN entries' = DOMAIN entries,
         \A k \in DOMAIN entries : entries'[k].write_locked = (IF k \in Range(keys) THEN FALSE ELSE entries[k].write_locked),
         on_created(keys)
  PROVE  LRUInv'
<1> DEFINE R == Range(keys)
<1>1. order' = Without(order, R) \o Reverse(keys)
  BY DEF on_created
<1>2. Readable' = (Readable \ R) \cup R
  BY DEF Readable, readable
<1> QED BY <1>1, <1>2, ListMoves

\* Chunks are deleted.
LEMMA Deleted ==
  ASSUME LRUInv, NEW gone, RemoveEntries(gone), on_removed(gone)
  PROVE  LRUInv'
<1>1. entries' = Restrict(entries, DOMAIN entries \ gone)
  BY DEF RemoveEntries
<1>2. DOMAIN entries' = DOMAIN entries \ gone /\ \A k \in DOMAIN entries' : entries'[k] = entries[k]
  BY <1>1 DEF Restrict
<1>3. Readable' = Readable \ gone
  BY <1>2 DEF Readable, readable
<1> QED BY <1>3, ListShrinks DEF on_removed

\* The steps of the handlers.
LEMMA HandleList ==
  ASSUME Inv, LRUInv, NEW h \in handlers, Handle(h)
  PROVE  LRUInv'
<1>0. h.keys \in Seq(Keys) /\ IsInjective(h.keys)
  BY HandlerFacts
<1>1. UNCHANGED <<entries, order>> => LRUInv'
  BY DEF LRUInv, Readable, readable
<1>2. Readable' = Readable /\ order' = order => LRUInv'
  BY DEF LRUInv
<1>3. CASE HandleLookup(h) \/ FreeFirst(h) \/ FreeRelease(h) \/ EndRelease(h) \/ EndPop(h)
           \/ RetrieveRead(h) \/ RetrieveSend(h) \/ RetrieveRelease(h) \/ StoreUnknown(h)
  <2>1. UNCHANGED <<entries, order>>
    BY <1>3 DEF HandleLookup, FreeFirst, FreeRelease, EndRelease, EndPop, RetrieveRead, RetrieveSend,
                RetrieveRelease, StoreUnknown, Release, smVars, l1Vars
  <2> QED BY <1>1, <2>1
<1>4. CASE FreeFinish(h) \/ EndFinish(h) \/ RetrieveFinish(h)
  <2>1. FinishRelease(h) /\ Drops(h)
    BY <1>4 DEF FreeFinish, EndFinish, RetrieveFinish, At, Drops
  <2>2. \A k \in Range(h.keys) : readable(k)
    BY <2>1, WrittenHasEntry
  <2> QED BY <1>0, <2>1, <2>2, DroppedRead DEF FinishRelease
<1>5. CASE RetrievePromote(h)
  <2>1. promote(Range(h.keys)) /\ order' = order
    BY <1>5 DEF RetrievePromote
  <2>2. entries' = [k \in DOMAIN entries |->
                      IF k \in Range(h.keys) THEN [entries[k] EXCEPT !.is_temporary = FALSE] ELSE entries[k]]
    BY <2>1 DEF promote
  <2>3. \A k \in DOMAIN entries : entries'[k].write_locked = entries[k].write_locked
    BY <2>2, EntryRecords DEF Entry
  <2>4. Readable' = Readable
    BY <2>2, <2>3 DEF Readable, readable
  <2> QED BY <1>2, <2>1, <2>4
<1>6. CASE StoreReserve(h)
  <2>1. reserve_write(Range(h.keys), ChunkNBytes, FALSE) /\ order' = order
    BY <1>6 DEF StoreReserve
  <2> QED BY <1>2, <2>1, ReservedWrite
<1>7. CASE StoreReserveNone(h)
  <2>1. UNCHANGED <<entries, order>>
    BY <1>7 DEF StoreReserveNone, reserve_write_none
  <2> QED BY <1>1, <2>1
<1>8. CASE StoreCopy(h)
  <2>1. UNCHANGED <<entries, order>>
    BY <1>8 DEF StoreCopy
  <2> QED BY <1>1, <2>1
<1>9. CASE StoreFinish(h)
  <2>1. finish_write(Range(h.keys)) /\ on_created(h.keys) /\ Writes(h)
    BY <1>9 DEF StoreFinish, At, Writes
  <2>2. \A k \in Range(h.keys) : k \in DOMAIN entries
    BY <2>1, WrittenHasEntry
  <2>3. entries' = [k \in DOMAIN entries |->
                      IF k \in Range(h.keys) THEN [entries[k] EXCEPT !.write_locked = FALSE] ELSE entries[k]]
    BY <2>1 DEF finish_write
  <2>4. \A k \in DOMAIN entries : entries'[k].write_locked = (IF k \in Range(h.keys) THEN FALSE ELSE entries[k].write_locked)
    BY <2>3, EntryRecords DEF Entry
  <2> QED BY <1>0, <2>1, <2>2, <2>3, <2>4, Published
<1> QED BY <1>3, <1>4, <1>5, <1>6, <1>7, <1>8, <1>9 DEF Handle

\* The steps of the prefetch thread.
LEMMA PrefetchList ==
  ASSUME Inv, LRUInv, Prefetch
  PROVE  LRUInv'
<1>1. UNCHANGED <<entries, order>> => LRUInv'
  BY DEF LRUInv, Readable, readable
<1>2. Readable' = Readable /\ order' = order => LRUInv'
  BY DEF LRUInv
<1>3. CASE PfLookup \/ PfLookups \/ PfDies \/ PfResolve \/ \E a \in Adapters : PfLoad(a) \/ PfLoaded(a)
  <2>1. UNCHANGED <<entries, order>>
    BY <1>3 DEF PfLookup, PfLookups, PfDies, PfResolve, PfLoad, PfLoaded, l1Vars
  <2> QED BY <1>1, <2>1
<1>4. CASE PfGet
  <2>1. reserve_read(PrefixKeys(Head(jobs).keys)) /\ order' = order
    BY <1>4 DEF PfGet, reserve_read_prefix
  <2> QED BY <1>2, <2>1, ReservedRead
<1>5. CASE PfReserve
  <2>1. reserve_write({NextLoad}, ChunkNBytes, TRUE) /\ order' = order
    BY <1>5 DEF PfReserve
  <2> QED BY <1>2, <2>1, ReservedWrite
<1>6. CASE PfReserveStops
  <2>1. UNCHANGED <<entries, order>>
    BY <1>6 DEF PfReserveStops, reserve_write_none, l1Vars
  <2> QED BY <1>1, <2>1
<1>7. CASE PfPublish
  <2> DEFINE F == First(pf.loaded, pf.load)
  <2>1. pf.pc = "load" /\ finish_write_and_reserve_read(Range(F)) /\ on_created(F)
    BY <1>7 DEF PfPublish
  <2>2. pf.load \in Seq(Keys) /\ pf.loaded \in Nat /\ IsInjective(pf.load)
    BY PfFacts DEF Inv, ProtoInv, PfInv
  <2>3. pf.loaded <= Len(pf.load)
    BY <2>1 DEF Inv, DataInv, PfData, FilledTo
  <2>4. F \in Seq(Keys) /\ IsInjective(F)
    BY <2>2, <2>3, FirstOf
  <2>5. Range(F) \subseteq Range(pf.load)
    <3>1. \A x : x \in Range(F) <=> \E i \in 1 .. pf.loaded : pf.load[i] = x
      BY <2>2, <2>3, FirstOf
    <3>2. \A i \in 1 .. pf.loaded : i \in 1 .. Len(pf.load)
      <4>1. Len(pf.load) \in Nat
        BY <2>2
      <4> QED BY <2>2, <2>3, <4>1
    <3> QED BY <2>2, <3>1, <3>2, RangeOf
  <2>6. \A k \in Range(F) : k \in DOMAIN entries
    BY <2>5, WrittenHasEntry
  <2> HIDE DEF F
  <2>7. entries' = [k \in DOMAIN entries |->
                      IF k \in Range(F)
                      THEN [entries[k] EXCEPT !.write_locked = FALSE, !.read_count = @ + 1] ELSE entries[k]]
    BY <2>1 DEF finish_write_and_reserve_read
  <2>8. \A k \in DOMAIN entries : entries'[k].write_locked = (IF k \in Range(F) THEN FALSE ELSE entries[k].write_locked)
    BY <2>7, EntryRecords DEF Entry
  <2> QED BY <2>1, <2>4, <2>6, <2>7, <2>8, Published
<1>8. CASE PfDiscard
  <2>1. RemoveEntries(Deletable(Range(pf.load), TRUE)) /\ order' = Without(order, Range(pf.load))
    BY <1>8 DEF PfDiscard, delete, on_removed
  <2>2. Deletable(Range(pf.load), TRUE) = Range(pf.load)
    BY WrittenHasEntry DEF Deletable
  <2> QED BY <2>1, <2>2, Deleted DEF on_removed
<1>9. CASE PfUnhold
  <2>1. pf.pc = "unhold" /\ finish_read(Range(pf.hit)) /\ on_finish_read(pf.hit)
    BY <1>9 DEF PfUnhold
  <2>2. pf.hit \in Seq(Keys) /\ IsInjective(pf.hit) /\ pf.rid \in Requests
    BY <2>1, PfFacts DEF Inv, ProtoInv, PfInv
  <2>3. \A k \in Range(pf.hit) : readable(k)
    <3> TAKE k \in Range(pf.hit)
    <3>1. k \in HeldFor(pf.rid)
      BY HeldIs
    <3>2. pf.rid \in L1Clients /\ Holds[pf.rid] = HeldFor(pf.rid)
      BY <2>2, Owners
    <3> QED BY <3>1, <3>2, ContractFacts DEF Inv
  <2> QED BY <2>1, <2>2, <2>3, DroppedRead
<1> QED BY <1>3, <1>4, <1>5, <1>6, <1>7, <1>8, <1>9 DEF Prefetch

\* The steps of the store thread and of the evictor.
LEMMA StoreList ==
  ASSUME Inv, LRUInv, Store \/ Eviction
  PROVE  LRUInv'
<1>1. UNCHANGED <<entries, order>> => LRUInv'
  BY DEF LRUInv, Readable, readable
<1>2. CASE StSubmit \/ StDies \/ EvCheck \/ EvScan
  <2>1. UNCHANGED <<entries, order>>
    BY <1>2 DEF StSubmit, StDies, EvCheck, EvScan, l1Vars
  <2> QED BY <1>1, <2>1
<1>3. CASE StGet
  <2>1. reserve_read(Range(Head(pending))) /\ order' = order
    BY <1>3 DEF StGet
  <2> QED BY <2>1, ReservedRead DEF LRUInv
<1>4. CASE StWait
  <2>1. finish_read(Range(st.keys)) /\ on_finish_read(st.keys)
    BY <1>4 DEF StWait
  <2>2. st.keys \in Seq(Keys) /\ IsInjective(st.keys)
    BY StFacts
  <2>3. \A k \in Range(st.keys) : readable(k)
    <3>1. StoreThread \in L1Clients /\ Holds[StoreThread] = Range(st.keys)
      BY Owners
    <3> QED BY <3>1, ContractFacts DEF Inv
  <2> QED BY <2>1, <2>2, <2>3, DroppedRead
<1>5. CASE EvDelete
  <2>1. RemoveEntries(Deletable(ev.victims, FALSE)) /\ on_removed(Deletable(ev.victims, FALSE))
    BY <1>5 DEF EvDelete, delete
  <2> QED BY <2>1, Deleted
<1> QED BY <1>2, <1>3, <1>4, <1>5 DEF Store, Eviction

\* Every step keeps the list.
LEMMA ListStep ==
  ASSUME Inv, LRUInv, [Next]_vars
  PROVE  LRUInv'
<1>1. UNCHANGED <<entries, order>> => LRUInv'
  BY DEF LRUInv, Readable, readable
<1>2. CASE \E r \in Requests : Client(r)
  <2>1. UNCHANGED <<entries, order>>
    BY <1>2 DEF Client, SubmitLookup, Query, QueryTimeout, UpdateStateAfterAlloc, SubmitRetrieve, LoadsDone,
                SubmitStore, RequestFinished, smVars, l1Vars
  <2> QED BY <1>1, <2>1
<1>3. CASE \E rank \in Ranks : Register(rank) \/ Unregister(rank)
  <2>1. UNCHANGED <<entries, order>>
    BY <1>3 DEF Register, Unregister, smVars, l1Vars
  <2> QED BY <1>1, <2>1
<1>4. CASE Waiting \/ UNCHANGED vars
  <2>1. UNCHANGED <<entries, order>>
    BY <1>4 DEF Waiting, vars, smVars, l1Vars
  <2> QED BY <1>1, <2>1
<1>5. CASE Background
  <2>1. CASE \E a \in Adapters : Worker(a) \/ Storage(a)
    <3>1. UNCHANGED <<entries, order>>
      BY <2>1 DEF Worker, Storage
    <3> QED BY <1>1, <3>1
  <2> QED BY <1>5, <2>1, PrefetchList, StoreList DEF Background
<1> QED BY <1>2, <1>3, <1>4, <1>5, HandleList DEF Next

\* The evictor sees exactly the readable chunks, each once: none is
\* forgotten in L1 and none outlives its entry in the list, whatever the
\* interleaving of the handlers and threads that notify it.
THEOREM EvictorSeesReadable == Spec => []LRUMatchesEntries
<1>1. Init => LRUInv
  <2>1. ASSUME Init PROVE LRUInv
    <3>1. order = <<>> /\ entries = [k \in {} |-> {}]
      BY <2>1 DEF Init, SMInit, L1Init, LRUInit
    <3> DEFINE e == <<>>
    <3>2. e \in Seq(Keys) /\ Range(e) = {} /\ IsInjective(e) /\ order = e
      BY <3>1, EmptyList
    <3> HIDE DEF e
    <3>3. Readable = {}
      BY <3>1 DEF Readable
    <3> QED BY <3>2, <3>3 DEF LRUInv
  <2> QED BY <2>1
<1>2. Inv /\ LRUInv /\ [Next]_vars => LRUInv'
  BY ListStep
<1>3. LRUInv => LRUMatchesEntries
  <2>1. ASSUME LRUInv PROVE LRUMatchesEntries
    <3>1. order \in Seq(Keys) /\ IsInjective(order) /\ Range(order) = Readable
      BY <2>1 DEF LRUInv
    <3>2. Len(order) \in Nat /\ \A i, j \in 1 .. Len(order) : order[i] = order[j] => i = j
      BY <3>1, InjectiveIs
    <3>3. \A x : x \in Range(order) <=> \E i \in 1 .. Len(order) : order[i] = x
      BY <3>1, RangeOf
    <3> DEFINE n == Len(order)
               f == [i \in 1 .. n |-> order[i]]
    <3>4. f \in Bijection(1 .. n, Range(order))
      <4>1. f \in [1 .. n -> Range(order)]
        BY <3>3
      <4> QED BY <3>2, <3>3, <4>1 DEF Bijection, Injection, Surjection, IsInjective
    <3>5. ExistsBijection(1 .. n, Range(order))
      BY <3>4 DEF ExistsBijection
    <3>7. IsFiniteSet(1 .. n) /\ Cardinality(1 .. n) = n
      <4>1. 1 \in Int /\ n \in Int /\ n \in Nat
        BY <3>2
      <4> HIDE DEF n
      <4>2. IsFiniteSet(1 .. n) /\ Cardinality(1 .. n) = IF 1 > n THEN 0 ELSE n - 1 + 1
        BY <4>1, FS_Interval
      <4> QED BY <4>1, <4>2
    <3>8. Cardinality(Range(order)) = n
      BY <3>5, <3>7, FS_Bijection
    <3> QED BY <3>1, <3>8 DEF LRUMatchesEntries, Readable
  <2> QED BY <2>1
<1> QED BY <1>1, <1>2, <1>3, ServerInvariance, PTL DEF Spec

=============================================================================
