------------------------------ MODULE FileStore -----------------------------
(***************************************************************************)
(* Chunks on their way to disk and back, over restarts: FSAdapter of       *)
(* mini_llmcache/l2/fs.py down to its files, and above it the deployments  *)
(* and instances of server.py and the keys in L1.                          *)
(*                                                                         *)
(* The adapter's worker runs one task at a time, key by key; store writes  *)
(* a chunk page by page to a file under tmp and renames it.  The server    *)
(* may be killed between any two steps and started again over the same     *)
(* directory.  The operating system (external) writes pages back in its    *)
(* own time; as the code calls no fsync, a power failure keeps a rename    *)
(* and may lose pages of the file.  Handlers are atomic here and an entry  *)
(* of L1 is complete or reserved for the load that runs: locks and their   *)
(* interleavings are the subject of CacheServer.                           *)
(***************************************************************************)
EXTENDS ChunkKeys, SequencesExt, FiniteSetsExt, Functions

CONSTANTS
  Engines,     \* the instances that may register
  Prompts,     \* token sequences
  Pages,       \* pages of a chunk
  L1Chunks,    \* bound: the chunks L1 has room for
  MaxRestarts  \* bound: kills and power failures

ASSUME FileAssumption ==
  /\ \A e \in Engines : e.world_size \in Nat \ {0}
  /\ Prompts \subseteq Seq(Nat)
  /\ Pages \in Nat \ {0}
  /\ L1Chunks \in Nat
  /\ MaxRestarts \in Nat

VARIABLES
  deployments,  \* <<model, world size>> -> chunk_nbytes
  instances,    \* the engines that are registered
  l1,           \* ChunkKey -> [chunk, len]
  tmp, final,   \* file name -> [chunk, len], under tmp and in base
  task,         \* the worker's task
  restarts,     \* how often the server was started again
  powerLost,    \* history: the power has failed
  seen          \* history: the engines that ever registered over these files

serverVars == <<deployments, instances, l1>>
fileVars == <<tmp, final>>
vars == <<serverVars, fileVars, task, restarts, powerLost, seen>>

\* The mapping f with the items of g put into it.
Put(f, g) == [x \in DOMAIN f \cup DOMAIN g |-> IF x \in DOMAIN g THEN g[x] ELSE f[x]]

Data(chunk, n) == [chunk |-> chunk, len |-> n]
\* done counts the keys the worker is through with, objs what it loaded.
Task(op, keys, nbytes) ==
  [op |-> op, keys |-> keys, done |-> 0, objs |-> <<>>, pc |-> "key", nbytes |-> nbytes]
NoTask == Task("none", <<>>, 0)

Init ==
  /\ deployments = <<>>
  /\ instances = {}
  /\ l1 = <<>>
  /\ tmp = <<>>
  /\ final = <<>>
  /\ task = NoTask
  /\ restarts = 0
  /\ powerLost = FALSE
  /\ seen = {}

-----------------------------------------------------------------------------

(***************************************************************************)
(* The server's handlers and controllers.                                  *)
(***************************************************************************)
register(e) ==
  /\ e \notin instances
  /\ deployments' = Put(deployments, [d \in {<<e.model, e.world_size>>} |-> e.chunk_nbytes])
  /\ instances' = instances \cup {e}
  /\ seen' = seen \cup {e}
  /\ UNCHANGED <<l1, fileVars, task, restarts, powerLost>>

\* The deployment stays.
unregister(e) ==
  /\ e \in instances
  /\ instances' = instances \ {e}
  /\ UNCHANGED <<deployments, l1, fileVars, task, restarts, powerLost, seen>>

\* The keys a running load has reserved.
Reserved == IF task.op = "load" THEN ToSet(task.keys) ELSE {}
Room == L1Chunks - Cardinality(DOMAIN l1 \cup Reserved)

\* store: the chunks from start on whose keys are not there yet.
store(e, token_ids, start) ==
  LET keys == op_keys(token_ids, start, e)
      New == {i \in DOMAIN keys : keys[i] \notin DOMAIN l1 \cup Reserved}
      Stored(i) == Data(Chunk(e, Prefix(token_ids, start + i)), Pages)
  IN  /\ e \in instances
      /\ New # {} /\ Cardinality(New) <= Room
      /\ l1' = Put(l1, [k \in {keys[i] : i \in New} |->
                          Stored(CHOOSE i \in New : keys[i] = k)])
      /\ UNCHANGED <<deployments, instances, fileVars, task, restarts, powerLost, seen>>

\* The elements of s that are in S, in their order.
Selected(s, S) ==
  LET sel[i \in 0 .. Len(s)] ==
        IF i = 0 THEN <<>>
        ELSE IF s[i] \in S THEN Append(sel[i - 1], s[i]) ELSE sel[i - 1]
  IN  sel[Len(s)]

\* The store controller takes the list of a STORE, as far as it is in L1.
Mirror(e, token_ids, start) ==
  LET keys == Selected(op_keys(token_ids, start, e), DOMAIN l1)
  IN  /\ task = NoTask
      /\ keys # <<>>
      /\ task' = Task("store", keys, 0)
      /\ UNCHANGED <<serverVars, fileVars, restarts, powerLost, seen>>

\* A key the store controller holds stays.
evict(k) ==
  /\ k \notin ToSet(task.keys)
  /\ l1' = Restrict(l1, DOMAIN l1 \ {k})
  /\ UNCHANGED <<deployments, instances, fileVars, task, restarts, powerLost, seen>>

\* The elements of s before the first one in S, and from it on.
Before(s, S) ==
  LET n == SelectInSeq(s, LAMBDA x : x \in S)
  IN  IF n = 0 THEN s ELSE SubSeq(s, 1, n - 1)
From(s, S) == SubSeq(s, Len(Before(s, S)) + 1, Len(s))

\* FSAdapter.lookup: the prefix of keys that exists on disk.
exists(k) == filename(k) \in DOMAIN final
lookup(keys) == Before(keys, {k \in ToSet(keys) : ~exists(k)})

\* LOOKUP of a prompt: behind the prefix in L1, the keys with files are
\* loaded into slices of the deployment's chunk size, up to the first one
\* that is in L1 and as far as there is room.
Prefetch(d, token_ids) ==
  LET keys == keys_for(chunk_hashes(token_ids), d[1], d[2])
      missing == From(keys, ToSet(keys) \ DOMAIN l1)
      wanted == Before(lookup(missing), DOMAIN l1)
      load == SubSeq(wanted, 1, Min({Len(wanted), Room}))
  IN  /\ task = NoTask
      /\ load # <<>>
      /\ task' = Task("load", load, deployments[d])
      /\ UNCHANGED <<serverVars, fileVars, restarts, powerLost, seen>>

-----------------------------------------------------------------------------

(***************************************************************************)
(* The adapter's worker.                                                   *)
(***************************************************************************)
Key == task.keys[task.done + 1]
Name == filename(Key)
At(op, pc) == task.op = op /\ task.pc = pc
LastKey == task.done + 1 = Len(task.keys)

StoredKey ==
  task' = IF LastKey THEN NoTask ELSE [task EXCEPT !.done = @ + 1, !.pc = "key"]

\* if final.exists(): continue
StoreSkip ==
  /\ At("store", "key") /\ exists(Key)
  /\ StoredKey
  /\ UNCHANGED <<serverVars, fileVars, restarts, powerLost, seen>>

\* write_bytes truncates what an earlier process left ...
StoreOpen ==
  /\ At("store", "key") /\ ~exists(Key)
  /\ tmp' = Put(tmp, [n \in {Name} |-> Data(l1[Key].chunk, 0)])
  /\ task' = [task EXCEPT !.pc = "write"]
  /\ UNCHANGED <<serverVars, final, restarts, powerLost, seen>>

\* ... and writes the chunk.
StoreWrite ==
  /\ At("store", "write") /\ tmp[Name].len < Pages
  /\ tmp' = [tmp EXCEPT ![Name].len = @ + 1]
  /\ UNCHANGED <<serverVars, final, task, restarts, powerLost, seen>>

\* Mutant: the file gets its final name before it is complete.
Written_early == tmp[Name].len > 0

Written == tmp[Name].len = Pages

\* os.replace
StoreReplace ==
  /\ At("store", "write") /\ Written
  /\ final' = Put(final, [n \in {Name} |-> tmp[Name]])
  /\ tmp' = Restrict(tmp, DOMAIN tmp \ {Name})
  /\ StoredKey
  /\ UNCHANGED <<serverVars, restarts, powerLost, seen>>

\* The load is over: what was loaded is published in L1, the rest of the
\* reserved slices is given back.
Publish(objs) ==
  /\ l1' = Put(l1, [k \in {task.keys[i] : i \in DOMAIN objs} |->
                      objs[CHOOSE i \in DOMAIN objs : task.keys[i] = k]])
  /\ task' = NoTask

\* Mutant: load counts what readinto read, however much.
FillsUnchecked(file) == TRUE

\* readinto fills the slice, which has nbytes bytes.
Fills(file) == file.len = Pages /\ file.chunk.nbytes >= task.nbytes

LoadKey ==
  /\ At("load", "key")
  /\ IF exists(Key) /\ Fills(final[Name])
     THEN LET objs == Append(task.objs, [final[Name] EXCEPT !.chunk.nbytes = task.nbytes])
          IN  IF LastKey THEN Publish(objs)
              ELSE /\ task' = [task EXCEPT !.done = @ + 1, !.objs = objs]
                   /\ UNCHANGED l1
     ELSE Publish(task.objs)
  /\ UNCHANGED <<deployments, instances, fileVars, restarts, powerLost, seen>>

-----------------------------------------------------------------------------

\* The server process ends and is started again over its files.
Restart ==
  /\ restarts < MaxRestarts
  /\ restarts' = restarts + 1
  /\ deployments' = <<>>
  /\ instances' = {}
  /\ l1' = <<>>
  /\ task' = NoTask

Crash == Restart /\ UNCHANGED <<fileVars, powerLost, seen>>

\* Of every file any number of pages may not have been written back.
Survivors(files) ==
  {[n \in DOMAIN files |-> Data(files[n].chunk, len[n])] :
     len \in {f \in [DOMAIN files -> 0 .. Pages] :
                \A n \in DOMAIN files : f[n] <= files[n].len}}

PowerFails ==
  /\ Restart
  /\ tmp' \in Survivors(tmp)
  /\ final' \in Survivors(final)
  /\ powerLost' = TRUE
  /\ UNCHANGED seen

Worker == StoreSkip \/ StoreOpen \/ StoreWrite \/ StoreReplace \/ LoadKey

Next ==
  \/ \E e \in Engines : register(e) \/ unregister(e)
  \/ \E e \in Engines, p \in Prompts :
       \E start \in 0 .. (NumChunks(p) - 1) : store(e, p, start) \/ Mirror(e, p, start)
  \/ \E k \in DOMAIN l1 : evict(k)
  \/ \E d \in DOMAIN deployments, p \in Prompts : Prefetch(d, p)
  \/ Worker
  \/ Crash \/ PowerFails

Spec == Init /\ [][Next]_vars

-----------------------------------------------------------------------------

\* "A crash never leaves a half-written chunk that a later lookup would
\* trust": lookup looks for the final name only, so every final file is
\* whole, whenever the process is killed; only a power failure can cut one.
FinalIsWhole ==
  powerLost \/ \A n \in DOMAIN final : final[n].len = Pages

\* The files of e's model are of one deployment: no engine with another world
\* size or chunk size, or with a model of the same file name, ever registered.
SameFiles(e, f) ==
  filename(ChunkKey(NONE_HASH, e.model, 0)) = filename(ChunkKey(NONE_HASH, f.model, 0))
SameDeployment(e, f) ==
  e.model = f.model /\ e.world_size = f.world_size /\ e.chunk_nbytes = f.chunk_nbytes
OneDeployment(e) == \A f \in seen : SameFiles(e, f) => SameDeployment(e, f)

\* What retrieve sends for a key, whoever stored it and whether or not it was
\* on disk over a restart, is a chunk of the engine's rank for the whole token
\* prefix.  It is the engine's own, of its model, world size and chunk size,
\* as long as its files are of one deployment: the key has no world size and
\* the file name takes "/" for "-", so that others may share them.
RetrievesOwnChunks ==
  \A e \in instances, p \in Prompts :
    LET keys == op_keys(p, 0, e)
    IN  \A i \in DOMAIN keys :
          keys[i] \in DOMAIN l1 =>
            LET chunk == l1[keys[i]].chunk
            IN  /\ chunk.tokens = Prefix(p, i)
                /\ chunk.rank = e.rank /\ SameFiles(chunk, e)
                /\ OneDeployment(e) => chunk = Chunk(e, Prefix(p, i))

\* A chunk that load counts has filled its slice, even from a file that a
\* power failure has cut.
LoadedIsWhole == \A k \in DOMAIN l1 : l1[k].len = Pages

=============================================================================
