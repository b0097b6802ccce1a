------------------------------ MODULE Transfer ------------------------------
(***************************************************************************)
(* to_host and from_host of mini_llmcache/l0/transfer.py on one Pipeline:  *)
(* three staging buffers on the device, three pinned host buffers, a       *)
(* kernel stream, a copy stream and the events ready and free per slot.    *)
(*                                                                         *)
(* The host only enqueues; each stream runs its operations in order and on *)
(* its own time.  An event counts its records: a wait or a synchronize is  *)
(* over when the record that was the last one issued at the time of the    *)
(* call has run, and one on an event never recorded is no wait at all.     *)
(* The streams and the events are the accelerator runtime's (external).    *)
(*                                                                         *)
(* A pipeline serves one direction (d2h or h2d) and its lock admits one    *)
(* call at a time.  The layers of a chunk travel in one operation.  Block  *)
(* <<c, i, b>> is block b of chunk i of call c and its right contents are  *)
(* named by the same tuple.                                                *)
(***************************************************************************)
EXTENDS KVLayout

CONSTANTS
  MaxCalls,          \* bound: calls of the pipeline
  CallSizes          \* the numbers of chunks a call may have

ASSUME TransferAssumption ==
  /\ MaxCalls \in Nat
  /\ CallSizes \subseteq Nat \ {0}

VARIABLES
  dir,      \* the pipeline's direction
  call,     \* [no, n, skip]: the current call, its chunks, skip_blocks
  pc, i,    \* the host thread and its loop variable
  chunks,   \* what to_host has extracted
  streams,  \* streams[s]: the operations stream s has not run
  issued,   \* issued[e]: records of event e the host has enqueued
  fired,    \* fired[e]: the last record of e that has run
  staging, cpu_bufs,
  kv,       \* the KV cache on the device
  forward   \* the forward pass still writes the blocks of the call

hostVars == <<call, pc, i, chunks>>
devVars == <<streams, issued, fired, staging, cpu_bufs, kv, forward>>
vars == <<dir, hostVars, devVars>>

Slots == 0 .. 2
Blocks == 0 .. (blocks_per_chunk - 1)
Calls == 1 .. MaxCalls
Chunks == UNION {0 .. (n - 1) : n \in CallSizes}
ready(s) == <<"ready", s>>
free(s) == <<"free", s>>
begin == <<"begin", 0>>
end == <<"end", 0>>
Events == {ready(s) : s \in Slots} \cup {free(s) : s \in Slots} \cup {begin, end}

Stale == <<>>
Right(c, k) == [b \in Blocks |-> <<c, k, b>>]

Init ==
  /\ dir \in {"to_host", "from_host"}
  /\ call = [no |-> 0, n |-> 0, skip |-> 0]
  /\ pc = "idle"
  /\ i = 0
  /\ chunks = <<>>
  /\ streams = [s \in {"kernel", "copy"} |-> <<>>]
  /\ issued = [e \in Events |-> 0]
  /\ fired = [e \in Events |-> 0]
  /\ staging = [s \in Slots |-> [b \in Blocks |-> Stale]]
  /\ cpu_bufs = [s \in Slots |-> [b \in Blocks |-> Stale]]
  /\ kv = [x \in Calls \X Chunks \X Blocks |-> Stale]
  /\ forward = FALSE

-----------------------------------------------------------------------------

(***************************************************************************)
(* Operations of a stream.  The waits and records of an iteration carry    *)
(* the number of the record they wait for or make.                         *)
(***************************************************************************)
Wait(e, t) == [do |-> "wait", on |-> e, t |-> t]
Record(e, t) == [do |-> "record", on |-> e, t |-> t]
Move(what, s, c, k, skip) ==
  [do |-> what, slot |-> s, call |-> c, chunk |-> k, skip |-> skip]

Op(s) == Head(streams[s])
Runs(s, what) ==
  /\ streams[s] # <<>>
  /\ Op(s).do = what
  /\ streams' = [streams EXCEPT ![s] = Tail(@)]

RunWait(s) ==
  /\ Runs(s, "wait")
  /\ fired[Op(s).on] >= Op(s).t
  /\ UNCHANGED <<issued, fired, staging, cpu_bufs, kv, forward>>

RunRecord(s) ==
  /\ Runs(s, "record")
  /\ fired' = [fired EXCEPT ![Op(s).on] = Op(s).t]
  /\ UNCHANGED <<issued, staging, cpu_bufs, kv, forward>>

\* torch.index_select
RunGather ==
  /\ Runs("kernel", "gather")
  /\ LET o == Op("kernel")
     IN  staging' = [staging EXCEPT ![o.slot] =
                       [b \in Blocks |-> kv[<<o.call, o.chunk, b>>]]]
  /\ UNCHANGED <<issued, fired, cpu_bufs, kv, forward>>

\* index_copy_ of the blocks behind skip
RunScatter ==
  /\ Runs("kernel", "scatter")
  /\ LET o == Op("kernel")
     IN  kv' = [x \in DOMAIN kv |->
                  IF x[1] = o.call /\ x[2] = o.chunk /\ x[3] >= o.skip
                  THEN staging[o.slot][x[3]] ELSE kv[x]]
  /\ UNCHANGED <<issued, fired, staging, cpu_bufs, forward>>

\* The two directions of copy_.
RunToCpu ==
  /\ Runs("copy", "to_cpu")
  /\ LET s == Op("copy").slot IN cpu_bufs' = [cpu_bufs EXCEPT ![s] = staging[s]]
  /\ UNCHANGED <<issued, fired, staging, kv, forward>>

RunToDevice ==
  /\ Runs("copy", "to_device")
  /\ LET s == Op("copy").slot IN staging' = [staging EXCEPT ![s] = cpu_bufs[s]]
  /\ UNCHANGED <<issued, fired, cpu_bufs, kv, forward>>

\* The forward pass that computes the blocks a to_host reads.
RunForward ==
  /\ forward
  /\ forward' = FALSE
  /\ kv' = [x \in DOMAIN kv |-> IF x[1] = call.no THEN x ELSE kv[x]]
  /\ UNCHANGED <<streams, issued, fired, staging, cpu_bufs>>

Device ==
  /\ \/ \E s \in {"kernel", "copy"} : RunWait(s) \/ RunRecord(s)
     \/ RunGather \/ RunScatter \/ RunToCpu \/ RunToDevice \/ RunForward
  /\ UNCHANGED <<dir, hostVars>>

-----------------------------------------------------------------------------

(***************************************************************************)
(* The host thread.                                                        *)
(***************************************************************************)
Slot == i % 3
More == i < call.n
Synchronized(e) == fired[e] >= issued[e]
Idle(s) == streams[s] = <<>>

\* Enqueue operations; the events of Bump are recorded by them.
Enqueue(kernel, copy, Bump) ==
  /\ streams' = [streams EXCEPT !["kernel"] = @ \o kernel, !["copy"] = @ \o copy]
  /\ issued' = [e \in Events |-> IF e \in Bump THEN issued[e] + 1 ELSE issued[e]]
  /\ UNCHANGED <<fired, staging, kv, forward>>

RecordNext(e) == Record(e, issued[e] + 1)

\* A call enters under the pipeline's lock.
Enter ==
  /\ pc = "idle"
  /\ call.no < MaxCalls
  /\ \E n \in CallSizes, skip \in Blocks :
       /\ dir = "to_host" => skip = 0
       /\ call' = [no |-> call.no + 1, n |-> n, skip |-> skip]
  /\ pc' = "begin"
  /\ i' = 0
  /\ chunks' = <<>>
  /\ forward' = (dir = "to_host")
  /\ UNCHANGED <<dir, streams, issued, fired, staging, cpu_bufs, kv>>

\* device_module.synchronize()
DeviceFrozen == Idle("kernel") /\ Idle("copy") /\ ~forward

Begin ==
  /\ pc = "begin"
  /\ IF dir = "to_host"
     THEN DeviceFrozen /\ Enqueue(<<RecordNext(begin)>>, <<>>, {begin})
     ELSE Enqueue(<<>>, <<RecordNext(begin)>>, {begin})
  /\ pc' = "chunk"
  /\ UNCHANGED <<dir, call, i, chunks, cpu_bufs>>

\* Mutant: the copy stream does not wait for the gather.
ToHostChunkUnordered ==
  /\ dir = "to_host" /\ pc = "chunk" /\ More
  /\ Enqueue(<<Wait(free(Slot), issued[free(Slot)]),
               Move("gather", Slot, call.no, i, 0), RecordNext(ready(Slot))>>,
             <<Move("to_cpu", Slot, call.no, i, 0), RecordNext(free(Slot))>>,
             {ready(Slot), free(Slot)})
  /\ pc' = "extract"
  /\ UNCHANGED <<dir, call, i, chunks, cpu_bufs>>

ToHostChunk ==
  /\ dir = "to_host" /\ pc = "chunk" /\ More
  /\ Enqueue(<<Wait(free(Slot), issued[free(Slot)]),
               Move("gather", Slot, call.no, i, 0), RecordNext(ready(Slot))>>,
             <<Wait(ready(Slot), issued[ready(Slot)] + 1),
               Move("to_cpu", Slot, call.no, i, 0), RecordNext(free(Slot))>>,
             {ready(Slot), free(Slot)})
  /\ pc' = "extract"
  /\ UNCHANGED <<dir, call, i, chunks, cpu_bufs>>

\* free[buf].synchronize() and tobytes()
ToHostExtract ==
  /\ pc = "extract"
  /\ Synchronized(free(Slot))
  /\ chunks' = Append(chunks, cpu_bufs[Slot])
  /\ i' = i + 1
  /\ pc' = "chunk"
  /\ UNCHANGED <<dir, call, devVars>>

\* Mutant: an off-by-one in which chunks reuse a host buffer.
BufferConsumedLate == i > 3 => Synchronized(free(Slot))

\* The host buffer of chunk i - 3 has been consumed.
BufferConsumed == i >= 3 => Synchronized(free(Slot))

Skip == IF i = 0 THEN call.skip ELSE 0

FromHostChunk ==
  /\ dir = "from_host" /\ pc = "chunk" /\ More
  /\ BufferConsumed
  /\ cpu_bufs' = [cpu_bufs EXCEPT ![Slot] = Right(call.no, i)]
  /\ Enqueue(<<Wait(ready(Slot), issued[ready(Slot)] + 1),
               Move("scatter", Slot, call.no, i, Skip), RecordNext(free(Slot))>>,
             <<Wait(free(Slot), issued[free(Slot)]),
               Move("to_device", Slot, call.no, i, 0), RecordNext(ready(Slot))>>,
             {ready(Slot), free(Slot)})
  /\ i' = i + 1
  /\ UNCHANGED <<dir, call, pc, chunks>>

\* numpy refuses a blob of the wrong size; the lock is released.
FromHostRaise ==
  /\ dir = "from_host" /\ pc = "chunk" /\ More
  /\ BufferConsumed
  /\ pc' = "raised"
  /\ UNCHANGED <<dir, call, i, chunks, devVars>>

End ==
  /\ pc = "chunk" /\ ~More
  /\ IF dir = "to_host"
     THEN Enqueue(<<>>, <<RecordNext(end)>>, {end})
     ELSE Enqueue(<<RecordNext(end)>>, <<>>, {end})
  /\ pc' = "end"
  /\ UNCHANGED <<dir, call, i, chunks, cpu_bufs>>

Scattered == dir = "from_host" => Idle("kernel")

\* The lock is released and elapsed_time(begin, end) raises unless both
\* events have happened, for which to_host does not wait.
Return ==
  /\ pc = "end"
  /\ Scattered
  /\ pc' = IF Synchronized(begin) /\ Synchronized(end) THEN "returned" ELSE "raised"
  /\ UNCHANGED <<dir, call, i, chunks, devVars>>

\* The caller goes on: it has the bytes, or sets done.
Leave ==
  /\ pc \in {"returned", "raised"}
  /\ pc' = "idle"
  /\ UNCHANGED <<dir, call, i, chunks, devVars>>

Host ==
  Begin \/ ToHostChunk \/ ToHostExtract \/ FromHostChunk \/ End \/ Return \/ Leave

Next == Enter \/ Host \/ FromHostRaise \/ Device

Spec == Init /\ [][Next]_vars

-----------------------------------------------------------------------------

\* The first call comes after the registration of the KV caches.
JustRegistered == call.no = 0

\* Whenever registration succeeds, the first axis of every view is the block
\* axis the backends meant, whatever the other sizes of each layer happen to
\* be and whether or not the number of blocks is known or padded, provided
\* that the layers agree on their block axis: detect and normalize.
BlocksAreFound ==
  JustRegistered =>
    \A r \in Registered :
      SameAxis(r) => \A v \in DOMAIN Views(r) : Views(r)[v].axis = 1

\* Slots are reused every third chunk while streams run behind the host:
\* still to_host returns every chunk's own computed bytes, in order.
ExtractsOwnBytes ==
  dir = "to_host" /\ pc = "returned" =>
    chunks = [k \in 1 .. call.n |-> Right(call.no, k - 1)]

\* "Guarantee the scatter is complete before the caller marks this transfer
\* as finished": every block but the skipped ones holds its own bytes, and
\* the skipped blocks of the first chunk are as they were.
LandsOwnBytes ==
  dir = "from_host" /\ pc = "returned" =>
    \A k \in 0 .. (call.n - 1), b \in Blocks :
      kv[<<call.no, k, b>>] =
        IF k = 0 /\ b < call.skip THEN Stale ELSE <<call.no, k, b>>

=============================================================================
