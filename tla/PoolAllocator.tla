--------------------------- MODULE PoolAllocator ---------------------------
(***************************************************************************)
(* The L1 memory pool (mini_llmcache/l1/memory.py): one byte buffer carved *)
(* into slices of a few sizes.  A freed slice is kept per size and reused  *)
(* before the bump pointer brk moves.                                      *)
(*                                                                         *)
(* Two abstractions.  A byte of the pool is tagged with the chunk whose    *)
(* data it holds (Junk when nobody wrote it), which is all the properties  *)
(* tell apart.  A free list is the set of its offsets and allocate takes   *)
(* any of them: the code's last-in-first-out order is one of the choices.  *)
(***************************************************************************)
EXTENDS Integers, FiniteSets, FiniteSetsExt

CONSTANTS
  Capacity,  \* bytes of the pool: capacity_bytes
  Sizes,     \* the chunk sizes (nbytes) the registered engines use
  Keys,      \* the chunk keys; a key also stands for its chunk's bytes
  Junk       \* content of a byte that was never written

ASSUME PoolAssumption ==
  /\ Capacity \in Nat \ {0}
  /\ Sizes \subseteq Nat \ {0}
  /\ IsFiniteSet(Keys)
  /\ Junk \notin Keys

VARIABLES
  pool,           \* pool[b]: whose chunk byte b belongs to
  brk,            \* bytes below brk were handed out at least once
  free_segments,  \* free_segments[n]: offsets of the free slices of n bytes
  used_bytes      \* bytes handed out and not yet freed

poolVars == <<pool, brk, free_segments, used_bytes>>
allocVars == <<brk, free_segments, used_bytes>>

(***************************************************************************)
(* A slice of the pool, and the bytes it covers.                           *)
(***************************************************************************)
MemoryObj == [offset : 0 .. Capacity, nbytes : Sizes]

Slice(obj) == obj.offset .. (obj.offset + obj.nbytes - 1)

\* Mutant: the copy runs one byte past the slice.
write_bytes_past(obj, k) ==
  pool' = [b \in DOMAIN pool |->
             IF b \in obj.offset .. (obj.offset + obj.nbytes) THEN k ELSE pool[b]]

\* obj.byte_array[:] = the bytes of chunk k.
write_bytes(obj, k) ==
  pool' = [b \in DOMAIN pool |-> IF b \in Slice(obj) THEN k ELSE pool[b]]

\* The slice holds exactly the bytes of chunk k.
HasBytes(obj, k) == \A b \in Slice(obj) : pool[b] = k

PoolInit ==
  /\ pool = [b \in 0 .. (Capacity - 1) |-> Junk]
  /\ brk = 0
  /\ free_segments = [n \in Sizes |-> {}]
  /\ used_bytes = 0

(***************************************************************************)
(* allocate(count, nbytes).                                                *)
(***************************************************************************)

\* Mutant: the bump pointer is compared with the end before nbytes is added.
RoomUnchecked(nbytes) == ((Capacity - brk) \div nbytes) + 1

\* The number of slices the bump pointer can still yield, and their offsets.
Room(nbytes) == (Capacity - brk) \div nbytes

Bumped(n, nbytes) == {brk + i * nbytes : i \in 0 .. (n - 1)}

\* How many of count slices come off the free list.
Reused(count, nbytes) ==
  LET free == Cardinality(free_segments[nbytes])
  IN  IF count <= free THEN count ELSE free

Satisfiable(count, nbytes) ==
  count - Reused(count, nbytes) <= Room(nbytes)

\* The sets of offsets a satisfiable call may hand out.
Allocations(count, nbytes) ==
  {reused \cup Bumped(count - Reused(count, nbytes), nbytes) :
     reused \in kSubset(Reused(count, nbytes), free_segments[nbytes])}

\* Mutant: a reused slice stays on the free list.
allocate_keeps_free(count, nbytes, taken) ==
  /\ Satisfiable(count, nbytes)
  /\ taken \in Allocations(count, nbytes)
  /\ free_segments' = free_segments
  /\ brk' = brk + (count - Reused(count, nbytes)) * nbytes
  /\ used_bytes' = used_bytes + count * nbytes

\* Mutant: the collected slices are not returned to the free list.
allocate_none_drops(count, nbytes) ==
  /\ ~Satisfiable(count, nbytes)
  /\ brk' = brk + Room(nbytes) * nbytes
  /\ UNCHANGED <<free_segments, used_bytes>>

\* Mutant: the bump pointer moves back although its slices are kept.
allocate_none_rewinds(count, nbytes) ==
  /\ ~Satisfiable(count, nbytes)
  /\ free_segments' = [free_segments EXCEPT
                         ![nbytes] = @ \cup Bumped(Room(nbytes), nbytes)]
  /\ UNCHANGED <<brk, used_bytes>>

\* The successful call, which hands out the offsets taken.
allocate(count, nbytes, taken) ==
  /\ Satisfiable(count, nbytes)
  /\ taken \in Allocations(count, nbytes)
  /\ free_segments' = [free_segments EXCEPT ![nbytes] = @ \ taken]
  /\ brk' = brk + (count - Reused(count, nbytes)) * nbytes
  /\ used_bytes' = used_bytes + count * nbytes

\* The call that returns None: what the bump pointer still yielded has been
\* collected by then, and goes back to the free list, not to the pointer.
allocate_none(count, nbytes) ==
  /\ ~Satisfiable(count, nbytes)
  /\ free_segments' = [free_segments EXCEPT
                         ![nbytes] = @ \cup Bumped(Room(nbytes), nbytes)]
  /\ brk' = brk + Room(nbytes) * nbytes
  /\ UNCHANGED used_bytes

\* free(objs), for the set of slices one locked section gives back.
free(objs) ==
  /\ used_bytes' = used_bytes - MapThenSumSet(LAMBDA o : o.nbytes, objs)
  /\ free_segments' = [n \in Sizes |-> free_segments[n] \cup
                         {o.offset : o \in {p \in objs : p.nbytes = n}}]
  /\ UNCHANGED brk

=============================================================================
