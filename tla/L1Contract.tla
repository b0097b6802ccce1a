----------------------------- MODULE L1Contract -----------------------------
(***************************************************************************)
(* What L1 promises to callers that obey its lock protocol (the docstring  *)
(* of mini_llmcache/l1/manager.py).  A client reserves chunks, fills them  *)
(* and publishes them, or takes read holds and drops them; the evictor     *)
(* deletes whatever it likes without force.  writing and holds record what *)
(* each client believes it owns.  The properties say that the table of     *)
(* entries and the pool honour these beliefs.                              *)
(*                                                                         *)
(* CacheServer shows that the real callers (STORE handlers, the prefetch   *)
(* thread, the store thread, the evictor) are such clients: it implements  *)
(* this specification.                                                     *)
(***************************************************************************)
EXTENDS L1Manager

CONSTANTS
  Clients,   \* the requests, and the store controller
  KeyLists   \* the key lists a lookup may present

ASSUME ClientAssumption ==
  /\ IsFiniteSet(Clients)
  /\ KeyLists \subseteq Seq(Keys)

VARIABLES
  writing,  \* writing[c]: the keys c reserved and has not finished
  holds     \* holds[c]: the keys c holds for reading

ownerVars == <<writing, holds>>
vars == <<l1Vars, ownerVars>>

TypeOK ==
  /\ pool \in [0 .. (Capacity - 1) -> Keys \cup {Junk}]
  /\ brk \in 0 .. Capacity
  /\ free_segments \in [Sizes -> SUBSET (0 .. Capacity)]
  /\ entries \in [DOMAIN entries -> Entry]
  /\ DOMAIN entries \subseteq Keys
  /\ writing \in [Clients -> SUBSET Keys]
  /\ holds \in [Clients -> SUBSET Keys]

Init ==
  /\ L1Init
  /\ writing = [c \in Clients |-> {}]
  /\ holds = [c \in Clients |-> {}]

-----------------------------------------------------------------------------

Own(own, c, keys) == own' = [own EXCEPT ![c] = @ \cup keys]
Disown(own, c, keys) == own' = [own EXCEPT ![c] = @ \ keys]

ReserveWrite(c, keys, nbytes, is_temporary) ==
  /\ reserve_write(keys, nbytes, is_temporary)
  /\ Own(writing, c, Missing(keys))
  /\ UNCHANGED holds

ReserveWriteNone(keys, nbytes) ==
  reserve_write_none(keys, nbytes) /\ UNCHANGED ownerVars

\* The owner of a reserved chunk copies its bytes in.
Fill(c, k) ==
  /\ k \in writing[c]
  /\ write_bytes(entries[k].obj, k)
  /\ UNCHANGED <<allocVars, entries, ownerVars>>

\* Only filled chunks are published.
Filled(keys) == \A k \in keys : HasBytes(entries[k].obj, k)

FinishWrite(c, keys) ==
  /\ keys \subseteq writing[c]
  /\ Filled(keys)
  /\ \A k \in keys : ~entries[k].is_temporary
  /\ finish_write(keys)
  /\ Disown(writing, c, keys)
  /\ UNCHANGED holds

FinishWriteAndReserveRead(c, keys) ==
  /\ keys \subseteq writing[c]
  /\ Filled(keys)
  /\ finish_write_and_reserve_read(keys)
  /\ Disown(writing, c, keys)
  /\ Own(holds, c, keys)

\* A client takes at most one hold on a key.
ReserveRead(c, keys) ==
  /\ keys \cap holds[c] = {}
  /\ reserve_read(keys)
  /\ Own(holds, c, Reservable(keys))
  /\ UNCHANGED writing

ReserveReadPrefix(c, list) ==
  /\ PrefixKeys(list) \cap holds[c] = {}
  /\ reserve_read_prefix(list)
  /\ Own(holds, c, PrefixKeys(list))
  /\ UNCHANGED writing

FinishRead(c, keys) ==
  /\ keys \subseteq holds[c]
  /\ finish_read(keys)
  /\ Disown(holds, c, keys)
  /\ UNCHANGED writing

Promote(keys) == promote(keys) /\ UNCHANGED ownerVars

Evict(keys) == delete(keys, FALSE) /\ UNCHANGED ownerVars

\* The writer gives up chunks it could not fill.
Discard(c, keys) ==
  /\ keys \subseteq writing[c]
  /\ delete(keys, TRUE)
  /\ Disown(writing, c, keys)
  /\ UNCHANGED holds

Next ==
  \/ \E keys \in SUBSET Keys :
       \/ \E nbytes \in Sizes : ReserveWriteNone(keys, nbytes)
       \/ Promote(keys)
       \/ Evict(keys)
       \/ \E c \in Clients :
            \/ \E nbytes \in Sizes, is_temporary \in BOOLEAN :
                 ReserveWrite(c, keys, nbytes, is_temporary)
            \/ FinishWrite(c, keys)
            \/ FinishWriteAndReserveRead(c, keys)
            \/ ReserveRead(c, keys)
            \/ FinishRead(c, keys)
            \/ Discard(c, keys)
  \/ \E c \in Clients, k \in Keys : Fill(c, k)
  \/ \E c \in Clients, list \in KeyLists : ReserveReadPrefix(c, list)

Spec == Init /\ [][Next]_vars

-----------------------------------------------------------------------------

(***************************************************************************)
(* Safety.                                                                 *)
(***************************************************************************)

Holders(k) == {c \in Clients : k \in holds[c]}

\* The slices of the entries and of the free lists: a slice is either owned
\* by one key or free, never both.
Live == {entries[k].obj : k \in DOMAIN entries}
Free == UNION {{[offset |-> o, nbytes |-> n] : o \in free_segments[n]} :
                 n \in Sizes}

Apart(a, b) == \/ a.offset + a.nbytes <= b.offset
               \/ b.offset + b.nbytes <= a.offset

\* No two owners of pool memory overlap: two entries, an entry and a free
\* slice, or two free slices, and all lie below the bump pointer, which
\* stays inside the pool (PoolAllocator.allocate and free).
SlicesDisjoint ==
  /\ \A k, l \in DOMAIN entries :
       k # l => Apart(entries[k].obj, entries[l].obj)
  /\ \A a \in Live, b \in Free : Apart(a, b)
  /\ \A a, b \in Free : a # b => Apart(a, b)
  /\ \A a \in Live \cup Free : a.offset + a.nbytes <= brk

\* The read count of an entry is the number of clients that hold it, and a
\* held chunk is present and readable: no interleaving of reserve_read,
\* finish_read, delete and promote frees a chunk mid-flight or leaves a
\* count that no finish_read will drop.
CountsMatchHolds ==
  /\ \A k \in DOMAIN entries : entries[k].read_count = Cardinality(Holders(k))
  /\ \A c \in Clients : \A k \in holds[c] : readable(k)

\* A write lock has exactly one owner, and an owner's entry stays locked
\* and unread until the owner publishes or discards it.
WriterExclusive ==
  /\ \A c \in Clients : \A k \in writing[c] :
       /\ k \in DOMAIN entries
       /\ entries[k].write_locked
       /\ \A d \in Clients : k \in writing[d] => d = c
  /\ \A k \in DOMAIN entries :
       entries[k].write_locked => \E c \in Clients : k \in writing[c]

\* A chunk a reader can see holds its own bytes, whoever else writes and
\* whatever slices are reused meanwhile.
ReadableIsComplete ==
  \A k \in DOMAIN entries : readable(k) => HasBytes(entries[k].obj, k)

\* A prefetched chunk that is published is held by the lookup it serves:
\* when the last hold goes it is freed or has been promoted.
TemporaryIsReferenced ==
  \A k \in DOMAIN entries :
    entries[k].is_temporary /\ readable(k) => entries[k].read_count > 0

\* No byte of the pool is lost: what was ever handed out is live or free,
\* and used_bytes, which the evictor compares with the watermark, is the
\* size of the live slices.
BytesConserved ==
  LET size(objs) == MapThenSumSet(LAMBDA o : o.nbytes, objs)
  IN  /\ used_bytes = size(Live)
      /\ brk = size(Live) + size(Free)

\* While a client holds a chunk its slice neither moves nor changes.
StableWhileHeld ==
  [][\A c \in Clients : \A k \in holds[c] \cap holds'[c] :
       /\ entries'[k].obj = entries[k].obj
       /\ \A b \in Slice(entries[k].obj) : pool'[b] = pool[b]]_vars

=============================================================================
