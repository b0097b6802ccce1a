----------------------------- MODULE L1Manager -----------------------------
(***************************************************************************)
(* The L1 cache manager (mini_llmcache/l1/manager.py): the table of        *)
(* entries, their write locks, their read counts and the temporary flag of *)
(* prefetched chunks.                                                      *)
(*                                                                         *)
(* Every method below runs in one locked section of L1Manager.lock, so it  *)
(* is one operator that constrains one step.  A method takes the set of    *)
(* keys of the code's list (the lists have no duplicates); only            *)
(* reserve_read_prefix depends on their order.  The listeners a method     *)
(* notifies run inside the same locked section and are conjoined by the    *)
(* module that composes them (StorageManager).                             *)
(***************************************************************************)
EXTENDS PoolAllocator, Sequences

VARIABLE entries  \* entries[k]: the Entry of each key present

l1Vars == <<poolVars, entries>>

Entry == [obj : MemoryObj, write_locked : BOOLEAN,
          read_count : Nat, is_temporary : BOOLEAN]

NewEntry(obj, is_temporary) ==
  [obj |-> obj, write_locked |-> TRUE, read_count |-> 0,
   is_temporary |-> is_temporary]

L1Init == PoolInit /\ entries = [k \in {} |-> {}]

readable(k) == k \in DOMAIN entries /\ ~entries[k].write_locked

\* Mutant: an entry that is being read counts as unlocked.
unlocked_while_read(k) == ~entries[k].write_locked

unlocked(k) == ~entries[k].write_locked /\ entries[k].read_count = 0

\* is_evictable reads the table without the lock: one atomic dict lookup.
is_evictable(k) == k \in DOMAIN entries /\ unlocked(k)

\* The entries without those of gone, whose slices go back to the pool.
RemoveEntries(gone) ==
  /\ entries' = Restrict(entries, DOMAIN entries \ gone)
  /\ free({entries[k].obj : k \in gone})
  /\ UNCHANGED pool

-----------------------------------------------------------------------------

\* Mutant: a chunk another writer has locked counts as missing.
MissingOrLocked(keys) == {k \in keys : ~readable(k)}

\* The keys a reserve_write has to allocate.
Missing(keys) == keys \ DOMAIN entries

\* reserve_write that succeeds: every missing key gets a slice and an entry.
reserve_write(keys, nbytes, is_temporary) ==
  /\ \E taken \in Allocations(Cardinality(Missing(keys)), nbytes) :
       /\ allocate(Cardinality(Missing(keys)), nbytes, taken)
       /\ \E slot \in Bijection(Missing(keys), taken) :
            entries' =
              [k \in DOMAIN entries \cup keys |->
                 IF k \in DOMAIN entries THEN entries[k]
                 ELSE NewEntry([offset |-> slot[k], nbytes |-> nbytes],
                               is_temporary)]
  /\ UNCHANGED pool

\* reserve_write when the pool cannot satisfy it: nothing is reserved.
reserve_write_none(keys, nbytes) ==
  /\ allocate_none(Cardinality(Missing(keys)), nbytes)
  /\ UNCHANGED <<pool, entries>>

finish_write(keys) ==
  /\ entries' = [k \in DOMAIN entries |->
                   IF k \in keys
                   THEN [entries[k] EXCEPT !.write_locked = FALSE]
                   ELSE entries[k]]
  /\ UNCHANGED poolVars

finish_write_and_reserve_read(keys) ==
  /\ entries' = [k \in DOMAIN entries |->
                   IF k \in keys
                   THEN [entries[k] EXCEPT !.write_locked = FALSE,
                                           !.read_count = @ + 1]
                   ELSE entries[k]]
  /\ UNCHANGED poolVars

\* The keys a reserve_read takes a hold on (its result is not None).
Reservable(keys) == {k \in keys : readable(k)}

reserve_read(keys) ==
  /\ entries' = [k \in DOMAIN entries |->
                   IF k \in Reservable(keys)
                   THEN [entries[k] EXCEPT !.read_count = @ + 1]
                   ELSE entries[k]]
  /\ UNCHANGED poolVars

\* The contiguous readable prefix of the list keys: its indices, its length
\* (the result) and its keys, on which a hold is taken.
PrefixIndices(keys) ==
  {i \in 1 .. Len(keys) : \A j \in 1 .. i : readable(keys[j])}
PrefixHits(keys) == Cardinality(PrefixIndices(keys))
PrefixKeys(keys) == {keys[i] : i \in PrefixIndices(keys)}

reserve_read_prefix(keys) == reserve_read(PrefixKeys(keys))

\* Mutant: the count is compared with 0 before it is decremented.
LastHoldEarly(keys) ==
  {k \in keys : entries[k].read_count = 0 /\ entries[k].is_temporary}

\* The temporary entries among keys whose last hold a finish_read drops.
LastHold(keys) ==
  {k \in keys : entries[k].read_count = 1 /\ entries[k].is_temporary}

finish_read(keys) ==
  LET freed == LastHold(keys)
  IN  /\ entries' = [k \in DOMAIN entries \ freed |->
                       IF k \in keys
                       THEN [entries[k] EXCEPT !.read_count = @ - 1]
                       ELSE entries[k]]
      /\ free({entries[k].obj : k \in freed})
      /\ UNCHANGED pool

promote(keys) ==
  /\ entries' = [k \in DOMAIN entries |->
                   IF k \in keys
                   THEN [entries[k] EXCEPT !.is_temporary = FALSE]
                   ELSE entries[k]]
  /\ UNCHANGED poolVars

\* The entries among keys that delete removes.
Deletable(keys, force) ==
  {k \in keys \cap DOMAIN entries : unlocked(k) \/ force}

delete(keys, force) == RemoveEntries(Deletable(keys, force))

=============================================================================
