-------------------------- MODULE L1ContractProofs --------------------------
(***************************************************************************)
(* The properties of L1Contract hold for every pool size, every set of chunk *)
(* sizes, every finite key set and every finite number of clients.         *)
(***************************************************************************)
EXTENDS L1Contract, FiniteSetTheorems, WellFoundedInduction, TLAPS

(***************************************************************************)
(* What the allocator does to the slices of the pool, and a release to the *)
(* read holds.                                                             *)
(***************************************************************************)

\* The i-th multiple of n ends before any later one begins.
LEMMA StepBound ==
  ASSUME NEW i \in Nat, NEW j \in Nat, NEW n \in Nat, i < j
  PROVE  i * n + n <= j * n
<1>1. (i + 1) * n = i * n + n
  OBVIOUS
<1>2. (i + 1) * n <= j * n
  OBVIOUS
<1> QED BY <1>1, <1>2

\* As many slices as Room counts fit in the space left.
LEMMA RoomBound ==
  ASSUME NEW space \in Nat, NEW nbytes \in Nat \ {0}, NEW n \in Nat,
         n <= space \div nbytes
  PROVE  n * nbytes <= space
<1>1. nbytes * (space \div nbytes) <= space
  OBVIOUS
<1>2. n * nbytes <= nbytes * (space \div nbytes)
  OBVIOUS
<1> QED BY <1>1, <1>2

\* The quotient of naturals is a natural.
LEMMA DivNat ==
  ASSUME NEW space \in Nat, NEW nbytes \in Nat \ {0}
  PROVE  space \div nbytes \in Nat
OBVIOUS

\* Membership in Free, spelled out: a free slice has the size of its list
\* and an offset in it.
LEMMA FreeSlices ==
  \A a : a \in Free <=> \E n \in Sizes : \E o \in free_segments[n] :
                          a = [offset |-> o, nbytes |-> n]
BY DEF Free

\* The same for the state after the step.
LEMMA FreeSlicesNext ==
  \A a : a \in Free' <=> \E n \in Sizes : \E o \in free_segments'[n] :
                          a = [offset |-> o, nbytes |-> n]
BY DEF Free

\* A step that moves no slice keeps the slices disjoint.
LEMMA SlicesStay ==
  ASSUME SlicesDisjoint, DOMAIN entries' = DOMAIN entries,
         \A k \in DOMAIN entries : entries'[k].obj = entries[k].obj,
         UNCHANGED <<brk, free_segments>>
  PROVE  SlicesDisjoint'
<1>1. Live' = Live
  BY DEF Live
<1>2. Free' = Free
  BY DEF Free
<1> QED BY <1>1, <1>2 DEF SlicesDisjoint

\* A step that frees the slices of gone keeps the slices disjoint.
LEMMA SlicesFreed ==
  ASSUME TypeOK, SlicesDisjoint, NEW gone \in SUBSET DOMAIN entries,
         DOMAIN entries' = DOMAIN entries \ gone,
         \A k \in DOMAIN entries' : entries'[k].obj = entries[k].obj,
         free({entries[k].obj : k \in gone})
  PROVE  SlicesDisjoint'
<1>1. \A k \in DOMAIN entries : entries[k].obj \in MemoryObj
  BY DEF TypeOK, Entry
<1>2. \A a \in Free' : a \in Free \/ \E k \in gone : a = entries[k].obj
  <2> SUFFICES ASSUME NEW a \in Free', a \notin Free
               PROVE  \E k \in gone : a = entries[k].obj
    OBVIOUS
  <2>1. PICK n \in Sizes : \E o \in free_segments'[n] :
          a = [offset |-> o, nbytes |-> n]
    BY FreeSlicesNext
  <2>a. PICK o \in free_segments'[n] : a = [offset |-> o, nbytes |-> n]
    BY <2>1
  <2>2. o \notin free_segments[n]
    BY <2>a, FreeSlices
  <2>3. PICK k \in gone : entries[k].obj.nbytes = n /\ entries[k].obj.offset = o
    BY <2>a, <2>2 DEF free
  <2>4. entries[k].obj = [offset |-> o, nbytes |-> n]
    BY <1>1, <2>3 DEF MemoryObj
  <2> QED BY <2>a, <2>4
<1>3. \A a \in Live' : \E k \in DOMAIN entries \ gone : a = entries[k].obj
  BY DEF Live
<1>4. \A k, l \in DOMAIN entries : k # l => Apart(entries[k].obj, entries[l].obj)
  BY DEF SlicesDisjoint
<1>5. \A k \in DOMAIN entries, b \in Free :
        Apart(entries[k].obj, b) /\ Apart(b, entries[k].obj)
  BY DEF SlicesDisjoint, Live, Apart
<1>6. \A a, b \in Free : a # b => Apart(a, b)
  BY DEF SlicesDisjoint
<1>7. \A k, l \in DOMAIN entries' :
        k # l => Apart(entries'[k].obj, entries'[l].obj)
  BY <1>4
<1>8. \A a \in Live', b \in Free' : Apart(a, b)
  BY <1>2, <1>3, <1>4, <1>5
<1>9. \A a, b \in Free' : a # b => Apart(a, b)
  BY <1>2, <1>4, <1>5, <1>6
<1>10. \A a \in Live \cup Free : a.offset + a.nbytes <= brk
  BY DEF SlicesDisjoint
<1>11. \A a \in Live' \cup Free' : a.offset + a.nbytes <= brk'
  <2>1. brk' = brk
    BY DEF free
  <2>2. \A k \in DOMAIN entries : entries[k].obj \in Live
    BY DEF Live
  <2> QED BY <1>2, <1>3, <1>10, <2>1, <2>2
<1>12. Live' \cup Free' = (Live \cup Free)'
  OBVIOUS
<1> QED BY <1>7, <1>8, <1>9, <1>11 DEF SlicesDisjoint, Apart

\* What free adds to the free lists are offsets of the pool.
LEMMA FreedOffsets ==
  ASSUME TypeOK, NEW gone \in SUBSET DOMAIN entries,
         free({entries[k].obj : k \in gone})
  PROVE  brk' = brk /\ free_segments' \in [Sizes -> SUBSET (0 .. Capacity)]
<1>1. \A k \in DOMAIN entries : entries[k].obj.offset \in 0 .. Capacity
  BY DEF TypeOK, Entry, MemoryObj
<1>2. brk' = brk
  BY DEF free
<1>3. free_segments' \in [Sizes -> SUBSET (0 .. Capacity)]
  BY <1>1 DEF free, TypeOK
<1> QED BY <1>2, <1>3

\* The slices a bump of n yields lie between the old and the new bump
\* pointer and do not overlap.
LEMMA BumpedSlices ==
  ASSUME TypeOK, NEW nbytes \in Sizes, NEW n \in Nat, n <= Room(nbytes)
  PROVE  /\ brk + n * nbytes \in brk .. Capacity
         /\ \A o \in Bumped(n, nbytes) :
              o \in Nat /\ brk <= o /\ o + nbytes <= brk + n * nbytes
         /\ \A o, p \in Bumped(n, nbytes) :
              o # p => o + nbytes <= p \/ p + nbytes <= o
<1>1. nbytes \in Nat \ {0} /\ brk \in Nat /\ Capacity - brk \in Nat
      /\ Capacity \in Nat
  BY PoolAssumption DEF TypeOK
<1>2. n * nbytes \in Nat /\ n * nbytes <= Capacity - brk
  BY <1>1, RoomBound DEF Room
<1>3. \A i \in 0 .. (n - 1) : i * nbytes \in Nat /\ i * nbytes + nbytes <= n * nbytes
  BY <1>1, StepBound
<1>4. \A i, j \in 0 .. (n - 1) :
        i # j => \/ i * nbytes + nbytes <= j * nbytes
                 \/ j * nbytes + nbytes <= i * nbytes
  <2> SUFFICES ASSUME NEW i \in 0 .. (n - 1), NEW j \in 0 .. (n - 1), i # j
               PROVE  \/ i * nbytes + nbytes <= j * nbytes
                      \/ j * nbytes + nbytes <= i * nbytes
    OBVIOUS
  <2>1. i < j \/ j < i
    OBVIOUS
  <2> QED BY <1>1, <2>1, StepBound
<1>5. \A o \in Bumped(n, nbytes) : \E i \in 0 .. (n - 1) : o = brk + i * nbytes
  BY DEF Bumped
<1>6. brk + n * nbytes \in brk .. Capacity
  BY <1>1, <1>2
<1>7. ASSUME NEW o \in Bumped(n, nbytes)
      PROVE  o \in Nat /\ brk <= o /\ o + nbytes <= brk + n * nbytes
  <2>1. PICK i \in 0 .. (n - 1) : o = brk + i * nbytes
    BY <1>5
  <2> QED BY <1>1, <1>2, <1>3, <2>1
<1>8. ASSUME NEW o \in Bumped(n, nbytes), NEW p \in Bumped(n, nbytes), o # p
      PROVE  o + nbytes <= p \/ p + nbytes <= o
  <2>1. PICK i \in 0 .. (n - 1) : o = brk + i * nbytes
    BY <1>5
  <2>2. PICK j \in 0 .. (n - 1) : p = brk + j * nbytes
    BY <1>5
  <2>3. i # j
    BY <1>8, <2>1, <2>2
  <2> QED BY <1>1, <1>3, <1>4, <2>1, <2>2, <2>3
<1> QED BY <1>6, <1>7, <1>8

\* Reused is at most both what is asked for and what the free list has.
LEMMA ReusedBound ==
  ASSUME TypeOK, NEW nbytes \in Sizes, NEW count \in Nat
  PROVE  /\ Reused(count, nbytes) \in Nat
         /\ count - Reused(count, nbytes) \in Nat
<1>1. IsFiniteSet(free_segments[nbytes])
  <2>1. free_segments[nbytes] \subseteq 0 .. Capacity
    BY DEF TypeOK
  <2>2. IsFiniteSet(0 .. Capacity)
    BY FS_Interval, PoolAssumption
  <2> QED BY <2>1, <2>2, FS_Subset
<1>2. Cardinality(free_segments[nbytes]) \in Nat
  BY <1>1, FS_CardinalityType
<1> QED BY <1>2 DEF Reused

\* The slices a satisfiable allocate hands out overlap neither each other,
\* nor a live slice, nor a slice that stays free.
LEMMA TakenSlices ==
  ASSUME TypeOK, SlicesDisjoint, NEW nbytes \in Sizes, NEW count \in Nat,
         NEW taken, allocate(count, nbytes, taken)
  PROVE  /\ brk' \in brk .. Capacity
         /\ \A o \in taken : o \in 0 .. Capacity /\ o + nbytes <= brk'
                             /\ (o \in free_segments[nbytes] \/ brk <= o)
         /\ \A o, p \in taken : o # p => o + nbytes <= p \/ p + nbytes <= o
<1> DEFINE n == count - Reused(count, nbytes)
<1>1. n \in Nat /\ n <= Room(nbytes)
  BY ReusedBound DEF allocate, Satisfiable
<1>2. nbytes \in Nat \ {0} /\ brk \in Nat /\ Capacity \in Nat
  BY PoolAssumption DEF TypeOK
<1>3. brk' = brk + n * nbytes
  BY DEF allocate
<1> HIDE DEF n
<1>4. brk' \in brk .. Capacity
  BY <1>1, <1>3, BumpedSlices
<1>5. \A o \in Bumped(n, nbytes) : o \in Nat /\ brk <= o /\ o + nbytes <= brk'
  BY <1>1, <1>3, BumpedSlices
<1>6. \A o, p \in Bumped(n, nbytes) : o # p => o + nbytes <= p \/ p + nbytes <= o
  BY <1>1, BumpedSlices
<1>7. PICK reused \in SUBSET free_segments[nbytes] :
        taken = reused \cup Bumped(n, nbytes)
  BY DEF allocate, Allocations, kSubset, n
<1>8. ASSUME NEW o \in free_segments[nbytes]
      PROVE  [offset |-> o, nbytes |-> nbytes] \in Free
  BY FreeSlices
<1>8a. ASSUME NEW o \in free_segments[nbytes]
       PROVE  o \in 0 .. Capacity /\ o + nbytes <= brk
  <2>0. \A a \in Free : a.offset + a.nbytes <= brk
    BY DEF SlicesDisjoint
  <2>1. o + nbytes <= brk
    BY <1>8, <2>0
  <2>2. o \in 0 .. Capacity
    BY DEF TypeOK
  <2> QED BY <2>1, <2>2
<1>9. \A o, p \in free_segments[nbytes] :
        o # p => o + nbytes <= p \/ p + nbytes <= o
  <2> SUFFICES ASSUME NEW o \in free_segments[nbytes],
                      NEW p \in free_segments[nbytes], o # p
               PROVE  o + nbytes <= p \/ p + nbytes <= o
    OBVIOUS
  <2>1. [offset |-> o, nbytes |-> nbytes] # [offset |-> p, nbytes |-> nbytes]
    OBVIOUS
  <2> QED BY <1>8, <2>1 DEF SlicesDisjoint, Apart
<1>10. ASSUME NEW o \in taken
       PROVE  /\ o \in 0 .. Capacity
              /\ o + nbytes <= brk'
              /\ o \in free_segments[nbytes] \/ brk <= o
  <2>1. CASE o \in reused
    <3>1. o \in 0 .. Capacity /\ o + nbytes <= brk
      BY <1>8a, <2>1
    <3>2. brk <= brk' /\ brk' \in Nat
      BY <1>2, <1>4
    <3> QED BY <1>2, <2>1, <3>1, <3>2
  <2>2. CASE o \in Bumped(n, nbytes)
    <3>1. o \in Nat /\ brk <= o /\ o + nbytes <= brk'
      BY <1>5, <2>2
    <3>2. brk' \in Nat /\ brk' <= Capacity
      BY <1>2, <1>4
    <3> QED BY <1>2, <3>1, <3>2
  <2> QED BY <1>7, <2>1, <2>2
<1>11. \A o, p \in taken : o # p => o + nbytes <= p \/ p + nbytes <= o
  <2> SUFFICES ASSUME NEW o \in taken, NEW p \in taken, o # p
               PROVE  o + nbytes <= p \/ p + nbytes <= o
    OBVIOUS
  <2>1. CASE o \in Bumped(n, nbytes) /\ p \in Bumped(n, nbytes)
    BY <1>6, <2>1
  <2>2. CASE o \in reused /\ p \in reused
    BY <1>9, <2>2
  <2>3. CASE o \in reused /\ p \in Bumped(n, nbytes)
    BY <1>2, <1>5, <1>8a, <2>3
  <2>4. CASE o \in Bumped(n, nbytes) /\ p \in reused
    BY <1>2, <1>5, <1>8a, <2>4
  <2> QED BY <1>7, <2>1, <2>2, <2>3, <2>4
<1> QED BY <1>4, <1>10, <1>11

\* The slice of every entry is an offset and a positive size.
LEMMA SlicesTyped ==
  ASSUME TypeOK
  PROVE  \A b \in Live \cup Free : b.offset \in Nat /\ b.nbytes \in Nat
<1>1. \A b \in Live : b.offset \in Nat /\ b.nbytes \in Nat
  BY PoolAssumption DEF TypeOK, Entry, MemoryObj, Live
<1>2. ASSUME NEW b \in Free PROVE b.offset \in Nat /\ b.nbytes \in Nat
  <2>1. PICK n \in Sizes : \E o \in free_segments[n] :
          b = [offset |-> o, nbytes |-> n]
    BY FreeSlices
  <2>2. PICK o \in free_segments[n] : b = [offset |-> o, nbytes |-> n]
    BY <2>1
  <2>3. o \in Nat /\ n \in Nat
    BY PoolAssumption DEF TypeOK
  <2> QED BY <2>2, <2>3
<1> QED BY <1>1, <1>2

\* A reserve_write that succeeds keeps the slices disjoint, the bump pointer
\* in the pool and the free lists typed.
LEMMA SlicesReserved ==
  ASSUME TypeOK, SlicesDisjoint, NEW keys \in SUBSET Keys, NEW nbytes \in Sizes,
         NEW is_temporary \in BOOLEAN, reserve_write(keys, nbytes, is_temporary)
  PROVE  /\ SlicesDisjoint'
         /\ brk' \in 0 .. Capacity
         /\ free_segments' \in [Sizes -> SUBSET (0 .. Capacity)]
         /\ \A k \in Missing(keys) : entries'[k].obj \in MemoryObj
<1> DEFINE missing == Missing(keys)
           New(o) == [offset |-> o, nbytes |-> nbytes]
<1>1. PICK taken \in Allocations(Cardinality(missing), nbytes) :
        /\ allocate(Cardinality(missing), nbytes, taken)
        /\ \E slot \in Bijection(missing, taken) :
             entries' = [k \in DOMAIN entries \cup keys |->
                           IF k \in DOMAIN entries THEN entries[k]
                           ELSE NewEntry(New(slot[k]), is_temporary)]
  BY DEF reserve_write
<1>2. PICK slot \in Bijection(missing, taken) :
        entries' = [k \in DOMAIN entries \cup keys |->
                      IF k \in DOMAIN entries THEN entries[k]
                      ELSE NewEntry(New(slot[k]), is_temporary)]
  BY <1>1
<1>2a. slot \in [missing -> taken] /\ \A k, l \in missing : slot[k] = slot[l] => k = l
  BY DEF Bijection, Injection, IsInjective
<1>3. Cardinality(missing) \in Nat
  <2>1. IsFiniteSet(missing)
    BY FS_Subset, PoolAssumption DEF Missing
  <2> QED BY <2>1, FS_CardinalityType
<1>4. /\ brk' \in brk .. Capacity
      /\ \A o \in taken : o \in 0 .. Capacity /\ o + nbytes <= brk'
                          /\ (o \in free_segments[nbytes] \/ brk <= o)
      /\ \A o, p \in taken : o # p => o + nbytes <= p \/ p + nbytes <= o
  BY <1>1, <1>3, TakenSlices
<1>5. /\ DOMAIN entries' = DOMAIN entries \cup missing
      /\ \A k \in DOMAIN entries : entries'[k].obj = entries[k].obj
      /\ \A k \in missing : entries'[k].obj = New(slot[k]) /\ slot[k] \in taken
                            /\ k \notin DOMAIN entries
  BY <1>2, <1>2a DEF NewEntry, Missing
<1>6. free_segments' = [free_segments EXCEPT ![nbytes] = @ \ taken]
  BY <1>1 DEF allocate
<1>7. \A b \in Free' : b \in Free /\ \A o \in taken : b # New(o)
  <2> SUFFICES ASSUME NEW b \in Free'
               PROVE  b \in Free /\ \A o \in taken : b # New(o)
    OBVIOUS
  <2>1. PICK n \in Sizes : \E o \in free_segments'[n] :
          b = [offset |-> o, nbytes |-> n]
    BY FreeSlicesNext
  <2>2. PICK o \in free_segments'[n] : b = [offset |-> o, nbytes |-> n]
    BY <2>1
  <2>3. o \in free_segments[n] /\ (n = nbytes => o \notin taken)
    BY <1>6, <2>2 DEF TypeOK
  <2>4. b \in Free
    BY <2>2, <2>3, FreeSlices
  <2>5. \A p \in taken : b # New(p)
    BY <2>2, <2>3
  <2> QED BY <2>4, <2>5
<1>8. nbytes \in Nat \ {0} /\ brk \in Nat /\ Capacity \in Nat
      /\ brk' \in Nat /\ brk <= brk'
  BY <1>4, PoolAssumption DEF TypeOK
<1>9. \A b \in Live \cup Free : b.offset \in Nat /\ b.nbytes \in Nat
        /\ b.offset + b.nbytes <= brk
  BY SlicesTyped DEF SlicesDisjoint
<1>10. ASSUME NEW o \in taken, NEW b \in Live \cup Free, b # New(o) \/ b \in Live
       PROVE  Apart(New(o), b) /\ Apart(b, New(o))
  <2>1. CASE o \in free_segments[nbytes]
    <3>1. New(o) \in Free
      BY <2>1, FreeSlices
    <3>2. CASE b \in Live
      BY <3>1, <3>2 DEF SlicesDisjoint, Apart
    <3>3. CASE b \in Free /\ b # New(o)
      BY <3>1, <3>3 DEF SlicesDisjoint, Apart
    <3> QED BY <1>10, <3>2, <3>3
  <2>2. CASE brk <= o
    <3>1. b.offset + b.nbytes <= o /\ o \in Nat
      BY <1>4, <1>8, <1>9, <2>2
    <3> QED BY <3>1 DEF Apart
  <2> QED BY <1>4, <2>1, <2>2
<1>11. ASSUME NEW k \in DOMAIN entries', NEW l \in DOMAIN entries', k # l
       PROVE  Apart(entries'[k].obj, entries'[l].obj)
  <2>1. CASE k \in DOMAIN entries /\ l \in DOMAIN entries
    BY <1>5, <1>11, <2>1 DEF SlicesDisjoint
  <2>2. CASE k \in missing /\ l \in DOMAIN entries
    <3>1. entries[l].obj \in Live
      BY <2>2 DEF Live
    <3> QED BY <1>5, <1>10, <2>2, <3>1
  <2>3. CASE k \in DOMAIN entries /\ l \in missing
    <3>1. entries[k].obj \in Live
      BY <2>3 DEF Live
    <3> QED BY <1>5, <1>10, <2>3, <3>1
  <2>4. CASE k \in missing /\ l \in missing
    <3>1. slot[k] # slot[l]
      BY <1>2a, <1>11, <2>4
    <3>2. slot[k] + nbytes <= slot[l] \/ slot[l] + nbytes <= slot[k]
      BY <1>4, <1>5, <2>4, <3>1
    <3>3. Apart(New(slot[k]), New(slot[l]))
      BY <3>2 DEF Apart
    <3> QED BY <1>5, <2>4, <3>3
  <2> QED BY <1>5, <2>1, <2>2, <2>3, <2>4
<1>12. \A a \in Live' : a \in Live \/ \E o \in taken : a = New(o)
  BY <1>5 DEF Live
<1>13. \A a \in Live', b \in Free' : Apart(a, b)
  BY <1>7, <1>10, <1>12 DEF SlicesDisjoint
<1>14. \A a, b \in Free' : a # b => Apart(a, b)
  BY <1>7 DEF SlicesDisjoint
<1>15. ASSUME NEW a \in Live' \cup Free' PROVE a.offset + a.nbytes <= brk'
  <2>1. CASE a \in Live \cup Free
    BY <1>8, <1>9, <2>1
  <2>2. CASE \E o \in taken : a = New(o)
    BY <1>4, <2>2
  <2> QED BY <1>7, <1>12, <2>1, <2>2
<1>16. SlicesDisjoint'
  BY <1>11, <1>13, <1>14, <1>15 DEF SlicesDisjoint, Apart
<1>17. free_segments' \in [Sizes -> SUBSET (0 .. Capacity)]
  BY <1>6 DEF TypeOK
<1>18. \A k \in missing : entries'[k].obj \in MemoryObj
  <2> SUFFICES ASSUME NEW k \in missing PROVE entries'[k].obj \in MemoryObj
    OBVIOUS
  <2>1. slot[k] \in 0 .. Capacity /\ entries'[k].obj = New(slot[k])
    BY <1>4, <1>5
  <2> QED BY <2>1 DEF MemoryObj
<1> QED BY <1>4, <1>8, <1>16, <1>17, <1>18

\* So does a reserve_write that returns None, although it has moved what
\* the bump pointer still yielded to the free list.
LEMMA SlicesRefused ==
  ASSUME TypeOK, SlicesDisjoint, NEW keys \in SUBSET Keys, NEW nbytes \in Sizes,
         reserve_write_none(keys, nbytes)
  PROVE  /\ SlicesDisjoint'
         /\ brk' \in 0 .. Capacity
         /\ free_segments' \in [Sizes -> SUBSET (0 .. Capacity)]
<1> DEFINE n == Room(nbytes)
           New(o) == [offset |-> o, nbytes |-> nbytes]
<1>1. nbytes \in Nat \ {0} /\ brk \in Nat /\ Capacity \in Nat
      /\ Capacity - brk \in Nat
  BY PoolAssumption DEF TypeOK
<1>2. n \in Nat
  BY <1>1, DivNat DEF Room
<1>3. /\ brk' = brk + n * nbytes
      /\ free_segments' =
           [free_segments EXCEPT ![nbytes] = @ \cup Bumped(n, nbytes)]
      /\ entries' = entries
  BY DEF reserve_write_none, allocate_none
<1> HIDE DEF n
<1>4. n <= Room(nbytes)
  BY <1>2 DEF n
<1>5. /\ brk' \in brk .. Capacity
      /\ \A o \in Bumped(n, nbytes) : o \in Nat /\ brk <= o /\ o + nbytes <= brk'
      /\ \A o, p \in Bumped(n, nbytes) : o # p => o + nbytes <= p \/ p + nbytes <= o
  BY <1>2, <1>3, <1>4, BumpedSlices
<1>6. brk' \in Nat /\ brk <= brk' /\ brk' <= Capacity
  BY <1>1, <1>5
<1>7. ASSUME NEW a \in Free', a \notin Free
      PROVE  \E o \in Bumped(n, nbytes) : a = New(o)
  <2>1. PICK m \in Sizes : \E o \in free_segments'[m] :
          a = [offset |-> o, nbytes |-> m]
    BY FreeSlicesNext
  <2>2. PICK o \in free_segments'[m] : a = [offset |-> o, nbytes |-> m]
    BY <2>1
  <2>3. o \notin free_segments[m]
    BY <1>7, <2>2, FreeSlices
  <2>4. m = nbytes /\ o \in Bumped(n, nbytes)
    BY <1>3, <2>2, <2>3 DEF TypeOK
  <2> QED BY <2>2, <2>4
<1>8. Live' = Live
  BY <1>3 DEF Live
<1>9. \A a \in Live \cup Free : a.offset + a.nbytes <= brk
  BY DEF SlicesDisjoint
<1>10. \A a \in Live \cup Free : a.offset \in Nat /\ a.nbytes \in Nat
  BY SlicesTyped
<1>11. ASSUME NEW o \in Bumped(n, nbytes), NEW b \in Live \cup Free
       PROVE  Apart(New(o), b) /\ Apart(b, New(o))
  <2>1. b.offset + b.nbytes <= o
    BY <1>1, <1>5, <1>9, <1>10
  <2> QED BY <2>1 DEF Apart
<1>12. ASSUME NEW o \in Bumped(n, nbytes), NEW p \in Bumped(n, nbytes), o # p
       PROVE  Apart(New(o), New(p))
  BY <1>5, <1>12 DEF Apart
<1>13. \A a \in Live', b \in Free' : Apart(a, b)
  BY <1>7, <1>8, <1>11 DEF SlicesDisjoint
<1>14. ASSUME NEW a \in Free', NEW b \in Free', a # b PROVE Apart(a, b)
  <2>1. CASE a \in Free /\ b \in Free
    BY <1>14, <2>1 DEF SlicesDisjoint
  <2>2. CASE a \in Free /\ b \notin Free
    BY <1>7, <1>11, <2>2
  <2>3. CASE a \notin Free /\ b \in Free
    BY <1>7, <1>11, <2>3
  <2>4. CASE a \notin Free /\ b \notin Free
    BY <1>7, <1>12, <1>14, <2>4
  <2> QED BY <2>1, <2>2, <2>3, <2>4
<1>15. ASSUME NEW a \in Live' \cup Free' PROVE a.offset + a.nbytes <= brk'
  <2>1. CASE a \in Live \cup Free
    BY <1>1, <1>6, <1>9, <1>10, <2>1
  <2>2. CASE a \notin Live \cup Free
    <3>1. PICK o \in Bumped(n, nbytes) : a = New(o)
      BY <1>7, <1>8, <2>2
    <3> QED BY <1>5, <3>1
  <2> QED BY <2>1, <2>2
<1>16. \A k, l \in DOMAIN entries' : k # l => Apart(entries'[k].obj, entries'[l].obj)
  BY <1>3 DEF SlicesDisjoint
<1>17. SlicesDisjoint'
  BY <1>13, <1>14, <1>15, <1>16 DEF SlicesDisjoint, Apart
<1>18. \A o \in Bumped(n, nbytes) : o \in 0 .. Capacity
  BY <1>1, <1>5, <1>6
<1>19. free_segments' \in [Sizes -> SUBSET (0 .. Capacity)]
  BY <1>3, <1>18 DEF TypeOK
<1> QED BY <1>1, <1>6, <1>17, <1>19

\* The holders of a key can be counted.
LEMMA HoldersFinite ==
  \A k : IsFiniteSet(Holders(k)) /\ Cardinality(Holders(k)) \in Nat
<1> SUFFICES ASSUME NEW k
             PROVE  IsFiniteSet(Holders(k)) /\ Cardinality(Holders(k)) \in Nat
  OBVIOUS
<1>1. IsFiniteSet(Holders(k))
  BY FS_Subset, ClientAssumption DEF Holders
<1> QED BY <1>1, FS_CardinalityType

\* Taking a hold adds one holder to each key taken and none to the others.
LEMMA HoldsAdded ==
  ASSUME holds \in [Clients -> SUBSET Keys], NEW c \in Clients, NEW keys,
         keys \cap holds[c] = {}, Own(holds, c, keys)
  PROVE  \A k : /\ k \in keys => Cardinality(Holders(k)') = Cardinality(Holders(k)) + 1
                /\ k \notin keys => Holders(k)' = Holders(k)
<1> SUFFICES ASSUME NEW k
             PROVE  /\ k \in keys => Cardinality(Holders(k)') = Cardinality(Holders(k)) + 1
                    /\ k \notin keys => Holders(k)' = Holders(k)
  OBVIOUS
<1>1. k \in keys => c \notin Holders(k) /\ Holders(k)' = Holders(k) \cup {c}
  BY DEF Own, Holders
<1>2. k \notin keys => Holders(k)' = Holders(k)
  BY DEF Own, Holders
<1> QED BY <1>1, <1>2, HoldersFinite, FS_AddElement

\* Dropping a hold removes one holder.
LEMMA HoldsDropped ==
  ASSUME holds \in [Clients -> SUBSET Keys], NEW c \in Clients, NEW keys,
         keys \subseteq holds[c], Disown(holds, c, keys)
  PROVE  \A k : /\ k \in keys => Cardinality(Holders(k)') = Cardinality(Holders(k)) - 1
                /\ k \notin keys => Holders(k)' = Holders(k)
<1> SUFFICES ASSUME NEW k
             PROVE  /\ k \in keys => Cardinality(Holders(k)') = Cardinality(Holders(k)) - 1
                    /\ k \notin keys => Holders(k)' = Holders(k)
  OBVIOUS
<1>1. k \in keys => c \in Holders(k) /\ Holders(k)' = Holders(k) \ {c}
  BY DEF Disown, Holders
<1>2. k \notin keys => Holders(k)' = Holders(k)
  BY DEF Disown, Holders
<1> QED BY <1>1, <1>2, HoldersFinite, FS_RemoveElement

\* A key that counts no holder is held by nobody.
LEMMA NoHolders ==
  \A k : Cardinality(Holders(k)) = 0 => \A c \in Clients : k \notin holds[c]
BY HoldersFinite, FS_EmptySet DEF Holders

\* The count of a chunk that nobody holds is zero.
LEMMA UnheldIsZero ==
  ASSUME NEW k, Holders(k) = {}
  PROVE  Cardinality(Holders(k)) = 0
BY FS_EmptySet

-----------------------------------------------------------------------------

(***************************************************************************)
(* The inductive invariant.  No part is inductive alone: a chunk stays     *)
(* complete because slices are disjoint and a writer's chunk is locked, a  *)
(* held chunk stays because the counts are exact, a discarded chunk has no *)
(* reader because its writer excludes readers.                             *)
(***************************************************************************)
IInv ==
  /\ TypeOK
  /\ SlicesDisjoint
  /\ CountsMatchHolds
  /\ WriterExclusive
  /\ ReadableIsComplete
  /\ TemporaryIsReferenced

\* The empty pool and the empty table satisfy the invariant.
THEOREM InitEstablishes == Init => IInv
<1> SUFFICES ASSUME Init PROVE IInv
  OBVIOUS
<1> USE DEF Init, L1Init, PoolInit
<1>0. DOMAIN entries = {}
  OBVIOUS
<1>1. TypeOK
  BY PoolAssumption DEF TypeOK
<1>2. SlicesDisjoint
  BY <1>0 DEF SlicesDisjoint, Live, Free
<1>3. CountsMatchHolds
  BY <1>0 DEF CountsMatchHolds
<1>4. WriterExclusive
  BY <1>0 DEF WriterExclusive
<1>5. ReadableIsComplete /\ TemporaryIsReferenced
  BY <1>0 DEF ReadableIsComplete, TemporaryIsReferenced
<1> QED BY <1>1, <1>2, <1>3, <1>4, <1>5 DEF IInv

\* Nobody holds a chunk that is being written.
LEMMA WriteLockedIsUnheld ==
  ASSUME IInv, NEW k \in DOMAIN entries, entries[k].write_locked
  PROVE  Cardinality(Holders(k)) = 0 /\ \A c \in Clients : k \notin holds[c]
<1>1. \A c \in Clients : k \notin holds[c]
  BY DEF IInv, CountsMatchHolds, readable
<1>2. Holders(k) = {}
  BY <1>1 DEF Holders
<1> QED BY <1>1, <1>2, FS_EmptySet

\* Nobody holds a chunk that has no entry.
LEMMA AbsentIsUnheld ==
  ASSUME IInv, NEW k, k \notin DOMAIN entries
  PROVE  Cardinality(Holders(k)) = 0 /\ \A c \in Clients : k \notin holds[c]
<1>1. \A c \in Clients : k \notin holds[c]
  BY DEF IInv, CountsMatchHolds, readable
<1>2. Holders(k) = {}
  BY <1>1 DEF Holders
<1> QED BY <1>1, <1>2, FS_EmptySet

\* Reserving chunks preserves the invariant: the new entries get slices of
\* their own and exactly one owner.
LEMMA ReserveWriteStep ==
  ASSUME IInv, NEW c \in Clients, NEW keys \in SUBSET Keys, NEW nbytes \in Sizes,
         NEW is_temporary \in BOOLEAN,
         ReserveWrite(c, keys, nbytes, is_temporary)
  PROVE  IInv'
<1> DEFINE missing == Missing(keys)
<1>1. TypeOK /\ SlicesDisjoint
  BY DEF IInv
<1>2. reserve_write(keys, nbytes, is_temporary) /\ Own(writing, c, missing)
      /\ holds' = holds /\ pool' = pool
  BY DEF ReserveWrite, reserve_write
<1>3. /\ SlicesDisjoint'
      /\ brk' \in 0 .. Capacity
      /\ free_segments' \in [Sizes -> SUBSET (0 .. Capacity)]
      /\ \A k \in missing : entries'[k].obj \in MemoryObj
  BY <1>1, <1>2, SlicesReserved
<1>4. /\ entries' = [k \in DOMAIN entries' |-> entries'[k]]
      /\ DOMAIN entries' = DOMAIN entries \cup missing
      /\ \A k \in DOMAIN entries : entries'[k] = entries[k]
      /\ \A k \in missing :
           /\ k \notin DOMAIN entries
           /\ entries'[k] = NewEntry(entries'[k].obj, is_temporary)
  BY <1>2 DEF reserve_write, NewEntry, Missing
<1>5. \A k \in missing : entries'[k].write_locked /\ entries'[k].read_count = 0
  BY <1>4 DEF NewEntry
<1>6. TypeOK'
  <2>0. \A o \in MemoryObj : NewEntry(o, is_temporary) \in Entry
    BY DEF NewEntry, Entry
  <2>1. \A k \in missing : entries'[k] \in Entry
    BY <1>3, <1>4, <2>0
  <2>2. \A k \in DOMAIN entries : entries'[k] \in Entry
    BY <1>1, <1>4 DEF TypeOK
  <2>3. entries' \in [DOMAIN entries' -> Entry] /\ DOMAIN entries' \subseteq Keys
    BY <1>1, <1>4, <2>1, <2>2 DEF TypeOK, Missing
  <2>4. writing' \in [Clients -> SUBSET Keys]
    BY <1>1, <1>2 DEF TypeOK, Own, Missing
  <2> QED BY <1>1, <1>2, <1>3, <2>3, <2>4 DEF TypeOK
<1>7. CountsMatchHolds'
  <2>1. \A k : Holders(k)' = Holders(k)
    BY <1>2 DEF Holders
  <2>2. \A k \in missing : Cardinality(Holders(k)) = 0
    BY <1>4, AbsentIsUnheld
  <2>3. \A k \in DOMAIN entries' : entries'[k].read_count = Cardinality(Holders(k)')
    BY <1>4, <1>5, <2>1, <2>2 DEF IInv, CountsMatchHolds
  <2>4. \A d \in Clients : \A k \in holds'[d] : readable(k)'
    BY <1>2, <1>4 DEF IInv, CountsMatchHolds, readable
  <2> QED BY <2>3, <2>4 DEF CountsMatchHolds
<1>8. WriterExclusive'
  <2>1. \A d \in Clients : writing'[d] = writing[d] \cup (IF d = c THEN missing ELSE {})
    BY <1>1, <1>2 DEF Own, TypeOK
  <2>2. \A d \in Clients : \A k \in writing[d] :
          /\ k \in DOMAIN entries
          /\ entries[k].write_locked
          /\ \A e \in Clients : k \in writing[e] => e = d
    BY DEF IInv, WriterExclusive
  <2>3. \A d \in Clients : \A k \in writing'[d] :
          /\ k \in DOMAIN entries'
          /\ entries'[k].write_locked
          /\ \A e \in Clients : k \in writing'[e] => e = d
    BY <1>4, <1>5, <2>1, <2>2
  <2>4. \A k \in DOMAIN entries' :
          entries'[k].write_locked => \E d \in Clients : k \in writing'[d]
    BY <1>4, <2>1 DEF IInv, WriterExclusive
  <2> QED BY <2>3, <2>4 DEF WriterExclusive
<1>9. ReadableIsComplete'
  BY <1>2, <1>4, <1>5 DEF IInv, ReadableIsComplete, readable, HasBytes
<1>10. TemporaryIsReferenced'
  BY <1>4, <1>5 DEF IInv, TemporaryIsReferenced, readable
<1> QED BY <1>3, <1>6, <1>7, <1>8, <1>9, <1>10 DEF IInv

\* So does a reservation the pool refuses.
LEMMA ReserveWriteNoneStep ==
  ASSUME IInv, NEW keys \in SUBSET Keys, NEW nbytes \in Sizes,
         ReserveWriteNone(keys, nbytes)
  PROVE  IInv'
<1>1. TypeOK /\ SlicesDisjoint
  BY DEF IInv
<1>2. reserve_write_none(keys, nbytes) /\ UNCHANGED <<pool, entries, writing, holds>>
  BY DEF ReserveWriteNone, reserve_write_none, ownerVars
<1>3. /\ SlicesDisjoint'
      /\ brk' \in 0 .. Capacity
      /\ free_segments' \in [Sizes -> SUBSET (0 .. Capacity)]
  BY <1>1, <1>2, SlicesRefused
<1>4. TypeOK'
  BY <1>1, <1>2, <1>3 DEF TypeOK
<1>5. CountsMatchHolds' /\ WriterExclusive' /\ ReadableIsComplete'
      /\ TemporaryIsReferenced'
  BY <1>2 DEF IInv, CountsMatchHolds, Holders, WriterExclusive,
       ReadableIsComplete, TemporaryIsReferenced, readable, HasBytes
<1> QED BY <1>3, <1>4, <1>5 DEF IInv

\* So does filling a chunk: it touches no byte of a readable one.
LEMMA FillStep ==
  ASSUME IInv, NEW c \in Clients, NEW k \in Keys, Fill(c, k)
  PROVE  IInv'
<1>1. /\ k \in writing[c]
      /\ pool' = [b \in DOMAIN pool |->
                    IF b \in Slice(entries[k].obj) THEN k ELSE pool[b]]
      /\ UNCHANGED <<brk, free_segments, entries, writing, holds>>
  BY DEF Fill, write_bytes, allocVars, ownerVars
<1>2. k \in DOMAIN entries /\ entries[k].write_locked
  BY <1>1 DEF IInv, WriterExclusive
<1>3. TypeOK'
  BY <1>1 DEF IInv, TypeOK
<1>4. SlicesDisjoint'
  BY <1>1, SlicesStay DEF IInv
<1>5. ReadableIsComplete'
  <2> SUFFICES ASSUME NEW l \in DOMAIN entries, readable(l),
                      NEW b \in Slice(entries[l].obj)
               PROVE  pool'[b] = l
    BY <1>1 DEF ReadableIsComplete, readable, HasBytes
  <2>1. l # k
    BY <1>2 DEF readable
  <2>2. Apart(entries[k].obj, entries[l].obj)
    BY <1>2, <2>1 DEF IInv, SlicesDisjoint
  <2>3. /\ entries[k].obj.offset \in Nat /\ entries[k].obj.nbytes \in Nat
        /\ entries[l].obj.offset \in Nat /\ entries[l].obj.nbytes \in Nat
    BY <1>2, SlicesTyped DEF IInv, Live
  <2>4. b \notin Slice(entries[k].obj)
    BY <2>2, <2>3 DEF Apart, Slice
  <2>5. pool[b] = l
    BY DEF IInv, ReadableIsComplete, HasBytes
  <2>6. b \in DOMAIN pool
    <3>1. entries[l].obj \in Live
      BY DEF Live
    <3>2. entries[l].obj.offset + entries[l].obj.nbytes <= brk
      BY <3>1 DEF IInv, SlicesDisjoint
    <3>3. brk \in 0 .. Capacity /\ DOMAIN pool = 0 .. (Capacity - 1)
      BY DEF IInv, TypeOK
    <3> QED BY <2>3, <3>2, <3>3, PoolAssumption DEF Slice
  <2> QED BY <1>1, <2>4, <2>5, <2>6
<1>6. CountsMatchHolds' /\ WriterExclusive' /\ TemporaryIsReferenced'
  BY <1>1 DEF IInv, CountsMatchHolds, Holders, WriterExclusive,
       TemporaryIsReferenced, readable
<1> QED BY <1>3, <1>4, <1>5, <1>6 DEF IInv

\* So does promote.
LEMMA PromoteStep ==
  ASSUME IInv, NEW keys \in SUBSET Keys, Promote(keys)
  PROVE  IInv'
<1>1. /\ entries' = [k \in DOMAIN entries |->
                       IF k \in keys
                       THEN [entries[k] EXCEPT !.is_temporary = FALSE]
                       ELSE entries[k]]
      /\ UNCHANGED <<pool, brk, free_segments, writing, holds>>
  BY DEF Promote, promote, poolVars, ownerVars
<1>2. /\ entries \in [DOMAIN entries -> Entry]
      /\ TypeOK
  BY DEF IInv, TypeOK
<1>3. /\ DOMAIN entries' = DOMAIN entries
      /\ \A k \in DOMAIN entries :
           /\ entries'[k] \in Entry
           /\ entries'[k].obj = entries[k].obj
           /\ entries'[k].write_locked = entries[k].write_locked
           /\ entries'[k].read_count = entries[k].read_count
           /\ entries'[k].is_temporary => entries[k].is_temporary
  BY <1>1, <1>2 DEF Entry
<1>4. entries' \in [DOMAIN entries' -> Entry]
  BY <1>1, <1>3
<1>5. TypeOK'
  BY <1>1, <1>2, <1>3, <1>4 DEF TypeOK
<1>6. SlicesDisjoint'
  BY <1>1, <1>3, SlicesStay DEF IInv
<1>7. CountsMatchHolds'
  BY <1>1, <1>3 DEF IInv, CountsMatchHolds, Holders, readable
<1>8. WriterExclusive'
  BY <1>1, <1>3 DEF IInv, WriterExclusive
<1>9. ReadableIsComplete'
  BY <1>1, <1>3 DEF IInv, ReadableIsComplete, readable, HasBytes
<1>10. TemporaryIsReferenced'
  BY <1>1, <1>3 DEF IInv, TemporaryIsReferenced, readable
<1> QED BY <1>5, <1>6, <1>7, <1>8, <1>9, <1>10 DEF IInv

\* So does publishing filled chunks.
LEMMA FinishWriteStep ==
  ASSUME IInv, NEW c \in Clients, NEW keys \in SUBSET Keys, FinishWrite(c, keys)
  PROVE  IInv'
<1>1. /\ keys \subseteq writing[c]
      /\ Filled(keys)
      /\ \A k \in keys : ~entries[k].is_temporary
      /\ entries' = [k \in DOMAIN entries |->
                       IF k \in keys
                       THEN [entries[k] EXCEPT !.write_locked = FALSE]
                       ELSE entries[k]]
      /\ Disown(writing, c, keys)
      /\ UNCHANGED <<pool, brk, free_segments, holds>>
  BY DEF FinishWrite, finish_write, poolVars
<1>2. TypeOK /\ entries \in [DOMAIN entries -> Entry]
  BY DEF IInv, TypeOK
<1>3. /\ DOMAIN entries' = DOMAIN entries
      /\ \A k \in DOMAIN entries :
           /\ entries'[k] \in Entry
           /\ entries'[k].obj = entries[k].obj
           /\ entries'[k].write_locked = (entries[k].write_locked /\ k \notin keys)
           /\ entries'[k].read_count = entries[k].read_count
           /\ entries'[k].is_temporary = entries[k].is_temporary
  BY <1>1, <1>2 DEF Entry
<1>4. TypeOK'
  <2>1. entries' \in [DOMAIN entries' -> Entry]
    BY <1>1, <1>3
  <2>2. writing' \in [Clients -> SUBSET Keys]
    BY <1>1, <1>2 DEF TypeOK, Disown
  <2> QED BY <1>1, <1>2, <1>3, <2>1, <2>2 DEF TypeOK
<1>5. SlicesDisjoint'
  BY <1>1, <1>3, SlicesStay DEF IInv
<1>6. CountsMatchHolds'
  BY <1>1, <1>3 DEF IInv, CountsMatchHolds, Holders, readable
<1>7. WriterExclusive'
  <2>1. \A d \in Clients : writing'[d] = writing[d] \ (IF d = c THEN keys ELSE {})
    BY <1>1, <1>2 DEF Disown, TypeOK
  <2> QED BY <1>1, <1>3, <2>1 DEF IInv, WriterExclusive
<1>8. ReadableIsComplete'
  BY <1>1, <1>3 DEF IInv, ReadableIsComplete, readable, HasBytes, Filled
<1>9. TemporaryIsReferenced'
  BY <1>1, <1>3 DEF IInv, TemporaryIsReferenced, readable
<1> QED BY <1>4, <1>5, <1>6, <1>7, <1>8, <1>9 DEF IInv

\* The record finish_write_and_reserve_read leaves is an Entry.
LEMMA PublishedEntry ==
  ASSUME NEW e \in Entry, NEW r,
         r = [e EXCEPT !.write_locked = FALSE, !.read_count = @ + 1]
  PROVE  /\ r \in Entry
         /\ r.obj = e.obj
         /\ ~r.write_locked
         /\ r.read_count = e.read_count + 1
         /\ r.is_temporary = e.is_temporary
<1> DEFINE u == [e EXCEPT !.write_locked = FALSE]
           p == [u EXCEPT !.read_count = @ + 1]
<1>1. r = p
  OBVIOUS
<1>2. /\ u \in Entry
      /\ u.obj = e.obj
      /\ ~u.write_locked
      /\ u.read_count = e.read_count
      /\ u.is_temporary = e.is_temporary
  BY DEF Entry
<1> HIDE DEF u
<1>3. /\ p \in Entry
      /\ p.obj = u.obj
      /\ p.write_locked = u.write_locked
      /\ p.read_count = u.read_count + 1
      /\ p.is_temporary = u.is_temporary
  BY <1>2 DEF Entry
<1> QED BY <1>1, <1>2, <1>3

\* Publishing chunks with a hold preserves the invariant: they count one
\* holder, which the writer becomes.
LEMMA FinishWriteAndReserveReadStep ==
  ASSUME IInv, NEW c \in Clients, NEW keys \in SUBSET Keys,
         FinishWriteAndReserveRead(c, keys)
  PROVE  IInv'
<1>1. /\ keys \subseteq writing[c]
      /\ Filled(keys)
      /\ entries' = [k \in DOMAIN entries |->
                       IF k \in keys
                       THEN [entries[k] EXCEPT !.write_locked = FALSE,
                                               !.read_count = @ + 1]
                       ELSE entries[k]]
      /\ Disown(writing, c, keys)
      /\ Own(holds, c, keys)
      /\ UNCHANGED <<pool, brk, free_segments>>
  BY DEF FinishWriteAndReserveRead, finish_write_and_reserve_read, poolVars
<1>2. TypeOK /\ entries \in [DOMAIN entries -> Entry]
  BY DEF IInv, TypeOK
<1>3. \A k \in keys : k \in DOMAIN entries /\ entries[k].write_locked
  BY <1>1 DEF IInv, WriterExclusive
<1>4. /\ DOMAIN entries' = DOMAIN entries
      /\ \A k \in DOMAIN entries \ keys : entries'[k] = entries[k]
  BY <1>1
<1>4a. ASSUME NEW k \in keys
       PROVE  /\ entries'[k] \in Entry
              /\ entries'[k].obj = entries[k].obj
              /\ ~entries'[k].write_locked
              /\ entries'[k].read_count = entries[k].read_count + 1
              /\ entries'[k].read_count > 0
              /\ entries'[k].is_temporary = entries[k].is_temporary
  <2>1. entries[k] \in Entry
    BY <1>2, <1>3
  <2>2. entries'[k] = [entries[k] EXCEPT !.write_locked = FALSE,
                                         !.read_count = @ + 1]
    BY <1>1, <1>3
  <2>3. entries[k].read_count \in Nat
    BY <2>1 DEF Entry
  <2>4. /\ entries'[k] \in Entry
        /\ entries'[k].obj = entries[k].obj
        /\ ~entries'[k].write_locked
        /\ entries'[k].read_count = entries[k].read_count + 1
        /\ entries'[k].is_temporary = entries[k].is_temporary
    BY <2>1, <2>2, PublishedEntry
  <2> QED BY <2>3, <2>4
<1>4b. \A k \in DOMAIN entries : entries'[k].obj = entries[k].obj
  BY <1>4, <1>4a
<1>5. \A d \in Clients : /\ writing'[d] = writing[d] \ (IF d = c THEN keys ELSE {})
                         /\ holds'[d] = holds[d] \cup (IF d = c THEN keys ELSE {})
  BY <1>1, <1>2 DEF Disown, Own, TypeOK
<1>6. TypeOK'
  <2>1. entries' \in [DOMAIN entries' -> Entry]
    BY <1>1, <1>2, <1>4, <1>4a
  <2>2. writing' \in [Clients -> SUBSET Keys] /\ holds' \in [Clients -> SUBSET Keys]
    BY <1>1, <1>2 DEF TypeOK, Disown, Own
  <2> QED BY <1>1, <1>2, <1>4, <2>1, <2>2 DEF TypeOK
<1>7. SlicesDisjoint'
  BY <1>1, <1>4, <1>4b, SlicesStay DEF IInv
<1>8. CountsMatchHolds'
  <2>1. keys \cap holds[c] = {}
    BY <1>3, WriteLockedIsUnheld
  <2>2. \A k : /\ k \in keys => Cardinality(Holders(k)') = Cardinality(Holders(k)) + 1
               /\ k \notin keys => Holders(k)' = Holders(k)
    BY <1>1, <1>2, <2>1, HoldsAdded DEF TypeOK
  <2>3. \A k \in DOMAIN entries' : entries'[k].read_count = Cardinality(Holders(k)')
    BY <1>4, <1>4a, <2>2 DEF IInv, CountsMatchHolds
  <2>4. \A d \in Clients : \A k \in holds'[d] : readable(k)'
    BY <1>3, <1>4, <1>4a, <1>5 DEF IInv, CountsMatchHolds, readable
  <2> QED BY <2>3, <2>4 DEF CountsMatchHolds
<1>9. WriterExclusive'
  <2>1. \A d \in Clients : \A k \in writing[d] :
          /\ k \in DOMAIN entries
          /\ entries[k].write_locked
          /\ \A e \in Clients : k \in writing[e] => e = d
    BY DEF IInv, WriterExclusive
  <2>2. ASSUME NEW d \in Clients, NEW k \in writing'[d]
        PROVE  k \in writing[d] /\ k \notin keys
    <3>1. k \in writing[d] /\ (d = c => k \notin keys)
      BY <1>5
    <3>2. k \in keys => d = c
      BY <1>1, <2>1, <3>1
    <3> QED BY <3>1, <3>2
  <2>3. \A d \in Clients : \A k \in writing'[d] :
          /\ k \in DOMAIN entries'
          /\ entries'[k].write_locked
          /\ \A e \in Clients : k \in writing'[e] => e = d
    BY <1>4, <2>1, <2>2
  <2>4. \A k \in DOMAIN entries' :
          entries'[k].write_locked => \E d \in Clients : k \in writing'[d]
    BY <1>4, <1>4a, <1>5 DEF IInv, WriterExclusive
  <2> QED BY <2>3, <2>4 DEF WriterExclusive
<1>10. ReadableIsComplete'
  BY <1>1, <1>4, <1>4a DEF IInv, ReadableIsComplete, readable, HasBytes, Filled
<1>11. TemporaryIsReferenced'
  BY <1>4, <1>4a DEF IInv, TemporaryIsReferenced, readable
<1> QED BY <1>6, <1>7, <1>8, <1>9, <1>10, <1>11 DEF IInv

\* Taking holds on the readable ones of keys preserves the invariant; the
\* step of both reserve_read and reserve_read_prefix.
LEMMA HoldStep ==
  ASSUME IInv, NEW c \in Clients, NEW keys, keys \cap holds[c] = {},
         reserve_read(keys), Own(holds, c, Reservable(keys)), UNCHANGED writing
  PROVE  IInv'
<1> DEFINE new == Reservable(keys)
<1>1. /\ entries' = [k \in DOMAIN entries |->
                       IF k \in new
                       THEN [entries[k] EXCEPT !.read_count = @ + 1]
                       ELSE entries[k]]
      /\ UNCHANGED <<pool, brk, free_segments, writing>>
  BY DEF reserve_read, poolVars
<1>2. TypeOK /\ entries \in [DOMAIN entries -> Entry]
  BY DEF IInv, TypeOK
<1>3. \A k \in new : k \in DOMAIN entries /\ ~entries[k].write_locked /\ k \in Keys
  BY <1>2 DEF Reservable, readable, TypeOK
<1>4. /\ DOMAIN entries' = DOMAIN entries
      /\ \A k \in DOMAIN entries :
           /\ entries'[k] \in Entry
           /\ entries'[k].obj = entries[k].obj
           /\ entries'[k].write_locked = entries[k].write_locked
           /\ entries'[k].read_count =
                (IF k \in new THEN entries[k].read_count + 1 ELSE entries[k].read_count)
           /\ entries'[k].is_temporary = entries[k].is_temporary
  BY <1>1, <1>2 DEF Entry
<1>5. new \cap holds[c] = {}
  BY DEF Reservable
<1> HIDE DEF new
<1>6. Own(holds, c, new)
  BY DEF new
<1>7. \A d \in Clients : holds'[d] = holds[d] \cup (IF d = c THEN new ELSE {})
  BY <1>2, <1>6 DEF Own, TypeOK
<1>8. TypeOK'
  <2>1. entries' \in [DOMAIN entries' -> Entry]
    BY <1>1, <1>4
  <2>2. holds' \in [Clients -> SUBSET Keys]
    BY <1>2, <1>3, <1>6 DEF TypeOK, Own
  <2> QED BY <1>1, <1>2, <1>4, <2>1, <2>2 DEF TypeOK
<1>9. SlicesDisjoint'
  BY <1>1, <1>4, SlicesStay DEF IInv
<1>10. CountsMatchHolds'
  <2>1. \A k : /\ k \in new => Cardinality(Holders(k)') = Cardinality(Holders(k)) + 1
               /\ k \notin new => Holders(k)' = Holders(k)
    BY <1>2, <1>5, <1>6, HoldsAdded DEF TypeOK
  <2>2. \A k \in DOMAIN entries' : entries'[k].read_count = Cardinality(Holders(k)')
    BY <1>4, <2>1 DEF IInv, CountsMatchHolds
  <2>3. \A d \in Clients : \A k \in holds'[d] : readable(k)'
    BY <1>3, <1>4, <1>7 DEF IInv, CountsMatchHolds, readable
  <2> QED BY <2>2, <2>3 DEF CountsMatchHolds
<1>11. WriterExclusive'
  BY <1>1, <1>4 DEF IInv, WriterExclusive
<1>12. ReadableIsComplete'
  BY <1>1, <1>4 DEF IInv, ReadableIsComplete, readable, HasBytes
<1>13. TemporaryIsReferenced'
  <2>1. \A k \in DOMAIN entries : entries[k].read_count \in Nat
    BY <1>2 DEF Entry
  <2> QED BY <1>4, <2>1 DEF IInv, TemporaryIsReferenced, readable
<1> QED BY <1>8, <1>9, <1>10, <1>11, <1>12, <1>13 DEF IInv

\* Dropping holds preserves the invariant: a temporary chunk goes exactly
\* when its last holder leaves.
LEMMA FinishReadStep ==
  ASSUME IInv, NEW c \in Clients, NEW keys \in SUBSET Keys, FinishRead(c, keys)
  PROVE  IInv'
<1> DEFINE freed == LastHold(keys)
<1>1. /\ keys \subseteq holds[c]
      /\ entries' = [k \in DOMAIN entries \ freed |->
                       IF k \in keys
                       THEN [entries[k] EXCEPT !.read_count = @ - 1]
                       ELSE entries[k]]
      /\ free({entries[k].obj : k \in freed})
      /\ Disown(holds, c, keys)
      /\ UNCHANGED <<pool, writing>>
  BY DEF FinishRead, finish_read
<1>2. TypeOK /\ entries \in [DOMAIN entries -> Entry]
  BY DEF IInv, TypeOK
<1>3. \A k \in keys : k \in DOMAIN entries /\ ~entries[k].write_locked
  BY <1>1 DEF IInv, CountsMatchHolds, readable
<1>4. \A k : /\ k \in keys => Cardinality(Holders(k)') = Cardinality(Holders(k)) - 1
             /\ k \notin keys => Holders(k)' = Holders(k)
  BY <1>1, <1>2, HoldsDropped DEF TypeOK
<1>5. \A k : Cardinality(Holders(k)) \in Nat /\ Cardinality(Holders(k)') \in Nat
  <2>1. \A k : IsFiniteSet(Holders(k)')
    BY FS_Subset, ClientAssumption DEF Holders
  <2> QED BY <2>1, HoldersFinite, FS_CardinalityType
<1>6. \A k \in keys : entries[k].read_count = Cardinality(Holders(k))
  BY <1>3 DEF IInv, CountsMatchHolds
<1>7. /\ freed \subseteq DOMAIN entries
      /\ \A k \in freed : k \in keys /\ entries[k].read_count = 1 /\ entries[k].is_temporary
      /\ \A k \in keys \ freed : entries[k].read_count # 1 \/ ~entries[k].is_temporary
  BY <1>3 DEF LastHold
<1> HIDE DEF freed
<1>8. /\ DOMAIN entries' = DOMAIN entries \ freed
      /\ \A k \in DOMAIN entries' :
           /\ entries'[k].obj = entries[k].obj
           /\ entries'[k].write_locked = entries[k].write_locked
           /\ entries'[k].read_count =
                (IF k \in keys THEN entries[k].read_count - 1 ELSE entries[k].read_count)
           /\ entries'[k].is_temporary = entries[k].is_temporary
  BY <1>1, <1>2 DEF Entry
<1>9. \A d \in Clients : holds'[d] = holds[d] \ (IF d = c THEN keys ELSE {})
  BY <1>1, <1>2 DEF Disown, TypeOK
<1>10. TypeOK'
  <2>1. \A k \in keys : entries[k].read_count - 1 \in Nat
    BY <1>4, <1>5, <1>6
  <2>2. \A k \in DOMAIN entries' : entries'[k] \in Entry
    BY <1>1, <1>2, <1>3, <2>1 DEF Entry
  <2>3. entries' \in [DOMAIN entries' -> Entry]
    BY <1>1, <2>2
  <2>4. holds' \in [Clients -> SUBSET Keys]
    BY <1>1, <1>2 DEF TypeOK, Disown
  <2>5. brk' = brk /\ free_segments' \in [Sizes -> SUBSET (0 .. Capacity)]
    BY <1>1, <1>2, <1>7, FreedOffsets
  <2> QED BY <1>1, <1>2, <1>8, <2>3, <2>4, <2>5 DEF TypeOK
<1>11. SlicesDisjoint'
  BY <1>1, <1>7, <1>8, SlicesFreed DEF IInv
<1>12. CountsMatchHolds'
  <2>1. \A k \in DOMAIN entries' : entries'[k].read_count = Cardinality(Holders(k)')
    BY <1>4, <1>8 DEF IInv, CountsMatchHolds
  <2>2. \A k \in freed : Cardinality(Holders(k)') = 0
    BY <1>4, <1>5, <1>6, <1>7
  <2>3. \A k \in freed : \A d \in Clients : k \notin holds'[d]
    <3>1. \A k \in freed : Holders(k)' = {}
      <4>1. \A k : IsFiniteSet(Holders(k)')
        BY FS_Subset, ClientAssumption DEF Holders
      <4> QED BY <2>2, <4>1, FS_EmptySet
    <3> QED BY <3>1 DEF Holders
  <2>4. \A d \in Clients : \A k \in holds'[d] : readable(k)'
    BY <1>8, <1>9, <2>3 DEF IInv, CountsMatchHolds, readable
  <2> QED BY <2>1, <2>4 DEF CountsMatchHolds
<1>13. WriterExclusive'
  BY <1>1, <1>3, <1>7, <1>8 DEF IInv, WriterExclusive
<1>14. ReadableIsComplete'
  BY <1>1, <1>8 DEF IInv, ReadableIsComplete, readable, HasBytes
<1>15. TemporaryIsReferenced'
  <2>1. \A k \in DOMAIN entries : entries[k].read_count \in Nat
    BY <1>2 DEF Entry
  <2> QED BY <1>4, <1>5, <1>6, <1>7, <1>8, <2>1
        DEF IInv, TemporaryIsReferenced, readable
<1> QED BY <1>10, <1>11, <1>12, <1>13, <1>14, <1>15 DEF IInv

\* reserve_read preserves the invariant.
LEMMA ReserveReadStep ==
  ASSUME IInv, NEW c \in Clients, NEW keys \in SUBSET Keys, ReserveRead(c, keys)
  PROVE  IInv'
BY HoldStep DEF ReserveRead

\* reserve_read_prefix preserves the invariant: all it takes is readable.
LEMMA ReserveReadPrefixStep ==
  ASSUME IInv, NEW c \in Clients, NEW list \in KeyLists, ReserveReadPrefix(c, list)
  PROVE  IInv'
<1>1. Reservable(PrefixKeys(list)) = PrefixKeys(list)
  <2>1. \A i \in PrefixIndices(list) : readable(list[i])
    BY DEF PrefixIndices
  <2> QED BY <2>1 DEF Reservable, PrefixKeys
<1>2. /\ PrefixKeys(list) \cap holds[c] = {}
      /\ reserve_read(PrefixKeys(list))
      /\ Own(holds, c, Reservable(PrefixKeys(list)))
      /\ UNCHANGED writing
  BY <1>1 DEF ReserveReadPrefix, reserve_read_prefix
<1> QED BY <1>2, HoldStep

\* Removing entries nobody holds, together with their write locks.
LEMMA RemoveStep ==
  ASSUME IInv, NEW gone \in SUBSET DOMAIN entries, RemoveEntries(gone),
         \A c \in Clients : gone \cap holds[c] = {},
         holds' = holds,
         writing' \in [Clients -> SUBSET Keys],
         \A c \in Clients : writing'[c] = writing[c] \ gone
  PROVE  IInv'
<1>1. TypeOK /\ entries \in [DOMAIN entries -> Entry]
  BY DEF IInv, TypeOK
<1>2. /\ DOMAIN entries' = DOMAIN entries \ gone
      /\ \A k \in DOMAIN entries' : entries'[k] = entries[k]
      /\ entries' = [k \in DOMAIN entries \ gone |-> entries[k]]
      /\ pool' = pool
      /\ free({entries[k].obj : k \in gone})
  BY DEF RemoveEntries, Restrict
<1>3. TypeOK'
  <2>1. entries' \in [DOMAIN entries' -> Entry]
    BY <1>1, <1>2
  <2>2. brk' = brk /\ free_segments' \in [Sizes -> SUBSET (0 .. Capacity)]
    BY <1>1, <1>2, FreedOffsets
  <2> QED BY <1>1, <1>2, <2>1, <2>2 DEF TypeOK
<1>4. SlicesDisjoint'
  BY <1>1, <1>2, SlicesFreed DEF IInv
<1>5. CountsMatchHolds'
  <2>1. \A k : Holders(k)' = Holders(k)
    BY DEF Holders
  <2>2. \A k \in DOMAIN entries' : entries'[k].read_count = Cardinality(Holders(k)')
    BY <1>2, <2>1 DEF IInv, CountsMatchHolds
  <2>3. \A c \in Clients : \A k \in holds'[c] : readable(k)'
    BY <1>2 DEF IInv, CountsMatchHolds, readable
  <2> QED BY <2>2, <2>3 DEF CountsMatchHolds
<1>6. WriterExclusive'
  <2>1. \A c \in Clients : \A k \in writing'[c] :
          /\ k \in DOMAIN entries'
          /\ entries'[k].write_locked
          /\ \A d \in Clients : k \in writing'[d] => d = c
    BY <1>2 DEF IInv, WriterExclusive
  <2>2. \A k \in DOMAIN entries' :
          entries'[k].write_locked => \E c \in Clients : k \in writing'[c]
    BY <1>2 DEF IInv, WriterExclusive
  <2> QED BY <2>1, <2>2 DEF WriterExclusive
<1>7. ReadableIsComplete'
  BY <1>2 DEF IInv, ReadableIsComplete, readable, HasBytes
<1>8. TemporaryIsReferenced'
  BY <1>2 DEF IInv, TemporaryIsReferenced, readable
<1> QED BY <1>3, <1>4, <1>5, <1>6, <1>7, <1>8 DEF IInv

\* An eviction preserves the invariant: what delete removes without force
\* has neither a reader nor a writer.
LEMMA EvictStep ==
  ASSUME IInv, NEW keys \in SUBSET Keys, Evict(keys)
  PROVE  IInv'
<1> DEFINE gone == Deletable(keys, FALSE)
<1>1. RemoveEntries(gone) /\ writing' = writing /\ holds' = holds
  BY DEF Evict, delete, ownerVars
<1>2. /\ gone \in SUBSET DOMAIN entries
      /\ \A k \in gone : ~entries[k].write_locked /\ entries[k].read_count = 0
  BY DEF Deletable, unlocked
<1>3. \A c \in Clients : gone \cap holds[c] = {}
  BY <1>2, NoHolders DEF IInv, CountsMatchHolds
<1>4. \A c \in Clients : writing'[c] = writing[c] \ gone
  BY <1>1, <1>2 DEF IInv, WriterExclusive
<1>5. writing' \in [Clients -> SUBSET Keys]
  BY <1>1 DEF IInv, TypeOK
<1> QED BY <1>1, <1>2, <1>3, <1>4, <1>5, RemoveStep

\* Discarding chunks preserves the invariant: what its writer removes by
\* force has no reader and no other writer.
LEMMA DiscardStep ==
  ASSUME IInv, NEW c \in Clients, NEW keys \in SUBSET Keys, Discard(c, keys)
  PROVE  IInv'
<1>1. \A k \in keys : k \in writing[c] /\ k \in DOMAIN entries /\ entries[k].write_locked
  BY DEF Discard, IInv, WriterExclusive
<1>2. Deletable(keys, TRUE) = keys
  BY <1>1 DEF Deletable
<1>3. RemoveEntries(keys) /\ Disown(writing, c, keys) /\ holds' = holds
  BY <1>2 DEF Discard, delete
<1>4. keys \in SUBSET DOMAIN entries
  BY <1>1
<1>5. \A d \in Clients : keys \cap holds[d] = {}
  BY <1>1, WriteLockedIsUnheld
<1>6. writing \in [Clients -> SUBSET Keys]
  BY DEF IInv, TypeOK
<1>7. writing' \in [Clients -> SUBSET Keys]
  BY <1>3, <1>6 DEF Disown
<1>8. \A d \in Clients : writing'[d] = writing[d] \ keys
  <2>1. \A d \in Clients : writing'[d] = IF d = c THEN writing[d] \ keys ELSE writing[d]
    BY <1>3, <1>6 DEF Disown
  <2>2. \A d \in Clients : d # c => writing[d] \cap keys = {}
    BY <1>1 DEF IInv, WriterExclusive
  <2> QED BY <2>1, <2>2
<1> QED BY <1>3, <1>4, <1>5, <1>7, <1>8, RemoveStep

\* A step that changes nothing preserves the invariant.
LEMMA StutterStep ==
  ASSUME IInv, UNCHANGED vars
  PROVE  IInv'
<1>1. UNCHANGED <<pool, brk, free_segments, entries, writing, holds>>
  BY DEF vars, l1Vars, poolVars, ownerVars
<1>2. Live' = Live /\ Free' = Free
  BY <1>1 DEF Live, Free
<1>3. \A k : Holders(k)' = Holders(k)
  BY <1>1 DEF Holders
<1>4. TypeOK'
  BY <1>1 DEF IInv, TypeOK
<1>5. SlicesDisjoint'
  BY <1>1, <1>2 DEF IInv, SlicesDisjoint
<1>6. CountsMatchHolds'
  BY <1>1, <1>3 DEF IInv, CountsMatchHolds, readable
<1>7. WriterExclusive'
  BY <1>1 DEF IInv, WriterExclusive
<1>8. ReadableIsComplete' /\ TemporaryIsReferenced'
  BY <1>1 DEF IInv, ReadableIsComplete, TemporaryIsReferenced, readable, HasBytes
<1> QED BY <1>4, <1>5, <1>6, <1>7, <1>8 DEF IInv

\* Every step preserves the invariant.
LEMMA NextPreserves ==
  ASSUME IInv, [Next]_vars
  PROVE  IInv'
<1>1. CASE \E keys \in SUBSET Keys, nbytes \in Sizes : ReserveWriteNone(keys, nbytes)
  BY <1>1, ReserveWriteNoneStep
<1>2. CASE \E keys \in SUBSET Keys : Promote(keys)
  BY <1>2, PromoteStep
<1>3. CASE \E keys \in SUBSET Keys : Evict(keys)
  BY <1>3, EvictStep
<1>4. CASE \E keys \in SUBSET Keys, c \in Clients, nbytes \in Sizes, is_temporary \in BOOLEAN :
             ReserveWrite(c, keys, nbytes, is_temporary)
  BY <1>4, ReserveWriteStep
<1>5. CASE \E keys \in SUBSET Keys, c \in Clients : FinishWrite(c, keys)
  BY <1>5, FinishWriteStep
<1>6. CASE \E keys \in SUBSET Keys, c \in Clients : FinishWriteAndReserveRead(c, keys)
  BY <1>6, FinishWriteAndReserveReadStep
<1>7. CASE \E keys \in SUBSET Keys, c \in Clients : ReserveRead(c, keys)
  BY <1>7, ReserveReadStep
<1>8. CASE \E keys \in SUBSET Keys, c \in Clients : FinishRead(c, keys)
  BY <1>8, FinishReadStep
<1>9. CASE \E keys \in SUBSET Keys, c \in Clients : Discard(c, keys)
  BY <1>9, DiscardStep
<1>10. CASE \E c \in Clients, k \in Keys : Fill(c, k)
  BY <1>10, FillStep
<1>11. CASE \E c \in Clients, list \in KeyLists : ReserveReadPrefix(c, list)
  BY <1>11, ReserveReadPrefixStep
<1>12. CASE UNCHANGED vars
  BY <1>12, StutterStep
<1> QED
  BY <1>1, <1>2, <1>3, <1>4, <1>5, <1>6, <1>7, <1>8, <1>9, <1>10, <1>11, <1>12
  DEF Next

-----------------------------------------------------------------------------

\* IInv holds in every reachable state, for every pool, key set and number
\* of clients.
THEOREM Invariance == Spec => []IInv
<1>1. Init => IInv
  BY InitEstablishes
<1>2. IInv /\ [Next]_vars => IInv'
  BY NextPreserves
<1> QED BY <1>1, <1>2, PTL DEF Spec

\* Every variable keeps its type: in particular the read counts never go
\* below zero and the bump pointer stays in the pool.
THEOREM TypeCorrect == Spec => []TypeOK
<1>1. IInv => TypeOK
  BY DEF IInv
<1> QED BY <1>1, Invariance, PTL

\* No two owners of pool memory overlap, whatever sizes are mixed and in
\* whatever order slices are allocated, refused and freed.
THEOREM MemoryIsDisjoint == Spec => []SlicesDisjoint
<1>1. IInv => SlicesDisjoint
  BY DEF IInv
<1> QED BY <1>1, Invariance, PTL

\* The read count of an entry is exact and a held chunk is present: no
\* finish_read, delete or promote frees a chunk some client still holds.
THEOREM CountsAreExact == Spec => []CountsMatchHolds
<1>1. IInv => CountsMatchHolds
  BY DEF IInv
<1> QED BY <1>1, Invariance, PTL

\* A reserved chunk has one writer until that writer publishes or discards
\* it.
THEOREM WritersAreExclusive == Spec => []WriterExclusive
<1>1. IInv => WriterExclusive
  BY DEF IInv
<1> QED BY <1>1, Invariance, PTL

\* Every chunk a reader can see holds its own bytes and no others.
THEOREM ReadersSeeWholeChunks == Spec => []ReadableIsComplete
<1>1. IInv => ReadableIsComplete
  BY DEF IInv
<1> QED BY <1>1, Invariance, PTL

\* A published prefetched chunk is always held by somebody: L1 keeps none
\* that nobody will free.
THEOREM TemporariesAreReferenced == Spec => []TemporaryIsReferenced
<1>1. IInv => TemporaryIsReferenced
  BY DEF IInv
<1> QED BY <1>1, Invariance, PTL

\* An entry that survives a step keeps its slice.
LEMMA SliceKept ==
  ASSUME IInv, [Next]_vars, NEW k \in DOMAIN entries, k \in DOMAIN entries'
  PROVE  entries'[k].obj = entries[k].obj
<1>0. entries[k] \in Entry
  BY DEF IInv, TypeOK
<1> USE <1>0 DEF Entry
<1>1. CASE \E keys \in SUBSET Keys, nbytes \in Sizes : ReserveWriteNone(keys, nbytes)
  BY <1>1 DEF ReserveWriteNone, reserve_write_none
<1>2. CASE \E keys \in SUBSET Keys : Promote(keys)
  BY <1>2 DEF Promote, promote
<1>3. CASE \E keys \in SUBSET Keys : Evict(keys)
  BY <1>3 DEF Evict, delete, RemoveEntries, Restrict
<1>4. CASE \E keys \in SUBSET Keys, c \in Clients, nbytes \in Sizes, is_temporary \in BOOLEAN :
             ReserveWrite(c, keys, nbytes, is_temporary)
  BY <1>4 DEF ReserveWrite, reserve_write
<1>5. CASE \E keys \in SUBSET Keys, c \in Clients : FinishWrite(c, keys)
  BY <1>5 DEF FinishWrite, finish_write
<1>6. CASE \E keys \in SUBSET Keys, c \in Clients : FinishWriteAndReserveRead(c, keys)
  <2>1. PICK keys \in SUBSET Keys :
          entries' = [l \in DOMAIN entries |->
                        IF l \in keys
                        THEN [entries[l] EXCEPT !.write_locked = FALSE,
                                                !.read_count = @ + 1]
                        ELSE entries[l]]
    BY <1>6 DEF FinishWriteAndReserveRead, finish_write_and_reserve_read
  <2>2. k \in keys => entries'[k] = [entries[k] EXCEPT !.write_locked = FALSE,
                                                       !.read_count = @ + 1]
    BY <2>1
  <2>3. k \notin keys => entries'[k] = entries[k]
    BY <2>1
  <2> QED BY <2>2, <2>3, PublishedEntry
<1>7. CASE \E keys \in SUBSET Keys, c \in Clients : ReserveRead(c, keys)
  BY <1>7 DEF ReserveRead, reserve_read
<1>8. CASE \E keys \in SUBSET Keys, c \in Clients : FinishRead(c, keys)
  BY <1>8 DEF FinishRead, finish_read
<1>9. CASE \E keys \in SUBSET Keys, c \in Clients : Discard(c, keys)
  BY <1>9 DEF Discard, delete, RemoveEntries, Restrict
<1>10. CASE \E c \in Clients, l \in Keys : Fill(c, l)
  BY <1>10 DEF Fill
<1>11. CASE \E c \in Clients, list \in KeyLists : ReserveReadPrefix(c, list)
  BY <1>11 DEF ReserveReadPrefix, reserve_read_prefix, reserve_read
<1>12. CASE UNCHANGED vars
  BY <1>12 DEF vars, l1Vars
<1> QED
  BY <1>1, <1>2, <1>3, <1>4, <1>5, <1>6, <1>7, <1>8, <1>9, <1>10, <1>11, <1>12
  DEF Next

\* A chunk that is no longer temporary never becomes temporary again: only
\* reserve_write sets the flag, and only on a new entry.
LEMMA PermanentStays ==
  ASSUME IInv, [Next]_vars, NEW k \in DOMAIN entries, k \in DOMAIN entries',
         ~entries[k].is_temporary
  PROVE  ~entries'[k].is_temporary
<1>0. entries[k] \in Entry
  BY DEF IInv, TypeOK
<1> USE <1>0 DEF Entry
<1>1. CASE \E keys \in SUBSET Keys, nbytes \in Sizes : ReserveWriteNone(keys, nbytes)
  BY <1>1 DEF ReserveWriteNone, reserve_write_none
<1>2. CASE \E keys \in SUBSET Keys : Promote(keys)
  BY <1>2 DEF Promote, promote
<1>3. CASE \E keys \in SUBSET Keys : Evict(keys)
  BY <1>3 DEF Evict, delete, RemoveEntries, Restrict
<1>4. CASE \E keys \in SUBSET Keys, c \in Clients, nbytes \in Sizes, is_temporary \in BOOLEAN :
             ReserveWrite(c, keys, nbytes, is_temporary)
  BY <1>4 DEF ReserveWrite, reserve_write
<1>5. CASE \E keys \in SUBSET Keys, c \in Clients : FinishWrite(c, keys)
  BY <1>5 DEF FinishWrite, finish_write
<1>6. CASE \E keys \in SUBSET Keys, c \in Clients : FinishWriteAndReserveRead(c, keys)
  <2>1. PICK keys \in SUBSET Keys :
          entries' = [l \in DOMAIN entries |->
                        IF l \in keys
                        THEN [entries[l] EXCEPT !.write_locked = FALSE,
                                                !.read_count = @ + 1]
                        ELSE entries[l]]
    BY <1>6 DEF FinishWriteAndReserveRead, finish_write_and_reserve_read
  <2>2. k \in keys => entries'[k] = [entries[k] EXCEPT !.write_locked = FALSE,
                                                       !.read_count = @ + 1]
    BY <2>1
  <2>3. k \notin keys => entries'[k] = entries[k]
    BY <2>1
  <2> QED BY <2>2, <2>3, PublishedEntry
<1>7. CASE \E keys \in SUBSET Keys, c \in Clients : ReserveRead(c, keys)
  BY <1>7 DEF ReserveRead, reserve_read
<1>8. CASE \E keys \in SUBSET Keys, c \in Clients : FinishRead(c, keys)
  BY <1>8 DEF FinishRead, finish_read
<1>9. CASE \E keys \in SUBSET Keys, c \in Clients : Discard(c, keys)
  BY <1>9 DEF Discard, delete, RemoveEntries, Restrict
<1>10. CASE \E c \in Clients, l \in Keys : Fill(c, l)
  BY <1>10 DEF Fill
<1>11. CASE \E c \in Clients, list \in KeyLists : ReserveReadPrefix(c, list)
  BY <1>11 DEF ReserveReadPrefix, reserve_read_prefix, reserve_read
<1>12. CASE UNCHANGED vars
  BY <1>12 DEF vars, l1Vars
<1> QED
  BY <1>1, <1>2, <1>3, <1>4, <1>5, <1>6, <1>7, <1>8, <1>9, <1>10, <1>11, <1>12
  DEF Next

\* Only Fill writes to the pool.
LEMMA OnlyFillWrites ==
  ASSUME [Next]_vars
  PROVE  pool' = pool \/ \E c \in Clients, l \in Keys : Fill(c, l)
<1> USE DEF poolVars
<1>1. CASE \E keys \in SUBSET Keys, nbytes \in Sizes : ReserveWriteNone(keys, nbytes)
  BY <1>1 DEF ReserveWriteNone, reserve_write_none
<1>2. CASE \E keys \in SUBSET Keys : Promote(keys)
  BY <1>2 DEF Promote, promote
<1>3. CASE \E keys \in SUBSET Keys : Evict(keys)
  BY <1>3 DEF Evict, delete, RemoveEntries
<1>4. CASE \E keys \in SUBSET Keys, c \in Clients, nbytes \in Sizes, is_temporary \in BOOLEAN :
             ReserveWrite(c, keys, nbytes, is_temporary)
  BY <1>4 DEF ReserveWrite, reserve_write
<1>5. CASE \E keys \in SUBSET Keys, c \in Clients : FinishWrite(c, keys)
  BY <1>5 DEF FinishWrite, finish_write
<1>6. CASE \E keys \in SUBSET Keys, c \in Clients : FinishWriteAndReserveRead(c, keys)
  BY <1>6 DEF FinishWriteAndReserveRead, finish_write_and_reserve_read
<1>7. CASE \E keys \in SUBSET Keys, c \in Clients : ReserveRead(c, keys)
  BY <1>7 DEF ReserveRead, reserve_read
<1>8. CASE \E keys \in SUBSET Keys, c \in Clients : FinishRead(c, keys)
  BY <1>8 DEF FinishRead, finish_read
<1>9. CASE \E keys \in SUBSET Keys, c \in Clients : Discard(c, keys)
  BY <1>9 DEF Discard, delete, RemoveEntries
<1>10. CASE \E c \in Clients, list \in KeyLists : ReserveReadPrefix(c, list)
  BY <1>10 DEF ReserveReadPrefix, reserve_read_prefix, reserve_read
<1>11. CASE UNCHANGED vars
  BY <1>11 DEF vars, l1Vars
<1> QED
  BY <1>1, <1>2, <1>3, <1>4, <1>5, <1>6, <1>7, <1>8, <1>9, <1>10, <1>11
  DEF Next

\* A step keeps the slice and the bytes of what a client holds before and
\* after it: only Fill writes, and it writes to a locked chunk's slice.
LEMMA HeldIsStable ==
  ASSUME IInv, [Next]_vars
  PROVE  \A c \in Clients : \A k \in holds[c] \cap holds'[c] :
           /\ entries'[k].obj = entries[k].obj
           /\ \A b \in Slice(entries[k].obj) : pool'[b] = pool[b]
<1> SUFFICES ASSUME NEW c \in Clients, NEW k \in holds[c] \cap holds'[c]
             PROVE  /\ entries'[k].obj = entries[k].obj
                    /\ \A b \in Slice(entries[k].obj) : pool'[b] = pool[b]
  OBVIOUS
<1>1. IInv'
  BY NextPreserves
<1>2. k \in DOMAIN entries /\ ~entries[k].write_locked /\ k \in DOMAIN entries'
  BY <1>1 DEF IInv, CountsMatchHolds, readable
<1>3. entries'[k].obj = entries[k].obj
  BY <1>2, SliceKept
<1>4. CASE pool' = pool
  BY <1>3, <1>4
<1>5. CASE \E d \in Clients, l \in Keys : Fill(d, l)
  <2>1. PICK d \in Clients, l \in Keys : Fill(d, l)
    BY <1>5
  <2>2. l \in DOMAIN entries /\ entries[l].write_locked
    BY <2>1 DEF Fill, IInv, WriterExclusive
  <2>3. Apart(entries[k].obj, entries[l].obj)
    BY <1>2, <2>2 DEF IInv, SlicesDisjoint
  <2>4. /\ entries[k].obj.offset \in Nat /\ entries[k].obj.nbytes \in Nat \ {0}
        /\ entries[l].obj.offset \in Nat /\ entries[l].obj.nbytes \in Nat \ {0}
    BY <1>2, <2>2, PoolAssumption DEF IInv, TypeOK, Entry, MemoryObj
  <2>5. Slice(entries[k].obj) \cap Slice(entries[l].obj) = {}
    BY <2>3, <2>4 DEF Apart, Slice
  <2>6. entries[k].obj.offset + entries[k].obj.nbytes <= Capacity
    <3>1. entries[k].obj \in Live
      BY <1>2 DEF Live
    <3>2. entries[k].obj.offset + entries[k].obj.nbytes <= brk
      BY <3>1 DEF IInv, SlicesDisjoint
    <3>3. brk \in 0 .. Capacity
      BY DEF IInv, TypeOK
    <3> QED BY <2>4, <3>2, <3>3, PoolAssumption
  <2>7. Slice(entries[k].obj) \subseteq DOMAIN pool
    BY <2>4, <2>6, PoolAssumption DEF Slice, IInv, TypeOK
  <2>8. \A b \in DOMAIN pool :
          pool'[b] = IF b \in Slice(entries[l].obj) THEN l ELSE pool[b]
    BY <2>1 DEF Fill, write_bytes
  <2> QED BY <1>3, <2>5, <2>7, <2>8
<1> QED BY <1>4, <1>5, OnlyFillWrites

\* The bytes a reader was handed by L1Manager.read stay where they are and
\* what they are until it drops its hold, whatever the writers, the evictor
\* and the other readers do.
THEOREM HeldSlicesAreStable == Spec => StableWhileHeld
<1>1. IInv /\ [Next]_vars =>
        \A c \in Clients : \A k \in holds[c] \cap holds'[c] :
           /\ entries'[k].obj = entries[k].obj
           /\ \A b \in Slice(entries[k].obj) : pool'[b] = pool[b]
  BY HeldIsStable
<1> QED BY <1>1, Invariance, PTL DEF Spec, StableWhileHeld

(***************************************************************************)
(* Accounting.  The size of a set of slices is a fold over it; it equals   *)
(* the number of pairs of a slice and one of its bytes, so what is known   *)
(* of cardinalities carries over to it.                                    *)
(***************************************************************************)

SizeOf(objs) == MapThenSumSet(LAMBDA o : o.nbytes, objs)

Measured(objs) == IsFiniteSet(objs) /\ \A o \in objs : o.nbytes \in Nat

Units(objs) == UNION {{o} \X (1 .. o.nbytes) : o \in objs}

\* A nonempty set of naturals has a least element.
LEMMA LeastNat ==
  ASSUME NEW T, T \subseteq Nat, T # {}
  PROVE  \E x \in T : \A y \in T : ~(y < x)
<1>1. IsWellFoundedOn(OpToRel(<, Nat), Nat)
  BY NatLessThanWellFounded
<1>2. PICK x \in T : \A y \in T : ~(<<y, x>> \in OpToRel(<, Nat))
  BY <1>1, WFMin
<1>3. \A y \in T : <<y, x>> \in OpToRel(<, Nat) <=> y < x
  BY DEF OpToRel
<1> QED BY <1>2, <1>3

\* The units of finitely many slices can be counted.
LEMMA UnitsFinite ==
  ASSUME NEW S, Measured(S)
  PROVE  IsFiniteSet(Units(S)) /\ Cardinality(Units(S)) \in Nat
<1> DEFINE C == {{o} \X (1 .. o.nbytes) : o \in S}
           f == [o \in S |-> {o} \X (1 .. o.nbytes)]
<1>1. f \in Surjection(S, C)
  BY DEF Surjection
<1>2. IsFiniteSet(C)
  BY <1>1, FS_Surjection DEF Measured
<1>3. ASSUME NEW o \in S PROVE IsFiniteSet({o} \X (1 .. o.nbytes))
  <2>1. IsFiniteSet({o})
    BY FS_Singleton
  <2>2. o.nbytes \in Int
    BY DEF Measured
  <2>3. IsFiniteSet(1 .. o.nbytes)
    BY <2>2, FS_Interval
  <2> QED BY <2>1, <2>3, FS_Product
<1>4. \A T \in C : IsFiniteSet(T)
  BY <1>3
<1>5. IsFiniteSet(UNION C)
  BY <1>2, <1>4, FS_UNION
<1>6. IsFiniteSet(Units(S))
  BY <1>5 DEF Units
<1> QED BY <1>6, FS_CardinalityType

\* Units of disjoint sets add up.
LEMMA UnitsAdd ==
  ASSUME NEW S, Measured(S), NEW T, Measured(T), S \cap T = {}
  PROVE  Cardinality(Units(S \cup T)) = Cardinality(Units(S)) + Cardinality(Units(T))
<1>1. Units(S \cup T) = Units(S) \cup Units(T)
  BY DEF Units
<1>2. Units(S) \cap Units(T) = {}
  <2> SUFFICES ASSUME NEW u \in Units(S), u \in Units(T) PROVE FALSE
    OBVIOUS
  <2>1. PICK o \in S : u \in {o} \X (1 .. o.nbytes)
    BY DEF Units
  <2>2. PICK p \in T : u \in {p} \X (1 .. p.nbytes)
    BY DEF Units
  <2> QED BY <2>1, <2>2
<1>3. IsFiniteSet(Units(S)) /\ IsFiniteSet(Units(T))
  BY UnitsFinite
<1>4. /\ Cardinality(Units(S)) \in Nat
      /\ Cardinality(Units(T)) \in Nat
  BY UnitsFinite
<1>5. Cardinality(Units(S) \cup Units(T)) =
        Cardinality(Units(S)) + Cardinality(Units(T)) - Cardinality({})
  BY <1>2, <1>3, FS_Union
<1>6. Cardinality({}) = 0
  BY FS_EmptySet
<1>7. Cardinality(Units(S) \cup Units(T)) =
        Cardinality(Units(S)) + Cardinality(Units(T))
  BY <1>4, <1>5, <1>6
<1> QED BY <1>1, <1>7

\* A slice has as many units as bytes.
LEMMA UnitsOfOne ==
  ASSUME NEW o, o.nbytes \in Nat
  PROVE  Measured({o}) /\ Cardinality(Units({o})) = o.nbytes
<1>1. Units({o}) = {o} \X (1 .. o.nbytes)
  BY DEF Units
<1>2. IsFiniteSet({o}) /\ Cardinality({o}) = 1
  BY FS_Singleton
<1> DEFINE n == o.nbytes
<1>0. n \in Nat
  OBVIOUS
<1>3. IsFiniteSet(1 .. n) /\ Cardinality(1 .. n) = n
  BY <1>0, FS_Interval
<1>4. Cardinality({o} \X (1 .. n)) = Cardinality({o}) * Cardinality(1 .. n)
  BY <1>2, <1>3, FS_Product
<1>5. Measured({o})
  BY <1>2 DEF Measured
<1> HIDE DEF n
<1>6. Cardinality({o} \X (1 .. n)) = n
  BY <1>0, <1>2, <1>3, <1>4
<1>7. Cardinality(Units({o})) = n
  BY <1>1, <1>6 DEF n
<1> QED BY <1>5, <1>7 DEF n

\* The fold over a finite set of slices counts their units.
LEMMA SizeIsUnits ==
  ASSUME NEW S, Measured(S)
  PROVE  SizeOf(S) = Cardinality(Units(S))
<1> DEFINE pick(s) == CHOOSE y \in s : TRUE
           step(it) == [s \in SUBSET S |->
                          IF s = {} THEN 0 ELSE pick(s).nbytes + it[s \ {pick(s)}]]
           count == [s \in SUBSET S |-> Cardinality(Units(s))]
           iter == CHOOSE it : it = step(it)
<1>1. SizeOf(S) = iter[S]
  BY DEF SizeOf, MapThenSumSet, MapThenFoldSet
<1>2. \A s \in SUBSET S : Measured(s)
  BY FS_Subset DEF Measured
<1>3. \A s \in SUBSET S : s # {} => pick(s) \in s
  OBVIOUS
<1> HIDE DEF pick
<1>4. Cardinality(Units({})) = 0
  <2>1. Units({}) = {}
    BY DEF Units
  <2> QED BY <2>1, FS_EmptySet
<1>5. ASSUME NEW s \in SUBSET S, s # {}
      PROVE  Cardinality(Units(s)) =
               pick(s).nbytes + Cardinality(Units(s \ {pick(s)}))
  <2>1. pick(s) \in s /\ pick(s).nbytes \in Nat
    BY <1>2, <1>3, <1>5 DEF Measured
  <2>2. Measured(s \ {pick(s)})
    BY <1>2
  <2>3. Measured({pick(s)}) /\ Cardinality(Units({pick(s)})) = pick(s).nbytes
    BY <2>1, UnitsOfOne
  <2>4. s = {pick(s)} \cup (s \ {pick(s)})
    BY <2>1
  <2>5. {pick(s)} \cap (s \ {pick(s)}) = {}
    OBVIOUS
  <2>6. Cardinality(Units({pick(s)} \cup (s \ {pick(s)}))) =
          Cardinality(Units({pick(s)})) + Cardinality(Units(s \ {pick(s)}))
    BY <2>2, <2>3, <2>5, UnitsAdd
  <2> QED BY <2>3, <2>4, <2>6
<1>6. count = step(count)
  <2>1. \A s \in SUBSET S : s \ {pick(s)} \in SUBSET S
    OBVIOUS
  <2>2. \A s \in SUBSET S :
          Cardinality(Units(s)) =
            IF s = {} THEN 0 ELSE pick(s).nbytes + count[s \ {pick(s)}]
    BY <1>4, <1>5, <2>1
  <2> QED BY <2>2
<1>7. iter = step(iter)
  BY <1>6
<1> HIDE DEF iter
<1>8. ASSUME NEW s0 \in SUBSET S, iter[s0] # Cardinality(Units(s0))
      PROVE  FALSE
  <2> DEFINE Bad == {n \in Nat : \E s \in SUBSET S :
                       Cardinality(s) = n /\ iter[s] # Cardinality(Units(s))}
  <2>1. \A s \in SUBSET S : IsFiniteSet(s) /\ Cardinality(s) \in Nat
    BY <1>2, FS_CardinalityType DEF Measured
  <2>2. Bad # {} /\ Bad \subseteq Nat
    BY <1>8, <2>1
  <2>3. PICK n \in Bad : \A m \in Bad : ~(m < n)
    BY <2>2, LeastNat
  <2>4. PICK s \in SUBSET S :
          Cardinality(s) = n /\ iter[s] # Cardinality(Units(s))
    OBVIOUS
  <2>5. iter[s] = IF s = {} THEN 0 ELSE pick(s).nbytes + iter[s \ {pick(s)}]
    BY <1>7
  <2>6. s # {}
    BY <1>4, <2>4, <2>5
  <2>7. /\ s \ {pick(s)} \in SUBSET S
        /\ Cardinality(s \ {pick(s)}) = n - 1
        /\ n - 1 \in Nat
    <3>1. pick(s) \in s
      BY <1>3, <2>6
    <3>2. Cardinality(s \ {pick(s)}) = Cardinality(s) - 1
      BY <2>1, <3>1, FS_RemoveElement
    <3>3. s \ {pick(s)} \in SUBSET S
      OBVIOUS
    <3>4. Cardinality(s \ {pick(s)}) \in Nat
      BY <2>1, <3>3
    <3> QED BY <2>4, <3>2, <3>3, <3>4
  <2>8. n - 1 \notin Bad
    BY <2>3, <2>7
  <2>9. iter[s \ {pick(s)}] = Cardinality(Units(s \ {pick(s)}))
    BY <2>7, <2>8
  <2> QED BY <1>5, <2>4, <2>5, <2>6, <2>9
<1> QED BY <1>1, <1>8

\* The size of disjoint sets of slices is the sum of their sizes.
LEMMA SizeAdds ==
  ASSUME NEW S, Measured(S), NEW T, Measured(T), S \cap T = {}
  PROVE  /\ SizeOf(S \cup T) = SizeOf(S) + SizeOf(T)
         /\ SizeOf(S) \in Nat
         /\ SizeOf(T) \in Nat
<1>1. Measured(S \cup T)
  BY FS_Union DEF Measured
<1> QED BY <1>1, SizeIsUnits, UnitsAdd, UnitsFinite

\* The size of slices of one size is their number times it.
LEMMA SizeUniform ==
  ASSUME NEW S, IsFiniteSet(S), NEW n \in Nat, \A o \in S : o.nbytes = n
  PROVE  SizeOf(S) = Cardinality(S) * n
<1>1. Measured(S)
  BY DEF Measured
<1>2. Units(S) = S \X (1 .. n)
  BY DEF Units
<1>3. IsFiniteSet(1 .. n) /\ Cardinality(1 .. n) = n
  BY FS_Interval
<1>4. Cardinality(S \X (1 .. n)) = Cardinality(S) * Cardinality(1 .. n)
  BY <1>3, FS_Product
<1> QED BY <1>1, <1>2, <1>3, <1>4, SizeIsUnits

\* The slices of the keys K of a table E whose slices do not overlap.
SlicesOf(E, K) == {E[k].obj : k \in K}

Laid(E) ==
  /\ IsFiniteSet(DOMAIN E)
  /\ \A k \in DOMAIN E : E[k].obj.offset \in Nat /\ E[k].obj.nbytes \in Nat \ {0}
  /\ \A k, l \in DOMAIN E : k # l => Apart(E[k].obj, E[l].obj)

\* The slices of a reachable table do not overlap.
LEMMA EntriesLaid ==
  ASSUME TypeOK, SlicesDisjoint
  PROVE  Laid(entries)
<1>1. IsFiniteSet(DOMAIN entries)
  BY FS_Subset, PoolAssumption DEF TypeOK
<1>2. \A k \in DOMAIN entries :
        entries[k].obj.offset \in Nat /\ entries[k].obj.nbytes \in Nat \ {0}
  BY PoolAssumption DEF TypeOK, Entry, MemoryObj
<1> QED BY <1>1, <1>2 DEF Laid, SlicesDisjoint

\* So is the table after a step.
LEMMA EntriesLaidNext ==
  (TypeOK /\ SlicesDisjoint)' => Laid(entries')
<1>1. TypeOK /\ SlicesDisjoint => Laid(entries)
  BY EntriesLaid
<1>2. (TypeOK /\ SlicesDisjoint => Laid(entries))'
  BY <1>1, PTL
<1> QED BY <1>2

\* Distinct keys of such a table have distinct slices.
LEMMA SlicesCount ==
  ASSUME NEW E, Laid(E), NEW K \in SUBSET DOMAIN E
  PROVE  /\ Measured(SlicesOf(E, K))
         /\ Cardinality(SlicesOf(E, K)) = Cardinality(K)
<1> DEFINE f == [k \in K |-> E[k].obj]
<1>1. \A k, l \in K : E[k].obj = E[l].obj => k = l
  BY DEF Laid, Apart
<1>2. f \in Bijection(K, SlicesOf(E, K))
  BY <1>1 DEF Bijection, Injection, Surjection, IsInjective, SlicesOf
<1>3. IsFiniteSet(K)
  BY FS_Subset DEF Laid
<1>4. ExistsBijection(K, SlicesOf(E, K))
  BY <1>2 DEF ExistsBijection
<1>5. /\ IsFiniteSet(SlicesOf(E, K))
      /\ Cardinality(SlicesOf(E, K)) = Cardinality(K)
  BY <1>3, <1>4, FS_Bijection
<1>6. \A o \in SlicesOf(E, K) : o.nbytes \in Nat
  BY DEF Laid, SlicesOf
<1> QED BY <1>5, <1>6 DEF Measured

\* The size of the slices of two disjoint sets of keys is the sum of theirs.
LEMMA SlicesSizeAdds ==
  ASSUME NEW E, Laid(E), NEW A \in SUBSET DOMAIN E, NEW B \in SUBSET DOMAIN E,
         A \cap B = {}
  PROVE  /\ SizeOf(SlicesOf(E, A \cup B)) =
              SizeOf(SlicesOf(E, A)) + SizeOf(SlicesOf(E, B))
         /\ SizeOf(SlicesOf(E, A)) \in Nat
         /\ SizeOf(SlicesOf(E, B)) \in Nat
<1>1. SlicesOf(E, A \cup B) = SlicesOf(E, A) \cup SlicesOf(E, B)
  BY DEF SlicesOf
<1>2. SlicesOf(E, A) \cap SlicesOf(E, B) = {}
  BY DEF SlicesOf, Laid, Apart
<1>3. Measured(SlicesOf(E, A)) /\ Measured(SlicesOf(E, B))
  BY SlicesCount
<1> QED BY <1>1, <1>2, <1>3, SizeAdds

-----------------------------------------------------------------------------

(***************************************************************************)
(* What is inductive about BytesConserved: used_bytes is the size of the   *)
(* live slices, and every byte below the bump pointer lies in a live or a  *)
(* free slice.  That the sizes add up to brk follows, because the slices   *)
(* do not overlap.                                                         *)
(***************************************************************************)
Tiled ==
  \A b \in 0 .. (brk - 1) : \E a \in Live \cup Free : b \in Slice(a)

Accounted == used_bytes = SizeOf(Live) /\ Tiled

\* A step that moves no slice keeps the account.
LEMMA AccountStays ==
  ASSUME Accounted, DOMAIN entries' = DOMAIN entries,
         \A k \in DOMAIN entries : entries'[k].obj = entries[k].obj,
         UNCHANGED <<brk, free_segments, used_bytes>>
  PROVE  Accounted'
<1>1. Live' = Live
  BY DEF Live
<1>2. Free' = Free
  BY DEF Free
<1>3. Tiled'
  BY <1>1, <1>2 DEF Accounted, Tiled
<1> QED BY <1>1, <1>3 DEF Accounted

\* So does a step that frees slices: they go from the live ones to the free
\* ones, and used_bytes falls by their size.
LEMMA AccountFreed ==
  ASSUME TypeOK, SlicesDisjoint, Accounted, NEW gone \in SUBSET DOMAIN entries,
         DOMAIN entries' = DOMAIN entries \ gone,
         \A k \in DOMAIN entries' : entries'[k].obj = entries[k].obj,
         free({entries[k].obj : k \in gone})
  PROVE  Accounted'
<1> DEFINE kept == DOMAIN entries \ gone
<1>1. Live = SlicesOf(entries, kept \cup gone)
  BY DEF Live, SlicesOf
<1>2. Live' = SlicesOf(entries, kept)
  BY DEF Live, SlicesOf
<1>3. used_bytes' = used_bytes - SizeOf(SlicesOf(entries, gone))
  BY DEF free, SizeOf, SlicesOf
<1>4. /\ SizeOf(SlicesOf(entries, kept \cup gone)) =
           SizeOf(SlicesOf(entries, kept)) + SizeOf(SlicesOf(entries, gone))
      /\ SizeOf(SlicesOf(entries, kept)) \in Nat
      /\ SizeOf(SlicesOf(entries, gone)) \in Nat
  BY EntriesLaid, SlicesSizeAdds
<1>5. used_bytes = SizeOf(Live)
  BY DEF Accounted
<1>6. used_bytes' = SizeOf(Live')
  BY <1>1, <1>2, <1>3, <1>4, <1>5
<1>7. \A a \in Live \cup Free : a \in Live' \cup Free'
  <2>1. ASSUME NEW k \in gone PROVE entries[k].obj \in Free'
    <3> DEFINE o == entries[k].obj
    <3>1. o \in MemoryObj
      BY DEF TypeOK, Entry
    <3>2. o.nbytes \in Sizes /\ o = [offset |-> o.offset, nbytes |-> o.nbytes]
      BY <3>1 DEF MemoryObj
    <3>3. o.offset \in free_segments'[o.nbytes]
      BY <3>2 DEF free
    <3> QED BY <3>2, <3>3, FreeSlicesNext
  <2>2. ASSUME NEW a \in Free PROVE a \in Free'
    <3>1. PICK n \in Sizes : \E o \in free_segments[n] :
            a = [offset |-> o, nbytes |-> n]
      BY FreeSlices
    <3>2. PICK o \in free_segments[n] : a = [offset |-> o, nbytes |-> n]
      BY <3>1
    <3>3. o \in free_segments'[n]
      BY DEF free
    <3> QED BY <3>2, <3>3, FreeSlicesNext
  <2>3. \A k \in kept : entries[k].obj \in Live'
    BY DEF Live
  <2> QED BY <2>1, <2>2, <2>3 DEF Live
<1>8. brk' = brk
  BY DEF free
<1>9. Tiled'
  BY <1>7, <1>8 DEF Accounted, Tiled
<1> QED BY <1>6, <1>9 DEF Accounted

\* The multiples of nbytes below n * nbytes are at most nbytes apart.
LEMMA MultipleBelow ==
  ASSUME NEW nbytes \in Nat \ {0}, NEW n \in Nat, NEW d \in Nat, d < n * nbytes
  PROVE  \E i \in 0 .. (n - 1) : i * nbytes <= d /\ d < i * nbytes + nbytes
<1> DEFINE i == d \div nbytes
<1>0. n * nbytes \in Nat
  OBVIOUS
<1>1. i \in Nat /\ nbytes * i <= d /\ d < nbytes * i + nbytes
  <2>1. nbytes * (d \div nbytes) <= d
    OBVIOUS
  <2>2. d < nbytes * (d \div nbytes) + nbytes
    OBVIOUS
  <2>3. d \div nbytes \in Nat
    BY DivNat
  <2> QED BY <2>1, <2>2, <2>3
<1> HIDE DEF i
<1>2. i < n
  <2> SUFFICES ASSUME n <= i PROVE FALSE
    BY <1>1
  <2>1. i - n \in Nat /\ (i - n) * nbytes \in Nat
    BY <1>1
  <2>2. (i - n) * nbytes = nbytes * i - n * nbytes
    BY <1>1
  <2>3. nbytes * i \in Nat
    BY <1>1
  <2> QED BY <1>0, <1>1, <2>1, <2>2, <2>3
<1>3. i * nbytes = nbytes * i
  BY <1>1
<1> QED BY <1>1, <1>2, <1>3

\* Bounds keep when everything moves by base.
LEMMA Shifted ==
  ASSUME NEW base \in Nat, NEW b \in Int, NEW p \in Nat, NEW m \in Nat,
         p <= b - base, b - base < p + m
  PROVE  base + p <= b /\ b <= base + p + m - 1
OBVIOUS

\* The slices a bump of n yields cover what the bump pointer passes.
LEMMA BumpCovers ==
  ASSUME TypeOK, NEW nbytes \in Sizes, NEW n \in Nat, brk' = brk + n * nbytes,
         NEW b \in 0 .. (brk' - 1), brk <= b
  PROVE  \E o \in Bumped(n, nbytes) : b \in Slice([offset |-> o, nbytes |-> nbytes])
<1>1. nbytes \in Nat \ {0} /\ brk \in Nat
  BY PoolAssumption DEF TypeOK
<1> DEFINE m == n * nbytes
<1>2. m \in Nat /\ brk' = brk + m
  BY <1>1
<1>3. n * nbytes = m
  OBVIOUS
<1> HIDE DEF m
<1>4. b \in Int /\ b - brk \in Nat /\ b - brk < m
  BY <1>1, <1>2
<1>5. PICK i \in 0 .. (n - 1) : i * nbytes <= b - brk /\ b - brk < i * nbytes + nbytes
  BY <1>1, <1>3, <1>4, MultipleBelow
<1>6. i * nbytes \in Nat
  BY <1>1
<1> DEFINE o == brk + i * nbytes
<1>7. o <= b /\ b <= o + nbytes - 1
  BY <1>1, <1>4, <1>5, <1>6, Shifted
<1>8. o \in Nat
  BY <1>1, <1>6
<1>9. o \in Bumped(n, nbytes)
  BY DEF Bumped
<1> HIDE DEF o
<1>10. b \in o .. (o + nbytes - 1)
  BY <1>1, <1>4, <1>7, <1>8
<1> QED BY <1>9, <1>10 DEF Slice

\* A reserve_write that succeeds keeps the account: the slices of the new
\* entries are as many as used_bytes says, and what the bump pointer passed
\* is among them.
LEMMA AccountReserved ==
  ASSUME TypeOK, SlicesDisjoint, TypeOK', SlicesDisjoint', Accounted,
         NEW keys \in SUBSET Keys, NEW nbytes \in Sizes,
         NEW is_temporary \in BOOLEAN, reserve_write(keys, nbytes, is_temporary)
  PROVE  Accounted'
<1> DEFINE missing == Missing(keys)
           count == Cardinality(missing)
           n == count - Reused(count, nbytes)
           New(o) == [offset |-> o, nbytes |-> nbytes]
<1>1. PICK taken \in Allocations(count, nbytes) :
        /\ allocate(count, nbytes, taken)
        /\ \E slot \in Bijection(missing, taken) :
             entries' = [k \in DOMAIN entries \cup keys |->
                           IF k \in DOMAIN entries THEN entries[k]
                           ELSE NewEntry(New(slot[k]), is_temporary)]
  BY DEF reserve_write
<1>2. PICK slot \in Bijection(missing, taken) :
        entries' = [k \in DOMAIN entries \cup keys |->
                      IF k \in DOMAIN entries THEN entries[k]
                      ELSE NewEntry(New(slot[k]), is_temporary)]
  BY <1>1
<1>3. slot \in [missing -> taken] /\ \A o \in taken : \E k \in missing : slot[k] = o
  BY DEF Bijection, Injection, Surjection
<1>4. /\ DOMAIN entries' = DOMAIN entries \cup missing
      /\ \A k \in DOMAIN entries : entries'[k].obj = entries[k].obj
      /\ \A k \in missing : entries'[k].obj = New(slot[k])
      /\ DOMAIN entries \cap missing = {}
  BY <1>2, <1>3 DEF NewEntry, Missing
<1>5. /\ free_segments' = [free_segments EXCEPT ![nbytes] = @ \ taken]
      /\ brk' = brk + n * nbytes
      /\ used_bytes' = used_bytes + count * nbytes
  BY <1>1 DEF allocate
<1>6. PICK reused \in SUBSET free_segments[nbytes] :
        taken = reused \cup Bumped(n, nbytes)
  BY <1>1 DEF allocate, Allocations, kSubset
<1>7. count \in Nat
  <2>1. IsFiniteSet(missing)
    BY FS_Subset, PoolAssumption DEF Missing
  <2> QED BY <2>1, FS_CardinalityType
<1>8. n \in Nat
  BY <1>7, ReusedBound
<1>9. used_bytes' = SizeOf(Live')
  <2>1. Laid(entries')
    BY EntriesLaidNext
  <2>2. Live' = SlicesOf(entries', DOMAIN entries \cup missing)
    BY <1>4 DEF Live, SlicesOf
  <2>3. SlicesOf(entries', DOMAIN entries) = Live
    BY <1>4 DEF Live, SlicesOf
  <2>4. /\ SizeOf(Live') = SizeOf(Live) + SizeOf(SlicesOf(entries', missing))
        /\ SizeOf(Live) \in Nat
    BY <1>4, <2>1, <2>2, <2>3, SlicesSizeAdds
  <2>5. /\ IsFiniteSet(SlicesOf(entries', missing))
        /\ Cardinality(SlicesOf(entries', missing)) = count
    <3>1. missing \in SUBSET DOMAIN entries'
      BY <1>4
    <3> HIDE DEF missing
    <3> QED BY <2>1, <3>1, SlicesCount DEF Measured
  <2>6. \A o \in SlicesOf(entries', missing) : o.nbytes = nbytes
    <3>1. ASSUME NEW k \in missing PROVE entries'[k].obj.nbytes = nbytes
      <4>1. entries'[k].obj = New(slot[k])
        BY <1>4
      <4>2. New(slot[k]).nbytes = nbytes
        OBVIOUS
      <4> HIDE DEF New
      <4> QED BY <4>1, <4>2
    <3> HIDE DEF missing
    <3> QED BY <3>1 DEF SlicesOf
  <2>7. SizeOf(SlicesOf(entries', missing)) = count * nbytes
    <3>1. nbytes \in Nat
      BY PoolAssumption
    <3> HIDE DEF missing, count
    <3> QED BY <2>5, <2>6, <3>1, SizeUniform
  <2> QED BY <1>5, <2>4, <2>7 DEF Accounted
<1>10. \A o \in taken : New(o) \in Live'
  BY <1>3, <1>4 DEF Live
<1>11. \A a \in Live \cup Free : a \in Live' \cup Free'
  <2>1. \A a \in Live : a \in Live'
    BY <1>4 DEF Live
  <2>2. ASSUME NEW a \in Free PROVE a \in Live' \cup Free'
    <3>1. PICK m \in Sizes : \E o \in free_segments[m] :
            a = [offset |-> o, nbytes |-> m]
      BY FreeSlices
    <3>2. PICK o \in free_segments[m] : a = [offset |-> o, nbytes |-> m]
      BY <3>1
    <3>3. CASE m = nbytes /\ o \in taken
      BY <1>10, <3>2, <3>3
    <3>4. CASE ~(m = nbytes /\ o \in taken)
      <4>1. o \in free_segments'[m]
        BY <1>5, <3>4 DEF TypeOK
      <4> QED BY <3>2, <4>1, FreeSlicesNext
    <3> QED BY <3>3, <3>4
  <2> QED BY <2>1, <2>2
<1> HIDE DEF n, count, missing
<1>12. ASSUME NEW b \in 0 .. (brk' - 1)
       PROVE  \E a \in Live' \cup Free' : b \in Slice(a)
  <2>1. brk \in Nat
    BY PoolAssumption DEF TypeOK
  <2>2. CASE b < brk
    <3>1. b \in 0 .. (brk - 1)
      BY <2>1, <2>2
    <3> QED BY <1>11, <3>1 DEF Accounted, Tiled
  <2>3. CASE brk <= b
    <3>1. PICK o \in Bumped(n, nbytes) : b \in Slice(New(o))
      BY <1>5, <1>8, <2>3, BumpCovers
    <3> QED BY <1>6, <1>10, <3>1
  <2> QED BY <2>1, <2>2, <2>3
<1>13. Tiled'
  BY <1>12 DEF Tiled, Slice
<1> QED BY <1>9, <1>13 DEF Accounted

\* So does a reserve_write that returns None: what the bump pointer passed
\* is on a free list.
LEMMA AccountRefused ==
  ASSUME TypeOK, Accounted, NEW keys \in SUBSET Keys, NEW nbytes \in Sizes,
         reserve_write_none(keys, nbytes)
  PROVE  Accounted'
<1> DEFINE n == Room(nbytes)
           New(o) == [offset |-> o, nbytes |-> nbytes]
<1>1. nbytes \in Nat \ {0} /\ brk \in Nat /\ Capacity - brk \in Nat
  BY PoolAssumption DEF TypeOK
<1>2. n \in Nat
  BY <1>1, DivNat DEF Room
<1>3. /\ brk' = brk + n * nbytes
      /\ free_segments' =
           [free_segments EXCEPT ![nbytes] = @ \cup Bumped(n, nbytes)]
      /\ entries' = entries
      /\ used_bytes' = used_bytes
  BY DEF reserve_write_none, allocate_none
<1> HIDE DEF n
<1>4. Live' = Live
  BY <1>3 DEF Live
<1>5. \A o \in Bumped(n, nbytes) : New(o) \in Free'
  <2>1. \A o \in Bumped(n, nbytes) : o \in free_segments'[nbytes]
    BY <1>3 DEF TypeOK
  <2> QED BY <2>1, FreeSlicesNext
<1>6. ASSUME NEW a \in Free PROVE a \in Free'
  <2>1. PICK m \in Sizes : \E o \in free_segments[m] :
          a = [offset |-> o, nbytes |-> m]
    BY FreeSlices
  <2>2. PICK o \in free_segments[m] : a = [offset |-> o, nbytes |-> m]
    BY <2>1
  <2>3. o \in free_segments'[m]
    BY <1>3, <2>2 DEF TypeOK
  <2> QED BY <2>2, <2>3, FreeSlicesNext
<1>7. ASSUME NEW b \in 0 .. (brk' - 1)
      PROVE  \E a \in Live' \cup Free' : b \in Slice(a)
  <2>1. CASE b < brk
    <3>1. b \in 0 .. (brk - 1)
      BY <1>1, <2>1
    <3> QED BY <1>4, <1>6, <3>1 DEF Accounted, Tiled
  <2>2. CASE brk <= b
    <3>1. PICK o \in Bumped(n, nbytes) : b \in Slice(New(o))
      BY <1>2, <1>3, <2>2, BumpCovers
    <3> QED BY <1>5, <3>1
  <2> QED BY <1>1, <2>1, <2>2
<1>8. Tiled'
  BY <1>7 DEF Tiled, Slice
<1> QED BY <1>3, <1>4, <1>8 DEF Accounted

\* An empty pool is accounted for.
LEMMA AccountInit ==
  ASSUME Init
  PROVE  Accounted
<1>1. /\ DOMAIN entries = {} /\ brk = 0 /\ used_bytes = 0
  BY DEF Init, L1Init, PoolInit
<1>2. Live = {}
  BY <1>1 DEF Live
<1>3. Measured({}) /\ Units({}) = {}
  BY FS_EmptySet DEF Measured, Units
<1>4. SizeOf({}) = Cardinality(Units({}))
  BY <1>3, SizeIsUnits
<1>5. SizeOf({}) = 0
  BY <1>3, <1>4, FS_EmptySet
<1>6. 0 .. (brk - 1) = {}
  BY <1>1
<1> QED BY <1>1, <1>2, <1>5, <1>6 DEF Accounted, Tiled

\* Removing entries keeps the account.
LEMMA AccountRemoved ==
  ASSUME TypeOK, SlicesDisjoint, Accounted, NEW gone \in SUBSET DOMAIN entries,
         RemoveEntries(gone)
  PROVE  Accounted'
<1>1. /\ DOMAIN entries' = DOMAIN entries \ gone
      /\ \A k \in DOMAIN entries' : entries'[k] = entries[k]
      /\ free({entries[k].obj : k \in gone})
  BY DEF RemoveEntries, Restrict
<1> QED BY <1>1, AccountFreed

\* Every step keeps the account.
LEMMA AccountKept ==
  ASSUME IInv, Accounted, [Next]_vars
  PROVE  Accounted'
<1>0. TypeOK /\ SlicesDisjoint /\ TypeOK' /\ SlicesDisjoint'
  BY NextPreserves DEF IInv
<1>a. entries \in [DOMAIN entries -> Entry]
  BY <1>0 DEF TypeOK
<1>1. CASE \E keys \in SUBSET Keys, nbytes \in Sizes : ReserveWriteNone(keys, nbytes)
  BY <1>0, <1>1, AccountRefused DEF ReserveWriteNone
<1>2. CASE \E keys \in SUBSET Keys : Promote(keys)
  <2>1. PICK keys \in SUBSET Keys : promote(keys)
    BY <1>2 DEF Promote
  <2>2. /\ DOMAIN entries' = DOMAIN entries
        /\ \A k \in DOMAIN entries : entries'[k].obj = entries[k].obj
        /\ UNCHANGED <<brk, free_segments, used_bytes>>
    BY <1>a, <2>1 DEF promote, poolVars, Entry
  <2> QED BY <2>2, AccountStays
<1>3. CASE \E keys \in SUBSET Keys : Evict(keys)
  <2>1. PICK keys \in SUBSET Keys : RemoveEntries(Deletable(keys, FALSE))
    BY <1>3 DEF Evict, delete
  <2>2. Deletable(keys, FALSE) \in SUBSET DOMAIN entries
    BY DEF Deletable
  <2> QED BY <1>0, <2>1, <2>2, AccountRemoved
<1>4. CASE \E keys \in SUBSET Keys, c \in Clients, nbytes \in Sizes, is_temporary \in BOOLEAN :
             ReserveWrite(c, keys, nbytes, is_temporary)
  BY <1>0, <1>4, AccountReserved DEF ReserveWrite
<1>5. CASE \E keys \in SUBSET Keys, c \in Clients : FinishWrite(c, keys)
  <2>1. PICK keys \in SUBSET Keys : finish_write(keys)
    BY <1>5 DEF FinishWrite
  <2>2. /\ DOMAIN entries' = DOMAIN entries
        /\ \A k \in DOMAIN entries : entries'[k].obj = entries[k].obj
        /\ UNCHANGED <<brk, free_segments, used_bytes>>
    BY <1>a, <2>1 DEF finish_write, poolVars, Entry
  <2> QED BY <2>2, AccountStays
<1>6. CASE \E keys \in SUBSET Keys, c \in Clients : FinishWriteAndReserveRead(c, keys)
  <2>1. PICK keys \in SUBSET Keys : finish_write_and_reserve_read(keys)
    BY <1>6 DEF FinishWriteAndReserveRead
  <2>2. /\ entries' = [l \in DOMAIN entries |->
                        IF l \in keys
                        THEN [entries[l] EXCEPT !.write_locked = FALSE,
                                                !.read_count = @ + 1]
                        ELSE entries[l]]
        /\ UNCHANGED <<brk, free_segments, used_bytes>>
    BY <2>1 DEF finish_write_and_reserve_read, poolVars
  <2>3. \A k \in DOMAIN entries : entries'[k].obj = entries[k].obj
    BY <1>a, <2>2, PublishedEntry
  <2>4. DOMAIN entries' = DOMAIN entries
    BY <2>2
  <2> QED BY <2>2, <2>3, <2>4, AccountStays
<1>7. CASE \/ \E keys \in SUBSET Keys, c \in Clients : ReserveRead(c, keys)
           \/ \E c \in Clients, list \in KeyLists : ReserveReadPrefix(c, list)
  <2>1. \E keys : reserve_read(keys)
    BY <1>7 DEF ReserveRead, ReserveReadPrefix, reserve_read_prefix
  <2>2. PICK keys : reserve_read(keys)
    BY <2>1
  <2>3. /\ DOMAIN entries' = DOMAIN entries
        /\ \A k \in DOMAIN entries : entries'[k].obj = entries[k].obj
        /\ UNCHANGED <<brk, free_segments, used_bytes>>
    BY <1>a, <2>2 DEF reserve_read, poolVars, Entry
  <2> QED BY <2>3, AccountStays
<1>8. CASE \E keys \in SUBSET Keys, c \in Clients : FinishRead(c, keys)
  <2>1. PICK keys \in SUBSET Keys, c \in Clients :
          keys \subseteq holds[c] /\ finish_read(keys)
    BY <1>8 DEF FinishRead
  <2>2. LastHold(keys) \in SUBSET DOMAIN entries
    BY <2>1 DEF LastHold, IInv, CountsMatchHolds, readable
  <2>3. /\ DOMAIN entries' = DOMAIN entries \ LastHold(keys)
        /\ \A k \in DOMAIN entries' : entries'[k].obj = entries[k].obj
        /\ free({entries[k].obj : k \in LastHold(keys)})
    BY <1>a, <2>1 DEF finish_read, Entry
  <2> QED BY <1>0, <2>2, <2>3, AccountFreed
<1>9. CASE \E keys \in SUBSET Keys, c \in Clients : Discard(c, keys)
  <2>1. PICK keys \in SUBSET Keys : RemoveEntries(Deletable(keys, TRUE))
    BY <1>9 DEF Discard, delete
  <2>2. Deletable(keys, TRUE) \in SUBSET DOMAIN entries
    BY DEF Deletable
  <2> QED BY <1>0, <2>1, <2>2, AccountRemoved
<1>10. CASE \E c \in Clients, k \in Keys : Fill(c, k)
  BY <1>10, AccountStays DEF Fill, allocVars
<1>11. CASE UNCHANGED vars
  BY <1>11, AccountStays DEF vars, l1Vars, poolVars
<1> QED
  BY <1>1, <1>2, <1>3, <1>4, <1>5, <1>6, <1>7, <1>8, <1>9, <1>10, <1>11
  DEF Next

\* Slices that do not overlap and tile 0 .. brk - 1 have brk bytes together.
LEMMA TilingCounts ==
  ASSUME NEW S, NEW n \in Nat,
         \A a \in S : /\ a.offset \in Nat
                      /\ a.nbytes \in Nat \ {0}
                      /\ a.offset + a.nbytes <= n,
         \A a, b \in S : a # b => Apart(a, b),
         \A b \in 0 .. (n - 1) : \E a \in S : b \in Slice(a)
  PROVE  Measured(S) /\ SizeOf(S) = n
<1> DEFINE f == [u \in Units(S) |-> u[1].offset + u[2] - 1]
           g == [a \in S |-> a.offset]
           Bytes == 0 .. (n - 1)
<1>1. IsFiniteSet(Bytes) /\ Cardinality(Bytes) = n
  BY FS_Interval
<1>2. IsFiniteSet(S)
  <2>1. g \in Injection(S, Bytes)
    <3>1. \A a \in S : a.offset \in Bytes
      OBVIOUS
    <3>2. \A a, b \in S : a.offset = b.offset => a = b
      BY DEF Apart
    <3> QED BY <3>1, <3>2 DEF Injection, IsInjective
  <2> QED BY <1>1, <2>1, FS_Injection
<1>3. Measured(S)
  BY <1>2 DEF Measured
<1>4. \A u : u \in Units(S) <=> \E a \in S : \E i \in 1 .. a.nbytes : u = <<a, i>>
  BY DEF Units
<1>5. \A u \in Units(S) : /\ u[1] \in S
                          /\ u[2] \in 1 .. u[1].nbytes
                          /\ u = <<u[1], u[2]>>
  BY <1>4
<1>6. f \in [Units(S) -> Bytes]
  BY <1>5
<1>7. ASSUME NEW u \in Units(S), NEW v \in Units(S), f[u] = f[v]
      PROVE  u = v
  <2>1. u[1].offset + u[2] - 1 = v[1].offset + v[2] - 1
    BY <1>7
  <2>2. u[1] = v[1]
    BY <1>5, <2>1 DEF Apart
  <2>3. u[2] = v[2]
    BY <1>5, <2>1, <2>2
  <2> QED BY <1>5, <2>2, <2>3
<1>8. ASSUME NEW b \in Bytes PROVE \E u \in Units(S) : f[u] = b
  <2>1. PICK a \in S : b \in Slice(a)
    OBVIOUS
  <2>2. a.offset \in Nat /\ a.nbytes \in Nat /\ b \in a.offset .. (a.offset + a.nbytes - 1)
    BY <2>1 DEF Slice
  <2>3. b - a.offset + 1 \in 1 .. a.nbytes
    BY <2>2
  <2> DEFINE u == <<a, b - a.offset + 1>>
  <2>4. u \in Units(S)
    BY <1>4, <2>3
  <2>5. f[u] = b
    BY <2>2, <2>4
  <2> QED BY <2>4, <2>5
<1>9. f \in Bijection(Units(S), Bytes)
  BY <1>6, <1>7, <1>8 DEF Bijection, Injection, Surjection, IsInjective
<1>10. IsFiniteSet(Units(S)) /\ ExistsBijection(Units(S), Bytes)
  BY <1>3, <1>9, UnitsFinite DEF ExistsBijection
<1>11. Cardinality(Units(S)) = n
  BY <1>1, <1>10, FS_Bijection
<1> QED BY <1>3, <1>11, SizeIsUnits

\* The account and the disjointness of the slices give BytesConserved.
LEMMA AccountBalances ==
  ASSUME IInv, Accounted
  PROVE  BytesConserved
<1> DEFINE All == Live \cup Free
<1>1. TypeOK /\ SlicesDisjoint
  BY DEF IInv
<1>2. brk \in Nat
  BY <1>1, PoolAssumption DEF TypeOK
<1>3. \A a \in All : a.nbytes # 0
  <2>1. \A a \in Live : a.nbytes # 0
    BY <1>1, PoolAssumption DEF TypeOK, Entry, MemoryObj, Live
  <2>2. \A a \in Free : a.nbytes # 0
    BY PoolAssumption, FreeSlices
  <2> QED BY <2>1, <2>2
<1>4. \A a \in All : /\ a.offset \in Nat
                     /\ a.nbytes \in Nat \ {0}
                     /\ a.offset + a.nbytes <= brk
  BY <1>1, <1>3, SlicesTyped DEF SlicesDisjoint
<1>5. \A a, b \in All : a # b => Apart(a, b)
  <2>1. \A a, b \in Live : a # b => Apart(a, b)
    BY <1>1 DEF SlicesDisjoint, Live
  <2>2. \A a \in Live, b \in Free : Apart(a, b) /\ Apart(b, a)
    BY <1>1 DEF SlicesDisjoint, Apart
  <2>3. \A a, b \in Free : a # b => Apart(a, b)
    BY <1>1 DEF SlicesDisjoint
  <2> QED BY <2>1, <2>2, <2>3
<1>6. Measured(All) /\ SizeOf(All) = brk
  <2>1. \A b \in 0 .. (brk - 1) : \E a \in All : b \in Slice(a)
    BY DEF Accounted, Tiled
  <2> HIDE DEF All
  <2> QED BY <1>2, <1>4, <1>5, <2>1, TilingCounts
<1>7. Measured(Live) /\ Measured(Free)
  BY <1>6, FS_Subset DEF Measured
<1>8. Live \cap Free = {}
  <2> SUFFICES ASSUME NEW a \in Live, a \in Free PROVE FALSE
    OBVIOUS
  <2>1. Apart(a, a)
    BY <1>1 DEF SlicesDisjoint
  <2> QED BY <1>4, <2>1 DEF Apart
<1>9. brk = SizeOf(Live) + SizeOf(Free)
  BY <1>6, <1>7, <1>8, SizeAdds
<1> QED BY <1>9 DEF Accounted, BytesConserved, SizeOf

\* No sequence of reservations, refusals, releases and evictions loses a
\* byte of the pool or lets used_bytes drift from what is live.
THEOREM NoByteIsLost == Spec => []BytesConserved
<1>1. Init => IInv /\ Accounted
  BY InitEstablishes, AccountInit
<1>2. IInv /\ Accounted /\ [Next]_vars => IInv' /\ Accounted'
  BY NextPreserves, AccountKept
<1>3. IInv /\ Accounted => BytesConserved
  BY AccountBalances
<1> QED BY <1>1, <1>2, <1>3, PTL DEF Spec

=============================================================================
