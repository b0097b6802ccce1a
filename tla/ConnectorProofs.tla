--------------------------- MODULE ConnectorProofs --------------------------
(***************************************************************************)
(* Proofs about Connector, for any requests, block and chunk sizes and     *)
(* numbers of GPU blocks.                                                  *)
(*                                                                         *)
(* The invariant comes in layers, each proved from the ones before it: the *)
(* types (TypeInv), what a request's status means for its tracker, its     *)
(* operations and its loads (StatusInv), what was stored (StoreInv), whose *)
(* block is whose (TableInv), how far a request is and that its blocks     *)
(* suffice (ProgressInv), and which slots hold what (FillInv).             *)
(***************************************************************************)
EXTENDS Connector, SequenceTheorems, FiniteSetTheorems, TLAPS

IsSeq(s) == s \in Seq(ToSet(s))

Tracker ==
  [lmcache_hits : Nat, vllm_hits : Nat, block_ids : Seq(GpuBlocks),
   num_computed_tokens : Nat, num_stored_tokens : Nat,
   lookup_resolved : BOOLEAN, load_pending : BOOLEAN]
Operation ==
  [r : Requests, start : Nat, end : Nat, skip : Int, block_ids : Seq(GpuBlocks)]
Scheduling ==
  [kind : {"new", "resumed", "cached"}, new : Seq(GpuBlocks), computed : Nat, k : Nat]
Load == [op : Operation, at : {"reply", "scatter", "done"}]

VllmType ==
  /\ prompt \in [Requests -> Nat \ {0}]
  /\ status \in [Requests -> {"new", "waiting", "loading", "running", "preempted",
                              "finished", "gone"}]
  /\ ntok \in [Requests -> Nat]
  /\ \A r \in Requests : prompt[r] <= ntok[r] /\ ntok[r] <= MaxTokens[r]
  /\ ncomp \in [Requests -> Nat]
  /\ table \in [Requests -> Seq(GpuBlocks)]
  /\ DOMAIN gpu = GpuBlocks \X Offsets
  /\ phase \in {"schedule", "load", "forward", "save", "report"}
  /\ sched \in [Requests -> {Idle} \cup Scheduling]
  /\ recved \subseteq Requests
  /\ finished_ids \subseteq Requests

ConnectorType ==
  /\ trackers \in [Requests -> {NoTracker} \cup Tracker]
  /\ meta \in [load : SUBSET Operation, store : SUBSET Operation]
  /\ loads \subseteq Load
  /\ load_futures \subseteq Requests
  /\ pending_sends \subseteq Requests
  /\ DOMAIN stores = Requests
  /\ DOMAIN sent = Requests
  /\ \A r \in Requests : IsSeq(sent[r])

TypeInv == VllmType /\ ConnectorType

-----------------------------------------------------------------------------

Known(r) == trackers[r] # NoTracker
InFlight == IF phase = "load" THEN meta.load ELSE {}
Due == IF phase \in {"load", "forward", "save"} THEN meta.store ELSE {}

\* What the status of a request says of its tracker and of its loads.
StatusOf(r) ==
  /\ status[r] \in {"loading", "running", "preempted"} =>
       Known(r) /\ trackers[r].lookup_resolved = TRUE
  /\ status[r] \in {"new", "finished", "gone"} => ~Known(r)
  /\ sched[r] # Idle => status[r] = "running"
  /\ r \in finished_ids \cup pending_sends => status[r] = "finished"
  /\ Known(r) /\ trackers[r].load_pending = TRUE =>
       status[r] = "loading" /\ r \notin load_futures \cup recved
  /\ r \in recved => status[r] = "loading" /\ r \notin load_futures
  /\ r \in load_futures \ stray => status[r] = "loading"
  /\ r \in stray => status[r] \in {"finished", "gone"}

\* Whose the operations are.
OpStatus ==
  /\ phase = "schedule" => meta.load = {} /\ meta.store = {}
  /\ \A o \in InFlight :
       /\ status[o.r] = "loading" /\ o.r \notin load_futures \cup recved
       /\ trackers[o.r].load_pending = FALSE
  /\ \A o \in Due : status[o.r] = "running" /\ sched[o.r] # Idle
  /\ \A o, p \in meta.store : o.r = p.r => o = p
  /\ \A l \in loads : l.op.r \in load_futures

StatusInv == OpStatus /\ \A r \in Requests : StatusOf(r)

\* Where the STOREs of a request so far have ended, the next one starts: the
\* one that is under way, or the one that will be built.
StoredOf(r) ==
  /\ status[r] \in {"new", "waiting", "loading"} => sent[r] = <<>>
  /\ Known(r) /\ sent[r] # <<>> =>
       /\ \A o \in Due : o.r = r => sent[r][Len(sent[r])].end = o.start
       /\ (\A o \in Due : o.r # r) =>
            sent[r][Len(sent[r])].end = trackers[r].num_stored_tokens

StoreInv ==
  /\ \A r \in Requests : StoredOf(r)
  /\ \A o \in Due : o.end = trackers[o.r].num_stored_tokens
  /\ StoresAreConsecutive

-----------------------------------------------------------------------------

\* No block belongs to two requests, or twice to one.
Disjoint ==
  \A r, q \in Requests : \A a \in 1 .. Len(table[r]), b \in 1 .. Len(table[q]) :
    table[r][a] = table[q][b] => r = q /\ a = b

Room(r) == Len(table[r]) * block_size

\* The table in the tracker is the request's, as soon as the scheduler's
\* output is taken over, and the operations are about its blocks.
TrackerTable ==
  \A r \in Requests :
    /\ status[r] = "waiting" /\ Known(r) => trackers[r].block_ids = <<>>
    /\ status[r] = "loading" => trackers[r].block_ids = table[r]
    /\ status[r] = "running" =>
         IF phase = "schedule" /\ sched[r] # Idle
         THEN Table(trackers[r], sched[r]) = table[r]
         ELSE trackers[r].block_ids = table[r]

LoadOps ==
  /\ \A o \in InFlight : o = generate_retrieve_op(o.r, trackers[o.r])
  /\ \A l \in loads : l.op.r \notin stray => l.op = generate_retrieve_op(l.op.r, trackers[l.op.r])

TableInv == Disjoint /\ TrackerTable /\ LoadOps

-----------------------------------------------------------------------------

\* How far a request is, and that its blocks suffice.
ProgressOf(r) ==
  /\ Known(r) => trackers[r].num_stored_tokens % chunk_size = 0
  /\ status[r] = "loading" =>
       /\ ncomp[r] = trackers[r].lmcache_hits /\ ncomp[r] % chunk_size = 0
       /\ trackers[r].vllm_hits % block_size = 0 /\ trackers[r].vllm_hits < ncomp[r]
  /\ status[r] \in {"loading", "running"} => ncomp[r] <= Room(r) /\ ncomp[r] <= ntok[r]
  /\ sched[r] # Idle =>
       /\ sched[r].computed + sched[r].k <= ntok[r]
       /\ sched[r].computed + sched[r].k <= Room(r)
       /\ ncomp[r] = sched[r].computed + IF phase \in {"save", "report"} THEN sched[r].k ELSE 0

\* A STORE that is due is of whole chunks, through the request's own table,
\* and of tokens the forward pass writes.
StoreOps ==
  \A o \in Due :
    /\ o.start % chunk_size = 0 /\ o.end % chunk_size = 0 /\ o.start < o.end
    /\ o.block_ids = Sliced(table[o.r], o.start \div block_size, o.end \div block_size)
    /\ o.end <= Room(o.r)
    /\ o.end <= sched[o.r].computed + sched[o.r].k

ProgressInv == StoreOps /\ \A r \in Requests : ProgressOf(r)

Filled(r, n) == \A p \in 0 .. (n - 1) : gpu[Slot(table[r], p)] = <<r, p>>

LoadOver(r) ==
  /\ trackers[r].load_pending = FALSE
  /\ \A o \in InFlight : o.r # r
  /\ \A l \in loads : l.op.r = r => l.at = "done"

FillOf(r) ==
  /\ status[r] = "running" => Filled(r, ncomp[r])
  /\ status[r] = "loading" =>
       Filled(r, IF LoadOver(r) THEN ncomp[r] ELSE trackers[r].vllm_hits)

FillInv == stray = {} => \A r \in Requests \ failed : FillOf(r)

-----------------------------------------------------------------------------

(***************************************************************************)
(* The operators.                                                          *)
(***************************************************************************)

\* Min and Max of two numbers.
LEMMA OfTwo ==
  ASSUME NEW a \in Int, NEW b \in Int
  PROVE  /\ Min({a, b}) \in {a, b} /\ Min({a, b}) <= a /\ Min({a, b}) <= b
         /\ Max({a, b}) \in {a, b} /\ Max({a, b}) >= a /\ Max({a, b}) >= b
<1>1. \E x \in {a, b} : \A y \in {a, b} : x =< y
  OBVIOUS
<1>2. \E x \in {a, b} : \A y \in {a, b} : x >= y
  OBVIOUS
<1>3. Min({a, b}) \in {a, b} /\ \A y \in {a, b} : Min({a, b}) =< y
  BY <1>1 DEF Min
<1>4. Max({a, b}) \in {a, b} /\ \A y \in {a, b} : Max({a, b}) >= y
  BY <1>2 DEF Max
<1> QED BY <1>3, <1>4

\* Min of two naturals is the first one unless the second one is smaller.
LEMMA LeastOf ==
  ASSUME NEW a \in Nat, NEW b \in Nat
  PROVE  /\ Min({a, b}) \in Nat /\ Min({a, b}) <= a /\ Min({a, b}) <= b
         /\ (a <= b => Min({a, b}) = a)
<1>1. Min({a, b}) = a \/ Min({a, b}) = b
  BY OfTwo
<1>2. Min({a, b}) <= a /\ Min({a, b}) <= b
  BY OfTwo
<1>3. CASE Min({a, b}) = a
  BY <1>2, <1>3
<1>4. CASE Min({a, b}) = b
  BY <1>2, <1>4
<1> QED BY <1>1, <1>3, <1>4

\* The positive part of a number.
LEMMA PositivePart ==
  ASSUME NEW a \in Int
  PROVE  Max({a, 0}) \in {a, 0} /\ Max({a, 0}) \in Nat /\ Max({a, 0}) >= a
<1>1. 0 \in Int
  OBVIOUS
<1>2. Max({a, 0}) \in {a, 0} /\ Max({a, 0}) >= a /\ Max({a, 0}) >= 0
  BY <1>1, OfTwo
<1>3. Max({a, 0}) \in Int
  BY <1>1, <1>2
<1> QED BY <1>2, <1>3

\* Min of three numbers.
LEMMA OfThree ==
  ASSUME NEW a \in Int, NEW b \in Int, NEW c \in Int
  PROVE  /\ Min({a, b, c}) \in {a, b, c}
         /\ Min({a, b, c}) <= a /\ Min({a, b, c}) <= b /\ Min({a, b, c}) <= c
<1>1. \E x \in {a, b, c} : \A y \in {a, b, c} : x =< y
  OBVIOUS
<1>2. Min({a, b, c}) \in {a, b, c} /\ \A y \in {a, b, c} : Min({a, b, c}) =< y
  BY <1>1 DEF Min
<1> QED BY <1>2

\* A sequence is one over its own elements.
LEMMA SeqIsSeq ==
  ASSUME NEW S, NEW s \in Seq(S)
  PROVE  IsSeq(s) /\ Len(s) \in Nat /\ DOMAIN s = 1 .. Len(s)
<1>1. Len(s) \in Nat /\ DOMAIN s = 1 .. Len(s) /\ s = [i \in 1 .. Len(s) |-> s[i]]
  OBVIOUS
<1>2. \A i \in 1 .. Len(s) : s[i] \in ToSet(s)
  BY <1>1 DEF ToSet
<1>3. s \in Seq(ToSet(s))
  BY <1>1, <1>2
<1> QED BY <1>1, <1>3 DEF IsSeq

\* A slice of a sequence: in general, and when it lies within it.
LEMMA SlicedFacts ==
  ASSUME NEW S, NEW s \in Seq(S), NEW a \in Nat, NEW b \in Nat
  PROVE  /\ Sliced(s, a, b) \in Seq(S)
         /\ ToSet(Sliced(s, a, b)) \subseteq ToSet(s)
         /\ a <= b /\ b <= Len(s) =>
              /\ Len(Sliced(s, a, b)) = b - a
              /\ \A x \in 1 .. (b - a) : Sliced(s, a, b)[x] = s[a + x]
<1> DEFINE m == Min({b, Len(s)})
<1>1. Len(s) \in Nat /\ DOMAIN s = 1 .. Len(s)
  OBVIOUS
<1>2. m \in Nat /\ m <= Len(s) /\ (b <= Len(s) => m = b)
  BY <1>1, LeastOf DEF m
<1> HIDE DEF m
<1>3. Sliced(s, a, b) = SubSeq(s, a + 1, m)
  BY DEF Sliced, m
<1>4. CASE a + 1 <= m
  <2>1. /\ SubSeq(s, a + 1, m) \in Seq(S) /\ Len(SubSeq(s, a + 1, m)) = m - a
        /\ \A x \in 1 .. (m - a) : SubSeq(s, a + 1, m)[x] = s[a + x]
    <3>1. \A i \in (a + 1) .. m : s[i] \in S
      BY <1>1, <1>2, <1>4
    <3>2. /\ SubSeq(s, a + 1, m) \in Seq(S)
          /\ Len(SubSeq(s, a + 1, m)) = IF a + 1 <= m THEN m - (a + 1) + 1 ELSE 0
          /\ \A x \in 1 .. (m - (a + 1) + 1) : SubSeq(s, a + 1, m)[x] = s[(a + 1) + x - 1]
      BY <1>2, <3>1, SubSeqProperties
    <3>3. m - (a + 1) + 1 = m - a /\ \A x \in 1 .. (m - a) : (a + 1) + x - 1 = a + x
      BY <1>2
    <3> QED BY <1>4, <3>2, <3>3
  <2>2. DOMAIN SubSeq(s, a + 1, m) = 1 .. (m - a)
    BY <2>1
  <2>3. \A x \in 1 .. (m - a) : a + x \in DOMAIN s
    BY <1>1, <1>2
  <2>4. ToSet(SubSeq(s, a + 1, m)) \subseteq ToSet(s)
    BY <2>1, <2>2, <2>3 DEF ToSet
  <2> QED BY <1>2, <1>3, <2>1, <2>4
<1>5. CASE ~(a + 1 <= m)
  <2>1. SubSeq(s, a + 1, m) = <<>>
    BY <1>1, <1>2, <1>5
  <2>2. <<>> \in Seq(S) /\ ToSet(<<>>) = {} /\ Len(<<>>) = 0
    BY DEF ToSet
  <2>3. a <= b /\ b <= Len(s) => b - a = 0 /\ 1 .. (b - a) = {}
    BY <1>1, <1>2, <1>5
  <2>4. Sliced(s, a, b) = <<>>
    BY <1>3, <2>1
  <2>5. a <= b /\ b <= Len(s) =>
          /\ Len(Sliced(s, a, b)) = b - a
          /\ \A x \in 1 .. (b - a) : Sliced(s, a, b)[x] = s[a + x]
    BY <2>2, <2>3, <2>4
  <2> QED BY <2>2, <2>4, <2>5
<1> QED BY <1>4, <1>5

\* The free blocks are blocks that no request has, each once.
LEMMA FreeBlocksFacts ==
  /\ FreeBlocks \in Seq(GpuBlocks)
  /\ \A x \in 1 .. Len(FreeBlocks) : FreeBlocks[x] \notin Used
  /\ \A x, y \in 1 .. Len(FreeBlocks) : FreeBlocks[x] = FreeBlocks[y] => x = y
<1> DEFINE F == GpuBlocks \ Used
           n == Cardinality(F)
<1>1. IsFiniteSet(GpuBlocks)
  BY ConnectorAssumption, FS_Interval DEF GpuBlocks
<1>2. IsFiniteSet(F)
  BY <1>1, FS_Subset
<1>3. n \in Nat
  BY <1>2, FS_CardinalityType
<1>4. ExistsBijection(1 .. n, F)
  BY <1>2, <1>3, FS_NatBijection, FS_CountingElements
<1> HIDE DEF F, n
<1>5. \E f \in [1 .. n -> F] : IsInjective(f)
  <2>1. PICK f : f \in Bijection(1 .. n, F)
    BY <1>4 DEF ExistsBijection
  <2>2. f \in [1 .. n -> F] /\ \A x, y \in 1 .. n : f[x] = f[y] => x = y
    BY <2>1 DEF Bijection, Injection, IsInjective
  <2> QED BY <2>2 DEF IsInjective
<1>6. FreeBlocks \in [1 .. n -> F] /\ IsInjective(FreeBlocks)
  BY <1>5 DEF FreeBlocks, SetToSeq, F, n
<1>7. FreeBlocks \in Seq(F) /\ Len(FreeBlocks) = n
  BY <1>3, <1>6
<1>8. \A x, y \in 1 .. n : FreeBlocks[x] = FreeBlocks[y] => x = y
  BY <1>6 DEF IsInjective
<1>9. \A x \in 1 .. n : FreeBlocks[x] \in F
  BY <1>6
<1> QED BY <1>7, <1>8, <1>9 DEF F

\* A table that grows keeps its blocks and gets free ones.
LEMMA GrownFacts ==
  ASSUME NEW t \in Seq(GpuBlocks), NEW n \in Nat, Fits(n)
  PROVE  /\ Grown(t, n) \in Seq(GpuBlocks) /\ Len(Grown(t, n)) = Len(t) + n
         /\ \A x \in 1 .. Len(t) : Grown(t, n)[x] = t[x]
         /\ \A x \in 1 .. n : Grown(t, n)[Len(t) + x] = FreeBlocks[x]
         /\ \A x \in 1 .. n : x \in 1 .. Len(FreeBlocks)
<1> DEFINE f == SubSeq(FreeBlocks, 1, n)
<1>1. FreeBlocks \in Seq(GpuBlocks) /\ Len(FreeBlocks) \in Nat /\ n <= Len(FreeBlocks)
  BY FreeBlocksFacts DEF Fits
<1> DEFINE F == FreeBlocks
<1> HIDE DEF F
<1>2. F \in Seq(GpuBlocks) /\ Len(F) \in Nat /\ n <= Len(F) /\ f = SubSeq(F, 1, n)
  BY <1>1 DEF F
<1> HIDE DEF f
<1>3. f \in Seq(GpuBlocks) /\ Len(f) = n /\ \A x \in 1 .. n : f[x] = F[x]
  BY <1>2
<1>4. Len(t) \in Nat
  OBVIOUS
<1>5. /\ t \o f \in Seq(GpuBlocks) /\ Len(t \o f) = Len(t) + n
      /\ \A x \in 1 .. Len(t) : (t \o f)[x] = t[x]
      /\ \A x \in 1 .. n : (t \o f)[Len(t) + x] = f[x]
  BY <1>3, <1>4
<1>6. Grown(t, n) = t \o f
  BY DEF Grown, f
<1>7. \A x \in 1 .. n : x \in 1 .. Len(F)
  BY <1>2
<1> QED BY <1>3, <1>5, <1>6, <1>7 DEF F
-----------------------------------------------------------------------------

(***************************************************************************)
(* Arithmetic of blocks and chunks.                                        *)
(***************************************************************************)

\* Quotient and remainder.
LEMMA DivFacts ==
  ASSUME NEW a \in Nat, NEW b \in Nat \ {0}
  PROVE  /\ a \div b \in Nat /\ a % b \in Nat /\ a % b < b
         /\ a = b * (a \div b) + (a % b)
OBVIOUS

\* They are unique.
LEMMA DivUnique ==
  ASSUME NEW a \in Nat, NEW b \in Nat \ {0}, NEW q \in Nat, NEW m \in Nat,
         m < b, a = b * q + m
  PROVE  a \div b = q /\ a % b = m
OBVIOUS

\* Multiples.
LEMMA MultipleFacts ==
  ASSUME NEW a \in Nat, NEW b \in Nat \ {0}, NEW q \in Nat, a = q * b
  PROVE  a \div b = q /\ a % b = 0
OBVIOUS

\* The sum of two multiples is one.
LEMMA MultiplesAdd ==
  ASSUME NEW a \in Nat, NEW b \in Nat, NEW c \in Nat \ {0}, a % c = 0, b % c = 0
  PROVE  (a + b) % c = 0
<1> DEFINE p == a \div c
           q == b \div c
<1>1. p \in Nat /\ q \in Nat /\ a = c * p /\ b = c * q
  BY DivFacts
<1> HIDE DEF p, q
<1>2. a + b = (p + q) * c /\ p + q \in Nat
  BY <1>1
<1> QED BY <1>2, MultipleFacts

\* A multiple of the chunk size is one of the block size.
LEMMA ChunksAreBlocks ==
  ASSUME NEW a \in Nat, a % chunk_size = 0
  PROVE  a % block_size = 0
<1> DEFINE p == a \div chunk_size
           q == chunk_size \div block_size
<1>1. block_size \in Nat \ {0} /\ chunk_size \in Nat \ {0} /\ chunk_size % block_size = 0
  BY ConnectorAssumption
<1>2. p \in Nat /\ q \in Nat /\ a = chunk_size * p /\ chunk_size = block_size * q
  BY <1>1, DivFacts
<1> HIDE DEF p, q
<1>3. a = (p * q) * block_size /\ p * q \in Nat
  BY <1>1, <1>2
<1> QED BY <1>1, <1>3, MultipleFacts

\* BlocksFor(n) blocks hold n tokens.
LEMMA BlocksForFacts ==
  ASSUME NEW n \in Nat
  PROVE  BlocksFor(n) \in Nat /\ n <= BlocksFor(n) * block_size
BY ConnectorAssumption DEF BlocksFor

-----------------------------------------------------------------------------

(***************************************************************************)
(* The answers to a lookup, case by case.                                  *)
(***************************************************************************)
Base(r) == IF Known(r) THEN trackers[r] ELSE RequestTracker

Promise(r, local, t, ext) ==
  \E k \in Nat :
    /\ k * chunk_size <= prompt[r]
    /\ t = [Base(r) EXCEPT !.lookup_resolved = TRUE, !.lmcache_hits = k * chunk_size,
                           !.vllm_hits = local, !.num_stored_tokens = k * chunk_size]
    /\ ext = Max({k * chunk_size - local, 0})

Answer(r, local, t, ext) ==
  \/ Known(r) /\ trackers[r].lookup_resolved = TRUE /\ t = trackers[r] /\ ext = 0
  \/ /\ Known(r) => trackers[r].lookup_resolved = FALSE
     /\ \/ t = Base(r) /\ ext = -1
        \/ t = [Base(r) EXCEPT !.lookup_resolved = TRUE] /\ ext = 0
        \/ Promise(r, local, t, ext)

\* A tracker is not the absence of one.
LEMMA TrackerIsOne ==
  ASSUME NEW t \in Tracker
  PROVE  t # NoTracker
<1>1. "block_ids" \in DOMAIN t
  BY DEF Tracker
<1>2. DOMAIN NoTracker = {"tracked"}
  BY DEF NoTracker
<1> QED BY <1>1, <1>2

\* The tracker of a request that had none is a tracker.
LEMMA BaseType ==
  ASSUME TypeInv, NEW r \in Requests
  PROVE  Base(r) \in Tracker
<1>1. RequestTracker \in Tracker
  BY DEF RequestTracker, Tracker
<1>2. trackers[r] \in {NoTracker} \cup Tracker
  BY DEF TypeInv, ConnectorType
<1> QED BY <1>1, <1>2 DEF Base, Known

\* What Matches gives is an answer in this sense.
LEMMA MatchesAnswer ==
  ASSUME TypeInv, NEW r \in Requests, NEW local \in Nat, NEW m \in Matches(r, local)
  PROVE  Answer(r, local, m.t, m.ext)
<1>1. CASE Known(r) /\ trackers[r].lookup_resolved = TRUE
  <2>1. Matches(r, local) = {[t |-> trackers[r], ext |-> 0]}
    BY <1>1 DEF Matches, Known
  <2> QED BY <1>1, <2>1 DEF Answer
<1>2. CASE ~(Known(r) /\ trackers[r].lookup_resolved = TRUE)
  <2>1. Known(r) => trackers[r].lookup_resolved = FALSE
    <3>1. Known(r) => trackers[r] \in Tracker
      BY DEF TypeInv, ConnectorType, Known
    <3>2. Known(r) => trackers[r].lookup_resolved \in BOOLEAN
      BY <3>1 DEF Tracker
    <3> QED BY <1>2, <3>2
  <2>2. Matches(r, local) = QueryAnswers(r, Base(r), local)
    <3>1. CASE ~Known(r)
      BY <3>1 DEF Matches, Known, Base
    <3>2. CASE Known(r)
      BY <2>1, <3>2 DEF Matches, Known, Base
    <3> QED BY <3>1, <3>2
  <2> DEFINE t0 == Base(r)
             Hit(h) == [t0 EXCEPT !.lookup_resolved = TRUE, !.lmcache_hits = h,
                                  !.vllm_hits = local, !.num_stored_tokens = h]
             Hits == {k * chunk_size : k \in 0 .. prompt[r] \div chunk_size}
  <2>3. \/ m \in {[t |-> Hit(h), ext |-> Max({h - local, 0})] : h \in Hits}
        \/ m = [t |-> t0, ext |-> -1]
        \/ m = [t |-> [t0 EXCEPT !.lookup_resolved = TRUE], ext |-> 0]
    BY <2>2 DEF QueryAnswers, Pending
  <2>4. CASE m \in {[t |-> Hit(h), ext |-> Max({h - local, 0})] : h \in Hits}
    <3>1. PICK k \in 0 .. prompt[r] \div chunk_size :
             m = [t |-> Hit(k * chunk_size), ext |-> Max({k * chunk_size - local, 0})]
      BY <2>4
    <3>2. k \in Nat /\ k * chunk_size <= prompt[r]
      <4>1. prompt[r] \in Nat /\ chunk_size \in Nat \ {0}
        BY ConnectorAssumption DEF TypeInv, VllmType
      <4> DEFINE q == prompt[r] \div chunk_size
      <4>2. k \in 0 .. q
        OBVIOUS
      <4>3. q \in Nat /\ prompt[r] = chunk_size * q + (prompt[r] % chunk_size)
            /\ prompt[r] % chunk_size \in Nat
        BY <4>1, DivFacts
      <4> HIDE DEF q
      <4>4. k * chunk_size <= chunk_size * q
        BY <4>1, <4>2, <4>3
      <4> QED BY <4>1, <4>2, <4>3, <4>4
    <3> HIDE DEF t0
    <3>3. m.t = Hit(k * chunk_size) /\ m.ext = Max({k * chunk_size - local, 0})
      BY <3>1
    <3>4. Promise(r, local, m.t, m.ext)
      BY <3>2, <3>3 DEF Promise, t0
    <3> QED BY <2>1, <3>4 DEF Answer
  <2>5. CASE m = [t |-> t0, ext |-> -1]
    BY <2>1, <2>5 DEF Answer
  <2>6. CASE m = [t |-> [t0 EXCEPT !.lookup_resolved = TRUE], ext |-> 0]
    BY <2>1, <2>6 DEF Answer
  <2> QED BY <2>3, <2>4, <2>5, <2>6
<1> QED BY <1>1, <1>2

\* What an answer is in terms of types and of the request's progress.
AnswerSays(r, local, t, ext) ==
  /\ t \in Tracker /\ ext \in Int
  /\ t.block_ids = Base(r).block_ids /\ t.load_pending = Base(r).load_pending
  /\ Known(r) /\ trackers[r].lookup_resolved = TRUE => t = trackers[r] /\ ext = 0
  /\ ext >= 0 => t.lookup_resolved = TRUE
  /\ Base(r).num_stored_tokens % chunk_size = 0 => t.num_stored_tokens % chunk_size = 0
  /\ ext > 0 => /\ t.lmcache_hits = local + ext /\ t.vllm_hits = local
                /\ t.lmcache_hits % chunk_size = 0 /\ t.lmcache_hits <= prompt[r]

\* The facts about an answer.
LEMMA AnswerFacts ==
  ASSUME TypeInv, NEW r \in Requests, NEW local \in Nat, NEW t, NEW ext,
         Answer(r, local, t, ext)
  PROVE  AnswerSays(r, local, t, ext)
<1>0. Base(r) \in Tracker /\ (Known(r) => Base(r) = trackers[r])
  BY BaseType DEF Base
<1>1. CASE Known(r) /\ trackers[r].lookup_resolved = TRUE /\ t = trackers[r] /\ ext = 0
  BY <1>0, <1>1 DEF AnswerSays
<1>2. CASE (Known(r) => trackers[r].lookup_resolved = FALSE) /\ t = Base(r) /\ ext = -1
  BY <1>0, <1>2 DEF AnswerSays
<1>3. CASE /\ Known(r) => trackers[r].lookup_resolved = FALSE
           /\ t = [Base(r) EXCEPT !.lookup_resolved = TRUE] /\ ext = 0
  <2>1. t \in Tracker /\ t.block_ids = Base(r).block_ids /\ t.load_pending = Base(r).load_pending
        /\ t.lookup_resolved = TRUE /\ t.num_stored_tokens = Base(r).num_stored_tokens
    BY <1>0, <1>3 DEF Tracker
  <2> QED BY <1>3, <2>1 DEF AnswerSays
<1>4. CASE (Known(r) => trackers[r].lookup_resolved = FALSE) /\ Promise(r, local, t, ext)
  <2>1. PICK k \in Nat :
          /\ k * chunk_size <= prompt[r]
          /\ t = [Base(r) EXCEPT !.lookup_resolved = TRUE, !.lmcache_hits = k * chunk_size,
                           !.vllm_hits = local, !.num_stored_tokens = k * chunk_size]
          /\ ext = Max({k * chunk_size - local, 0})
    BY <1>4 DEF Promise
  <2> DEFINE h == k * chunk_size
  <2>2. h \in Nat /\ h % chunk_size = 0
    BY ConnectorAssumption, MultipleFacts
  <2>3. h <= prompt[r] /\ t = [Base(r) EXCEPT !.lookup_resolved = TRUE, !.lmcache_hits = h,
                           !.vllm_hits = local, !.num_stored_tokens = h]
        /\ ext = Max({h - local, 0})
    BY <2>1
  <2> HIDE DEF h
  <2>4. /\ t \in Tracker /\ t.block_ids = Base(r).block_ids /\ t.load_pending = Base(r).load_pending
        /\ t.lookup_resolved = TRUE /\ t.num_stored_tokens = h /\ t.lmcache_hits = h
        /\ t.vllm_hits = local
    BY <1>0, <2>2, <2>3 DEF Tracker
  <2>5. ext \in {h - local, 0} /\ ext >= 0 /\ ext >= h - local
    BY <2>2, <2>3, OfTwo
  <2>6. ext \in Int /\ (ext > 0 => h = local + ext)
    BY <2>2, <2>5
  <2> QED BY <1>4, <2>2, <2>3, <2>4, <2>6 DEF AnswerSays
<1> QED BY <1>1, <1>2, <1>3, <1>4 DEF Answer
-----------------------------------------------------------------------------

(***************************************************************************)
(* The scheduling steps, with what they do to the block tables spelled out.*)
(***************************************************************************)

\* new is old and free blocks behind it.
Gains(old, new) ==
  /\ Len(old) <= Len(new)
  /\ \A x \in 1 .. Len(old) : new[x] = old[x]
  /\ \A x \in (Len(old) + 1) .. Len(new) : new[x] \notin Used
  /\ \A x, y \in (Len(old) + 1) .. Len(new) : new[x] = new[y] => x = y

PrefixCached(r, new, local) ==
  gpu' = [s \in DOMAIN gpu |->
            IF \E p \in 0 .. (local - 1) : s = Slot(new, p)
            THEN CHOOSE x \in {r} \X (0 .. (local - 1)) : s = Slot(new, x[2])
            ELSE gpu[s]]

Waits(r) ==
  /\ phase = "schedule" /\ status[r] \in {"waiting", "preempted"} /\ sched[r] = Idle
  /\ \E local \in Nat, t \in Tracker, ext \in Int :
       /\ AnswerSays(r, local, t, ext)
       /\ trackers' = [trackers EXCEPT ![r] = t]
  /\ UNCHANGED <<vllmVars, gpu, phase, sched, finished_ids, meta, workerVars, stray, prompt>>

Allocation(r, local, t, ext, k, new) ==
  /\ phase = "schedule" /\ status[r] \in {"waiting", "preempted"} /\ sched[r] = Idle
  /\ local < ntok[r] /\ local % block_size = 0
  /\ AnswerSays(r, local, t, ext) /\ ext >= 0
  /\ ext > 0 => k = 0
  /\ ext = 0 => k > 0 /\ local + k <= ntok[r]
  /\ Gains(<<>>, new) /\ local + ext + k <= Len(new) * block_size
  /\ table' = [table EXCEPT ![r] = new]
  /\ trackers' = [trackers EXCEPT ![r] = update_state_after_alloc(t, new, ext)]
  /\ ncomp' = [ncomp EXCEPT ![r] = local + ext]
  /\ PrefixCached(r, new, local)
  /\ status' = [status EXCEPT ![r] = IF ext > 0 THEN "loading" ELSE "running"]
  /\ sched' = IF ext > 0 THEN sched
              ELSE [sched EXCEPT ![r] =
                      [kind |-> IF status[r] = "waiting" THEN "new" ELSE "resumed",
                       new |-> new, computed |-> local + ext, k |-> k]]
  /\ UNCHANGED <<ntok, recved, phase, finished_ids, meta, workerVars, stray, prompt>>

Allocates(r) ==
  \E local \in Nat, t \in Tracker, ext \in Int, k \in Nat, new \in Seq(GpuBlocks) :
    Allocation(r, local, t, ext, k, new)

Continuation(r, n, k, new) ==
  /\ phase = "schedule" /\ status[r] = "loading" /\ r \in recved /\ sched[r] = Idle
  /\ n <= ncomp[r] /\ n + k <= ntok[r] /\ k > 0
  /\ Gains(table[r], new) /\ n + k <= Len(new) * block_size
  /\ table' = [table EXCEPT ![r] = new]
  /\ trackers' = [trackers EXCEPT ![r] = update_state_after_alloc(trackers[r], new, 0)]
  /\ ncomp' = [ncomp EXCEPT ![r] = n]
  /\ sched' = [sched EXCEPT ![r] = [kind |-> "new", new |-> new, computed |-> n, k |-> k]]
  /\ status' = [status EXCEPT ![r] = "running"]
  /\ recved' = recved \ {r}
  /\ UNCHANGED <<ntok, gpu, phase, finished_ids, meta, workerVars, stray, prompt>>

Continues(r) ==
  \E n \in Nat, k \in Nat, new \in Seq(GpuBlocks) : Continuation(r, n, k, new)

Decoding(r, k, new) ==
  /\ phase = "schedule" /\ status[r] = "running" /\ sched[r] = Idle
  /\ ncomp[r] + k <= ntok[r] /\ k > 0
  /\ Gains(table[r], table[r] \o new) /\ ncomp[r] + k <= Len(table[r] \o new) * block_size
  /\ table' = [table EXCEPT ![r] = table[r] \o new]
  /\ sched' = [sched EXCEPT ![r] = [kind |-> "cached", new |-> new,
                                    computed |-> ncomp[r], k |-> k]]
  /\ UNCHANGED <<status, ntok, ncomp, recved, gpu, phase, finished_ids, trackers,
                 meta, workerVars, stray, prompt>>

Decodes(r) == \E k \in Nat, new \in Seq(GpuBlocks) : Decoding(r, k, new)

\* A table that is grown gains free blocks.
LEMMA GrownGains ==
  ASSUME NEW t \in Seq(GpuBlocks), NEW n \in Nat, Fits(n)
  PROVE  Grown(t, n) \in Seq(GpuBlocks) /\ Len(Grown(t, n)) = Len(t) + n /\ Gains(t, Grown(t, n))
<1> DEFINE g == Grown(t, n)
<1>1. /\ g \in Seq(GpuBlocks) /\ Len(g) = Len(t) + n
      /\ \A x \in 1 .. Len(t) : g[x] = t[x]
      /\ \A x \in 1 .. n : g[Len(t) + x] = FreeBlocks[x]
      /\ \A x \in 1 .. n : x \in 1 .. Len(FreeBlocks)
  BY GrownFacts
<1>2. Len(t) \in Nat
  OBVIOUS
<1> HIDE DEF g
<1>3. \A x \in (Len(t) + 1) .. Len(g) :
        /\ x - Len(t) \in 1 .. Len(FreeBlocks)
        /\ g[x] = FreeBlocks[x - Len(t)]
  <2> SUFFICES ASSUME NEW x \in (Len(t) + 1) .. Len(g)
               PROVE  /\ x - Len(t) \in 1 .. Len(FreeBlocks)
                      /\ g[x] = FreeBlocks[x - Len(t)]
    OBVIOUS
  <2> DEFINE y == x - Len(t)
  <2>1. y \in 1 .. n /\ x = Len(t) + y
    BY <1>1, <1>2
  <2> HIDE DEF y
  <2>2. g[Len(t) + y] = FreeBlocks[y] /\ y \in 1 .. Len(FreeBlocks)
    BY <1>1, <2>1
  <2> QED BY <2>1, <2>2 DEF y
<1>4. \A x \in (Len(t) + 1) .. Len(g) : g[x] \notin Used
  BY <1>3, FreeBlocksFacts
<1>5. \A x, y \in (Len(t) + 1) .. Len(g) : g[x] = g[y] => x = y
  <2> SUFFICES ASSUME NEW x \in (Len(t) + 1) .. Len(g), NEW y \in (Len(t) + 1) .. Len(g),
                      g[x] = g[y]
               PROVE  x = y
    OBVIOUS
  <2>1. x - Len(t) = y - Len(t)
    BY <1>3, FreeBlocksFacts
  <2> QED BY <1>1, <1>2, <2>1
<1>6. Len(t) <= Len(g)
  BY <1>1, <1>2
<1> QED BY <1>1, <1>4, <1>5, <1>6 DEF Gains, g

\* The case of a new table.
LEMMA GrownFromNothing ==
  ASSUME NEW n \in Nat, Fits(n)
  PROVE  /\ Grown(<<>>, n) \in Seq(GpuBlocks) /\ Len(Grown(<<>>, n)) = n
         /\ Gains(<<>>, Grown(<<>>, n))
<1> DEFINE t == <<>>
<1>1. t \in Seq(GpuBlocks) /\ Len(t) = 0
  OBVIOUS
<1> HIDE DEF t
<1>2. /\ Grown(t, n) \in Seq(GpuBlocks) /\ Len(Grown(t, n)) = Len(t) + n
      /\ Gains(t, Grown(t, n))
  BY <1>1, GrownGains
<1>3. Len(Grown(t, n)) = n
  BY <1>1, <1>2
<1> QED BY <1>2, <1>3 DEF t

\* What is put behind t when it is grown is what <<>> is grown to.
LEMMA GrownConcat ==
  ASSUME NEW t \in Seq(GpuBlocks), NEW n \in Nat, Fits(n)
  PROVE  Grown(t, n) = t \o Grown(<<>>, n)
<1> DEFINE f == SubSeq(FreeBlocks, 1, n)
<1>1. FreeBlocks \in Seq(GpuBlocks) /\ Len(FreeBlocks) \in Nat /\ n <= Len(FreeBlocks)
  BY FreeBlocksFacts DEF Fits
<1>2. f \in Seq(GpuBlocks)
  BY <1>1
<1>3. Grown(t, n) = t \o f /\ Grown(<<>>, n) = <<>> \o f
  BY DEF Grown
<1> HIDE DEF f
<1>4. <<>> \o f = f
  BY <1>2
<1> QED BY <1>3, <1>4

\* A waiting or preempted request waits on or gets its blocks.
LEMMA WaitingSteps ==
  ASSUME TypeInv, NEW r \in Requests, ScheduleWaiting(r)
  PROVE  Waits(r) \/ Allocates(r)
<1>1. /\ phase = "schedule" /\ status[r] \in {"waiting", "preempted"} /\ sched[r] = Idle
      /\ UNCHANGED <<ntok, recved, phase, finished_ids, meta, workerVars, stray, prompt>>
  BY DEF ScheduleWaiting
<1>2. PICK local \in 0 .. (ntok[r] - 1) : /\ local % block_size = 0
       /\ \E m \in Matches(r, local) :
            \/ /\ trackers' = [trackers EXCEPT ![r] = m.t]
               /\ UNCHANGED <<status, ncomp, table, gpu, sched>>
            \/ /\ m.ext >= 0
               /\ \E k \in IF m.ext > 0 THEN {0} ELSE 1 .. (ntok[r] - local) :
                    LET n == local + m.ext
                        new == Grown(<<>>, BlocksFor(n + k))
                    IN  /\ Fits(BlocksFor(n + k))
                        /\ table' = [table EXCEPT ![r] = new]
                        /\ trackers' = [trackers EXCEPT ![r] =
                                          update_state_after_alloc(m.t, new, m.ext)]
                        /\ ncomp' = [ncomp EXCEPT ![r] = n]
                        /\ PrefixCached(r, new, local)
                        /\ IF m.ext > 0
                           THEN /\ status' = [status EXCEPT ![r] = "loading"]
                                /\ UNCHANGED sched
                           ELSE /\ status' = [status EXCEPT ![r] = "running"]
                                /\ Scheduled(r, IF status[r] = "waiting" THEN "new"
                                                ELSE "resumed", new, n, k)
  BY DEF ScheduleWaiting, PrefixCached
<1>3. ntok[r] \in Nat /\ local \in Nat /\ local < ntok[r]
  BY DEF TypeInv, VllmType
<1>4. PICK m \in Matches(r, local) :
            \/ /\ trackers' = [trackers EXCEPT ![r] = m.t]
               /\ UNCHANGED <<status, ncomp, table, gpu, sched>>
            \/ /\ m.ext >= 0
               /\ \E k \in IF m.ext > 0 THEN {0} ELSE 1 .. (ntok[r] - local) :
                    LET n == local + m.ext
                        new == Grown(<<>>, BlocksFor(n + k))
                    IN  /\ Fits(BlocksFor(n + k))
                        /\ table' = [table EXCEPT ![r] = new]
                        /\ trackers' = [trackers EXCEPT ![r] =
                                          update_state_after_alloc(m.t, new, m.ext)]
                        /\ ncomp' = [ncomp EXCEPT ![r] = n]
                        /\ PrefixCached(r, new, local)
                        /\ IF m.ext > 0
                           THEN /\ status' = [status EXCEPT ![r] = "loading"]
                                /\ UNCHANGED sched
                           ELSE /\ status' = [status EXCEPT ![r] = "running"]
                                /\ Scheduled(r, IF status[r] = "waiting" THEN "new"
                                                ELSE "resumed", new, n, k)
  BY <1>2
<1> DEFINE t == m.t
           ext == m.ext
<1>5. AnswerSays(r, local, t, ext)
  BY <1>3, MatchesAnswer, AnswerFacts
<1>6. t \in Tracker /\ ext \in Int
  BY <1>5 DEF AnswerSays
<1>7. CASE /\ trackers' = [trackers EXCEPT ![r] = m.t]
           /\ UNCHANGED <<status, ncomp, table, gpu, sched>>
  <2>1. trackers' = [trackers EXCEPT ![r] = t]
    BY <1>7
  <2> HIDE DEF t, ext
  <2> QED BY <1>1, <1>3, <1>5, <1>6, <1>7, <2>1 DEF Waits, vllmVars
<1>8. ASSUME m.ext >= 0,
             NEW k \in IF m.ext > 0 THEN {0} ELSE 1 .. (ntok[r] - local),
             Fits(BlocksFor(local + m.ext + k)),
             table' = [table EXCEPT ![r] = Grown(<<>>, BlocksFor(local + m.ext + k))],
             trackers' = [trackers EXCEPT ![r] =
                update_state_after_alloc(m.t, Grown(<<>>, BlocksFor(local + m.ext + k)), m.ext)],
             ncomp' = [ncomp EXCEPT ![r] = local + m.ext],
             PrefixCached(r, Grown(<<>>, BlocksFor(local + m.ext + k)), local),
             IF m.ext > 0
             THEN /\ status' = [status EXCEPT ![r] = "loading"]
                  /\ UNCHANGED sched
             ELSE /\ status' = [status EXCEPT ![r] = "running"]
                  /\ Scheduled(r, IF status[r] = "waiting" THEN "new" ELSE "resumed",
                               Grown(<<>>, BlocksFor(local + m.ext + k)), local + m.ext, k)
      PROVE  Allocates(r)
  <2> DEFINE new == Grown(<<>>, BlocksFor(local + m.ext + k))
  <2>1. /\ ext >= 0 /\ k \in IF ext > 0 THEN {0} ELSE 1 .. (ntok[r] - local)
        /\ table' = [table EXCEPT ![r] = new]
        /\ trackers' = [trackers EXCEPT ![r] = update_state_after_alloc(t, new, ext)]
        /\ ncomp' = [ncomp EXCEPT ![r] = local + ext]
        /\ PrefixCached(r, new, local)
    BY <1>8
  <2>2. status' = [status EXCEPT ![r] = IF ext > 0 THEN "loading" ELSE "running"]
    BY <1>8
  <2>3. sched' = IF ext > 0 THEN sched
              ELSE [sched EXCEPT ![r] =
                      [kind |-> IF status[r] = "waiting" THEN "new" ELSE "resumed",
                       new |-> new, computed |-> local + ext, k |-> k]]
    BY <1>8 DEF Scheduled
  <2>4. Fits(BlocksFor(local + ext + k)) /\ new = Grown(<<>>, BlocksFor(local + ext + k))
    BY <1>8
  <2> HIDE DEF t, ext, new
  <2>5. k \in Nat /\ (ext > 0 => k = 0) /\ (ext = 0 => k > 0 /\ local + k <= ntok[r])
    BY <1>3, <1>6, <2>1
  <2>6. local + ext + k \in Nat
    BY <1>3, <1>6, <2>1, <2>5
  <2> DEFINE b == BlocksFor(local + ext + k)
  <2>7. b \in Nat /\ local + ext + k <= b * block_size
    BY <2>6, BlocksForFacts
  <2>8. Fits(b) /\ new = Grown(<<>>, b)
    BY <2>4
  <2> HIDE DEF b
  <2>9. new \in Seq(GpuBlocks) /\ Len(new) = b /\ Gains(<<>>, new)
    BY <2>7, <2>8, GrownFromNothing
  <2>10. local + ext + k <= Len(new) * block_size
    BY <2>7, <2>9
  <2>11. Allocation(r, local, t, ext, k, new)
    BY <1>1, <1>2, <1>3, <1>5, <2>1, <2>2, <2>3, <2>5, <2>9, <2>10 DEF Allocation
  <2> QED BY <1>3, <1>6, <2>5, <2>9, <2>11 DEF Allocates
<1> QED BY <1>4, <1>7, <1>8
\* A request whose load was reported continues behind the loaded tokens.
LEMMA LoadedSteps ==
  ASSUME TypeInv, NEW r \in Requests, ScheduleLoaded(r)
  PROVE  Continues(r)
<1> DEFINE n == Min({ncomp[r], ntok[r] - 1})
<1>1. /\ phase = "schedule" /\ status[r] = "loading" /\ r \in recved /\ sched[r] = Idle
      /\ status' = [status EXCEPT ![r] = "running"]
      /\ recved' = recved \ {r}
      /\ UNCHANGED <<ntok, gpu, phase, finished_ids, meta, workerVars, stray, prompt>>
  BY DEF ScheduleLoaded
<1>2. PICK k \in 1 .. (ntok[r] - n) :
           LET more == BlocksFor(n + k) - Len(table[r])
               new == Grown(table[r], Max({more, 0}))
           IN  /\ Fits(more)
               /\ table' = [table EXCEPT ![r] = new]
               /\ trackers' = [trackers EXCEPT ![r] =
                                 update_state_after_alloc(trackers[r], new, 0)]
               /\ ncomp' = [ncomp EXCEPT ![r] = n]
               /\ Scheduled(r, "new", new, n, k)
  BY DEF ScheduleLoaded
<1> DEFINE more == BlocksFor(n + k) - Len(table[r])
           add == Max({more, 0})
           new == Grown(table[r], add)
<1>3. /\ Fits(more)
      /\ table' = [table EXCEPT ![r] = new]
      /\ trackers' = [trackers EXCEPT ![r] = update_state_after_alloc(trackers[r], new, 0)]
      /\ ncomp' = [ncomp EXCEPT ![r] = n]
      /\ sched' = [sched EXCEPT ![r] = [kind |-> "new", new |-> new, computed |-> n, k |-> k]]
  BY <1>2 DEF Scheduled
<1>4. /\ ncomp[r] \in Nat /\ ntok[r] \in Nat \ {0} /\ table[r] \in Seq(GpuBlocks)
      /\ Len(table[r]) \in Nat
  <2>1. prompt[r] \in Nat \ {0} /\ prompt[r] <= ntok[r] /\ ntok[r] \in Nat
    BY DEF TypeInv, VllmType
  <2> QED BY <2>1 DEF TypeInv, VllmType
<1>5. n \in Nat /\ n <= ncomp[r] /\ k \in Nat /\ k > 0 /\ n + k <= ntok[r] /\ n + k \in Nat
  <2> DEFINE last == ntok[r] - 1
  <2>1. last \in Nat /\ n = Min({ncomp[r], last})
    BY <1>4
  <2> HIDE DEF last
  <2>2. n \in Nat /\ n <= ncomp[r]
    BY <1>4, <2>1, LeastOf
  <2>3. k \in 1 .. (ntok[r] - n)
    OBVIOUS
  <2> HIDE DEF n
  <2> QED BY <1>4, <2>2, <2>3
<1> HIDE DEF n
<1>6. BlocksFor(n + k) \in Nat /\ n + k <= BlocksFor(n + k) * block_size
  BY <1>5, BlocksForFacts
<1>7. more \in Int /\ more + Len(table[r]) = BlocksFor(n + k)
  BY <1>4, <1>6
<1> HIDE DEF more
<1>8. add \in Nat /\ add >= more /\ Fits(add)
  <2>1. add \in {more, 0} /\ add >= more /\ add \in Nat
    BY <1>7, PositivePart
  <2>2. Fits(0)
    BY FreeBlocksFacts DEF Fits
  <2>3. CASE add = more
    BY <1>3, <1>7, <2>1, <2>3
  <2>4. CASE add = 0
    BY <2>1, <2>2, <2>4
  <2> QED BY <2>1, <2>3, <2>4
<1> HIDE DEF add
<1>9. new \in Seq(GpuBlocks) /\ Len(new) = Len(table[r]) + add /\ Gains(table[r], new)
  BY <1>4, <1>8, GrownGains
<1> HIDE DEF new
<1>10. n + k <= Len(new) * block_size
  <2>1. BlocksFor(n + k) <= Len(new) /\ Len(new) \in Nat
    BY <1>4, <1>7, <1>8, <1>9
  <2>2. block_size \in Nat
    BY ConnectorAssumption
  <2>3. BlocksFor(n + k) * block_size <= Len(new) * block_size
    BY <1>6, <2>1, <2>2
  <2> QED BY <1>5, <1>6, <2>1, <2>2, <2>3
<1>11. Continuation(r, n, k, new)
  BY <1>1, <1>3, <1>5, <1>9, <1>10 DEF Continuation
<1> QED BY <1>5, <1>9, <1>11 DEF Continues

\* A running request gets the blocks for its next tokens.
LEMMA RunningSteps ==
  ASSUME TypeInv, NEW r \in Requests, ScheduleRunning(r)
  PROVE  Decodes(r)
<1>1. /\ phase = "schedule" /\ status[r] = "running" /\ sched[r] = Idle
      /\ UNCHANGED <<status, ntok, ncomp, recved, gpu, phase, finished_ids, trackers,
                     meta, workerVars, stray, prompt>>
  BY DEF ScheduleRunning
<1>2. PICK k \in 1 .. (ntok[r] - ncomp[r]) :
       LET more == Max({BlocksFor(ncomp[r] + k) - Len(table[r]), 0})
       IN  /\ Fits(more)
           /\ table' = [table EXCEPT ![r] = Grown(table[r], more)]
           /\ Scheduled(r, "cached", Grown(<<>>, more), ncomp[r], k)
  BY DEF ScheduleRunning
<1> DEFINE need == BlocksFor(ncomp[r] + k) - Len(table[r])
           more == Max({need, 0})
           new == Grown(<<>>, more)
<1>3. /\ Fits(more)
      /\ table' = [table EXCEPT ![r] = Grown(table[r], more)]
      /\ sched' = [sched EXCEPT ![r] = [kind |-> "cached", new |-> new,
                                        computed |-> ncomp[r], k |-> k]]
  BY <1>2 DEF Scheduled
<1>4. /\ ncomp[r] \in Nat /\ ntok[r] \in Nat /\ table[r] \in Seq(GpuBlocks)
      /\ Len(table[r]) \in Nat
  BY DEF TypeInv, VllmType
<1>5. k \in Nat /\ k > 0 /\ ncomp[r] + k <= ntok[r] /\ ncomp[r] + k \in Nat
  BY <1>4
<1>6. BlocksFor(ncomp[r] + k) \in Nat /\ ncomp[r] + k <= BlocksFor(ncomp[r] + k) * block_size
  BY <1>5, BlocksForFacts
<1>7. need \in Int /\ need + Len(table[r]) = BlocksFor(ncomp[r] + k)
  BY <1>4, <1>6
<1> HIDE DEF need
<1>8. more \in Nat /\ more >= need
  BY <1>7, PositivePart
<1> HIDE DEF more
<1>9. /\ new \in Seq(GpuBlocks) /\ Grown(table[r], more) = table[r] \o new
      /\ Len(Grown(table[r], more)) = Len(table[r]) + more
      /\ Gains(table[r], Grown(table[r], more))
  BY <1>3, <1>4, <1>8, GrownFromNothing, GrownConcat, GrownGains
<1> HIDE DEF new
<1>10. ncomp[r] + k <= Len(table[r] \o new) * block_size
  <2>0. Len(table[r] \o new) = Len(table[r]) + more
    BY <1>9
  <2>1. BlocksFor(ncomp[r] + k) <= Len(table[r] \o new) /\ Len(table[r] \o new) \in Nat
    BY <1>4, <1>7, <1>8, <2>0
  <2>2. block_size \in Nat
    BY ConnectorAssumption
  <2>3. BlocksFor(ncomp[r] + k) * block_size <= Len(table[r] \o new) * block_size
    BY <1>6, <2>1, <2>2
  <2> QED BY <1>5, <1>6, <2>1, <2>2, <2>3
<1>11. Decoding(r, k, new)
  BY <1>1, <1>3, <1>5, <1>9, <1>10 DEF Decoding
<1> QED BY <1>5, <1>9, <1>11 DEF Decodes

\* The tracker after an allocation.
LEMMA AllocTracker ==
  ASSUME NEW t \in Tracker, NEW blocks \in Seq(GpuBlocks), NEW ext \in Int
  PROVE  LET u == update_state_after_alloc(t, blocks, ext)
         IN  /\ u \in Tracker
             /\ u.lmcache_hits = t.lmcache_hits /\ u.vllm_hits = t.vllm_hits
             /\ u.num_stored_tokens = t.num_stored_tokens
             /\ u.lookup_resolved = t.lookup_resolved
             /\ u.load_pending = (t.load_pending \/ ext > 0)
             /\ /\ Len(t.block_ids) <= Len(blocks)
                /\ \A x \in 1 .. Len(t.block_ids) : blocks[x] = t.block_ids[x]
                => u.block_ids = blocks
<1> DEFINE u == update_state_after_alloc(t, blocks, ext)
           old == t.block_ids
           rest == Sliced(blocks, Len(old), Len(blocks))
<1>1. old \in Seq(GpuBlocks) /\ Len(old) \in Nat /\ Len(blocks) \in Nat
      /\ t.load_pending \in BOOLEAN
  BY DEF Tracker
<1>2. rest \in Seq(GpuBlocks)
  BY <1>1, SlicedFacts
<1>3. u = [t EXCEPT !.block_ids = old \o rest, !.load_pending = t.load_pending \/ ext > 0]
  BY DEF update_state_after_alloc
<1> HIDE DEF old
<1>4. Len(old) <= Len(blocks) => /\ Len(rest) = Len(blocks) - Len(old)
                                 /\ \A x \in 1 .. (Len(blocks) - Len(old)) : rest[x] = blocks[Len(old) + x]
  <2> DEFINE a == Len(old)
             b == Len(blocks)
  <2>1. a \in Nat /\ b \in Nat /\ b <= Len(blocks)
    BY <1>1
  <2> HIDE DEF a, b
  <2>2. a <= b => /\ Len(Sliced(blocks, a, b)) = b - a
                  /\ \A x \in 1 .. (b - a) : Sliced(blocks, a, b)[x] = blocks[a + x]
    BY <2>1, SlicedFacts
  <2> QED BY <2>2 DEF a, b
<1> HIDE DEF rest, u
<1>5. old \o rest \in Seq(GpuBlocks)
  BY <1>1, <1>2
<1>6. /\ Len(old) <= Len(blocks)
      /\ \A x \in 1 .. Len(old) : blocks[x] = old[x]
      => old \o rest = blocks
  <2> SUFFICES ASSUME Len(old) <= Len(blocks), \A x \in 1 .. Len(old) : blocks[x] = old[x]
               PROVE  old \o rest = blocks
    OBVIOUS
  <2>1. Len(rest) = Len(blocks) - Len(old)
    BY <1>4
  <2>2. /\ Len(old \o rest) = Len(blocks) /\ DOMAIN (old \o rest) = 1 .. Len(blocks)
        /\ DOMAIN blocks = 1 .. Len(blocks)
    BY <1>1, <1>2, <2>1
  <2>3. ASSUME NEW x \in 1 .. Len(blocks) PROVE (old \o rest)[x] = blocks[x]
    <3>1. CASE x <= Len(old)
      BY <1>1, <1>2, <2>2, <3>1
    <3>2. CASE x > Len(old)
      <4> DEFINE y == x - Len(old)
      <4>1. y \in 1 .. (Len(blocks) - Len(old)) /\ x = Len(old) + y
        BY <1>1, <3>2
      <4>2. (old \o rest)[x] = rest[y]
        BY <1>1, <1>2, <2>1, <3>2
      <4>3. rest[y] = blocks[Len(old) + y]
        BY <1>4, <4>1
      <4> HIDE DEF y
      <4> QED BY <4>1, <4>2, <4>3
    <3>3. x <= Len(old) \/ x > Len(old)
      BY <1>1
    <3> QED BY <3>1, <3>2, <3>3
  <2> DEFINE w == old \o rest
  <2>4. w \in Seq(GpuBlocks) /\ Len(w) = Len(blocks) /\ \A x \in 1 .. Len(blocks) : w[x] = blocks[x]
    BY <1>5, <2>2, <2>3
  <2> HIDE DEF w
  <2>5. w = blocks
    BY <2>4, SeqEqual
  <2> QED BY <2>5 DEF w
<1>7. u \in Tracker
  BY <1>1, <1>3, <1>5 DEF Tracker
<1>8. /\ u.lmcache_hits = t.lmcache_hits /\ u.vllm_hits = t.vllm_hits
      /\ u.num_stored_tokens = t.num_stored_tokens
      /\ u.lookup_resolved = t.lookup_resolved
      /\ u.load_pending = (t.load_pending \/ ext > 0) /\ u.block_ids = old \o rest
  BY <1>3 DEF Tracker
<1> QED BY <1>6, <1>7, <1>8 DEF u, old
-----------------------------------------------------------------------------

(***************************************************************************)
(* build_connector_meta, request by request.                               *)
(***************************************************************************)
Asked(r) == [trackers[r] EXCEPT !.load_pending = FALSE]
Computed(r) == [Asked(r) EXCEPT !.block_ids = Table(Asked(r), sched[r]),
                                !.num_computed_tokens = sched[r].computed + sched[r].k]
Ready(r) == [Computed(r) EXCEPT !.num_stored_tokens = StoreEnd(r, Computed(r))]
Retrieves == {r \in Requests : Known(r) /\ trackers[r].load_pending = TRUE}
Saving == {r \in Requests : /\ Known(r) /\ sched[r] # Idle
                            /\ StoreEnd(r, Computed(r)) > trackers[r].num_stored_tokens}

Builds ==
  /\ phase = "schedule" /\ phase' = "load"
  /\ meta' = [load |-> {generate_retrieve_op(r, trackers[r]) : r \in Retrieves},
              store |-> {generate_store_op(r, Computed(r)) : r \in Saving}]
  /\ DOMAIN trackers' = Requests
  /\ trackers' = [r \in Requests |-> trackers'[r]]
  /\ \A r \in Requests :
       /\ ~Known(r) => trackers'[r] = trackers[r]
       /\ Known(r) /\ sched[r] = Idle => trackers'[r] = Asked(r)
       /\ Known(r) /\ sched[r] # Idle => trackers'[r] = Ready(r)
  /\ UNCHANGED <<vllmVars, gpu, sched, finished_ids, workerVars, stray, prompt>>

\* A tracker that is known, and the one without its pending load.
LEMMA AskedFacts ==
  ASSUME TypeInv, NEW r \in Requests, Known(r)
  PROVE  /\ trackers[r] \in Tracker /\ Asked(r) \in Tracker
         /\ Asked(r).lmcache_hits = trackers[r].lmcache_hits
         /\ Asked(r).vllm_hits = trackers[r].vllm_hits
         /\ Asked(r).block_ids = trackers[r].block_ids
         /\ Asked(r).num_computed_tokens = trackers[r].num_computed_tokens
         /\ Asked(r).num_stored_tokens = trackers[r].num_stored_tokens
         /\ Asked(r).lookup_resolved = trackers[r].lookup_resolved
         /\ Asked(r).load_pending = FALSE
         /\ trackers[r].load_pending = FALSE => Asked(r) = trackers[r]
<1>1. trackers[r] \in Tracker
  BY DEF TypeInv, ConnectorType, Known
<1> QED BY <1>1 DEF Asked, Tracker

\* The tracker of a scheduled request when the scheduler's output is taken
\* over.
LEMMA ComputedFacts ==
  ASSUME TypeInv, NEW r \in Requests, Known(r), sched[r] # Idle
  PROVE  /\ sched[r] \in Scheduling
         /\ Computed(r) \in Tracker
         /\ Computed(r).lmcache_hits = trackers[r].lmcache_hits
         /\ Computed(r).vllm_hits = trackers[r].vllm_hits
         /\ Computed(r).block_ids = Table(trackers[r], sched[r])
         /\ Computed(r).num_computed_tokens = sched[r].computed + sched[r].k
         /\ Computed(r).num_stored_tokens = trackers[r].num_stored_tokens
         /\ Computed(r).lookup_resolved = trackers[r].lookup_resolved
         /\ Computed(r).load_pending = FALSE
<1>1. sched[r] \in Scheduling
  BY DEF TypeInv, VllmType
<1>2. sched[r].new \in Seq(GpuBlocks) /\ sched[r].computed + sched[r].k \in Nat
  BY <1>1 DEF Scheduling
<1>3. Asked(r) \in Tracker /\ Asked(r).block_ids = trackers[r].block_ids
  BY AskedFacts
<1>4. Asked(r).block_ids \in Seq(GpuBlocks)
  BY <1>3 DEF Tracker
<1> DEFINE b == Table(Asked(r), sched[r])
           c == sched[r].computed + sched[r].k
<1>5. b \in Seq(GpuBlocks) /\ b = Table(trackers[r], sched[r])
  BY <1>2, <1>3, <1>4 DEF Table
<1>6. c \in Nat
  BY <1>2
<1>7. Computed(r) = [Asked(r) EXCEPT !.block_ids = b, !.num_computed_tokens = c]
  BY DEF Computed
<1> HIDE DEF b, c
<1>8. /\ Computed(r) \in Tracker
      /\ Computed(r).block_ids = b /\ Computed(r).num_computed_tokens = c
      /\ Computed(r).lmcache_hits = Asked(r).lmcache_hits
      /\ Computed(r).vllm_hits = Asked(r).vllm_hits
      /\ Computed(r).num_stored_tokens = Asked(r).num_stored_tokens
      /\ Computed(r).lookup_resolved = Asked(r).lookup_resolved
      /\ Computed(r).load_pending = Asked(r).load_pending
  BY <1>3, <1>5, <1>6, <1>7 DEF Tracker
<1> QED BY <1>1, <1>5, <1>8, AskedFacts DEF c

\* Where the STORE that is due ends: on a chunk boundary when it starts on
\* one, and not behind what is available.
LEMMA StoreEndFacts ==
  ASSUME TypeInv, NEW r \in Requests, NEW t \in Tracker
  PROVE  LET e == StoreEnd(r, t)
         IN  /\ e \in Nat /\ e >= t.num_stored_tokens
             /\ t.num_stored_tokens % chunk_size = 0 => e % chunk_size = 0
             /\ e > t.num_stored_tokens =>
                  /\ e <= Len(t.block_ids) * block_size
                  /\ e <= t.num_computed_tokens
<1> DEFINE av == available(r, t)
           s == t.num_stored_tokens
           c == t.num_computed_tokens
           room == Len(t.block_ids) * block_size
           n == (av - s) \div chunk_size
           e == StoreEnd(r, t)
<1>1. s \in Nat /\ c \in Nat /\ Len(t.block_ids) \in Nat
  BY DEF Tracker
<1>2. ntok[r] \in Nat
  BY DEF TypeInv, VllmType
<1>3. chunk_size \in Nat \ {0} /\ block_size \in Nat
  BY ConnectorAssumption
<1>4. room \in Nat
  BY <1>1, <1>3
<1>5. av = Min({ntok[r], room, c})
  BY DEF available
<1>6. e = IF n <= 0 THEN s ELSE s + n * chunk_size
  BY DEF StoreEnd
<1> HIDE DEF av, s, c, room, e
<1>7. av \in Nat /\ av <= room /\ av <= c
  <2>1. ntok[r] \in Int /\ room \in Int /\ c \in Int
    BY <1>1, <1>2, <1>4
  <2> DEFINE M == Min({ntok[r], room, c})
  <2>2. M \in {ntok[r], room, c} /\ M <= room /\ M <= c
    BY ONLY <2>1, OfThree
  <2> QED BY <1>1, <1>2, <1>4, <1>5, <2>2
<1>8. n \in Int /\ chunk_size * n <= av - s
  BY <1>1, <1>3, <1>7
<1> HIDE DEF n
<1>9. CASE n <= 0
  <2>1. e = s
    BY <1>6, <1>9
  <2> QED BY <1>1, <2>1 DEF s, e
<1>10. CASE ~(n <= 0)
  <2>1. e = s + n * chunk_size /\ n \in Nat
    BY <1>6, <1>8, <1>10
  <2>2. n * chunk_size \in Nat /\ (n * chunk_size) % chunk_size = 0
    BY <1>3, <2>1, MultipleFacts
  <2>3. s % chunk_size = 0 => e % chunk_size = 0
    BY <1>1, <1>3, <2>1, <2>2, MultiplesAdd
  <2>4. e \in Nat /\ e >= s
    BY <1>1, <2>1, <2>2
  <2>5. e <= av
    BY <1>1, <1>3, <1>7, <1>8, <2>1
  <2>6. e <= room /\ e <= c
    BY <1>1, <1>4, <1>7, <2>4, <2>5
  <2> QED BY <2>3, <2>4, <2>6 DEF s, e, room, c
<1> QED BY <1>9, <1>10

\* The tracker of a scheduled request behind build_connector_meta.
LEMMA ReadyFacts ==
  ASSUME TypeInv, NEW r \in Requests, Known(r), sched[r] # Idle
  PROVE  /\ Ready(r) \in Tracker
         /\ Ready(r).lmcache_hits = trackers[r].lmcache_hits
         /\ Ready(r).vllm_hits = trackers[r].vllm_hits
         /\ Ready(r).block_ids = Table(trackers[r], sched[r])
         /\ Ready(r).num_stored_tokens = StoreEnd(r, Computed(r))
         /\ Ready(r).lookup_resolved = trackers[r].lookup_resolved
         /\ Ready(r).load_pending = FALSE
<1>1. Computed(r) \in Tracker
  BY ComputedFacts
<1>2. StoreEnd(r, Computed(r)) \in Nat
  BY <1>1, StoreEndFacts
<1> DEFINE e == StoreEnd(r, Computed(r))
           c == Computed(r)
<1>3. Ready(r) = [c EXCEPT !.num_stored_tokens = e]
  BY DEF Ready
<1>4. e \in Nat /\ c \in Tracker
  BY <1>1, <1>2
<1> HIDE DEF e, c
<1>5. /\ Ready(r) \in Tracker
      /\ Ready(r).lmcache_hits = c.lmcache_hits /\ Ready(r).vllm_hits = c.vllm_hits
      /\ Ready(r).block_ids = c.block_ids /\ Ready(r).num_stored_tokens = e
      /\ Ready(r).lookup_resolved = c.lookup_resolved /\ Ready(r).load_pending = c.load_pending
  BY <1>3, <1>4 DEF Tracker
<1> QED BY <1>5, ComputedFacts DEF e, c

\* BuildMeta in these terms.
LEMMA BuildSteps ==
  ASSUME TypeInv, BuildMeta
  PROVE  Builds
<1>1. /\ phase = "schedule" /\ phase' = "load"
      /\ UNCHANGED <<vllmVars, gpu, sched, finished_ids, workerVars, stray, prompt>>
  BY DEF BuildMeta
<1> DEFINE K == {r \in Requests : trackers[r] # NoTracker}
           L == {r \in K : trackers[r].load_pending}
           R == {r \in K : sched[r] # Idle}
           D == {r \in R : StoreEnd(r, Computed(r)) > Computed(r).num_stored_tokens}
<1>2. meta' = [load |-> {generate_retrieve_op(r, trackers[r]) : r \in L},
               store |-> {generate_store_op(r, Computed(r)) : r \in D}]
  BY DEF BuildMeta, Asked, Computed
<1>3. trackers' = [r \in Requests |->
           IF r \in R THEN Ready(r) ELSE IF r \in L THEN Asked(r) ELSE trackers[r]]
  BY DEF BuildMeta, Asked, Computed, Ready
<1>4. \A r \in K : trackers[r].load_pending \in BOOLEAN
  BY AskedFacts DEF Tracker, Known
<1>5. L = Retrieves
  BY <1>4 DEF Retrieves, Known
<1>6. \A r \in R : Computed(r).num_stored_tokens = trackers[r].num_stored_tokens
  BY ComputedFacts DEF Known
<1>7. D = Saving
  BY <1>6 DEF Saving, Known
<1>8. ASSUME NEW r \in Requests, Known(r), sched[r] = Idle
      PROVE  trackers'[r] = Asked(r)
  <2>1. CASE r \in L
    BY <1>3, <1>8, <2>1
  <2>2. CASE r \notin L
    <3>1. trackers[r].load_pending = FALSE
      BY <1>4, <1>8, <2>2 DEF Known
    <3>2. Asked(r) = trackers[r]
      BY <1>8, <3>1, AskedFacts
    <3> QED BY <1>3, <1>8, <2>2, <3>2
  <2> QED BY <2>1, <2>2
<1>9. \A r \in Requests : Known(r) /\ sched[r] # Idle => trackers'[r] = Ready(r)
  BY <1>3 DEF Known
<1>10. \A r \in Requests : ~Known(r) => trackers'[r] = trackers[r]
  BY <1>3 DEF Known
<1>11. DOMAIN trackers' = Requests /\ trackers' = [r \in Requests |-> trackers'[r]]
  BY <1>3
<1> HIDE DEF K, L, R, D
<1> QED BY <1>1, <1>2, <1>5, <1>7, <1>8, <1>9, <1>10, <1>11 DEF Builds

\* A RETRIEVE is an operation.
LEMMA RetrieveType ==
  ASSUME NEW r \in Requests, NEW t \in Tracker
  PROVE  generate_retrieve_op(r, t) \in Operation /\ ChunkStart(t) \in Nat
<1>1. /\ t.vllm_hits \in Nat /\ t.lmcache_hits \in Nat /\ t.block_ids \in Seq(GpuBlocks)
  BY DEF Tracker
<1>2. block_size \in Nat \ {0} /\ chunk_size \in Nat \ {0}
  BY ConnectorAssumption
<1>3. ChunkStart(t) \in Nat
  BY <1>1, <1>2, DivFacts DEF ChunkStart
<1>4. ChunkStart(t) \div block_size \in Nat /\ t.lmcache_hits \div block_size \in Nat
  BY <1>1, <1>2, <1>3, DivFacts
<1> DEFINE b == Sliced(t.block_ids, ChunkStart(t) \div block_size, t.lmcache_hits \div block_size)
           k == t.vllm_hits - ChunkStart(t)
<1>5. b \in Seq(GpuBlocks)
  BY <1>1, <1>4, SlicedFacts
<1>6. k \in Int
  BY <1>1, <1>3
<1>7. generate_retrieve_op(r, t) =
        [r |-> r, start |-> ChunkStart(t), end |-> t.lmcache_hits, skip |-> k, block_ids |-> b]
  BY DEF generate_retrieve_op, LoadStoreOp
<1> HIDE DEF b, k
<1> QED BY <1>1, <1>3, <1>5, <1>6, <1>7 DEF Operation

\* A STORE is an operation.
LEMMA StoreType ==
  ASSUME TypeInv, NEW r \in Requests, NEW t \in Tracker
  PROVE  generate_store_op(r, t) \in Operation
<1> DEFINE e == StoreEnd(r, t)
<1>1. /\ t.num_stored_tokens \in Nat /\ t.block_ids \in Seq(GpuBlocks) /\ e \in Nat
  BY StoreEndFacts DEF Tracker
<1>2. block_size \in Nat \ {0} /\ chunk_size \in Nat \ {0}
  BY ConnectorAssumption
<1> HIDE DEF e
<1>3. t.num_stored_tokens \div block_size \in Nat /\ e \div block_size \in Nat
  BY <1>1, <1>2, DivFacts
<1> DEFINE b == Sliced(t.block_ids, t.num_stored_tokens \div block_size, e \div block_size)
<1>4. b \in Seq(GpuBlocks)
  BY <1>1, <1>3, SlicedFacts
<1>5. generate_store_op(r, t) =
        [r |-> r, start |-> t.num_stored_tokens, end |-> e, skip |-> 0, block_ids |-> b]
  BY DEF generate_store_op, LoadStoreOp, e
<1> HIDE DEF b
<1> QED BY <1>1, <1>4, <1>5 DEF Operation
-----------------------------------------------------------------------------

(***************************************************************************)
(* The steps, and TypeInv.                                                 *)
(***************************************************************************)
RequestStep(r) ==
  \/ Arrive(r) \/ Waits(r) \/ Allocates(r) \/ Continues(r) \/ Decodes(r)
  \/ Preempt(r) \/ Abort(r) \/ StoreReply(r)

Step ==
  \/ \E r \in Requests : RequestStep(r)
  \/ Builds \/ StartLoad \/ Forward \/ WaitForSave \/ GetFinished
  \/ \E l \in loads : LoadReply(l) \/ LoadFails(l) \/ Scatter(l)

\* Every step is one of these.
LEMMA NextSteps ==
  ASSUME TypeInv, Next
  PROVE  Step
<1>1. ASSUME NEW r \in Requests,
             Arrive(r) \/ Schedule(r) \/ Preempt(r) \/ Abort(r) \/ StoreReply(r)
      PROVE  RequestStep(r)
  BY <1>1, WaitingSteps, LoadedSteps, RunningSteps DEF RequestStep, Schedule
<1>2. BuildMeta => Builds
  BY BuildSteps
<1> QED BY <1>1, <1>2 DEF Next, Step, Worker, LoadStep

\* Appending to a sequence.
LEMMA AppendFacts ==
  ASSUME NEW s, NEW e, IsSeq(s)
  PROVE  /\ IsSeq(Append(s, e)) /\ Len(s) \in Nat /\ Len(Append(s, e)) = Len(s) + 1
         /\ \A n \in 1 .. Len(s) : Append(s, e)[n] = s[n]
         /\ Append(s, e)[Len(s) + 1] = e
<1> DEFINE S == ToSet(s) \cup {e}
           T == ToSet(s)
<1>1. s \in Seq(T)
  BY DEF IsSeq
<1> HIDE DEF T
<1>2. s \in Seq(T \cup {e}) /\ e \in T \cup {e}
  BY <1>1
<1>3. Append(s, e) \in Seq(T \cup {e})
  BY <1>2
<1>4. IsSeq(Append(s, e))
  BY <1>3, SeqIsSeq
<1>5. /\ Len(s) \in Nat /\ Len(Append(s, e)) = Len(s) + 1
      /\ \A n \in 1 .. Len(s) : Append(s, e)[n] = s[n]
      /\ Append(s, e)[Len(s) + 1] = e
  BY <1>2
<1> QED BY <1>4, <1>5

\* The initial states have their types.
LEMMA TypeInit ==
  ASSUME Init
  PROVE  TypeInv
<1>1. prompt \in [Requests -> Nat \ {0}] /\ \A r \in Requests : prompt[r] <= MaxTokens[r]
  BY ConnectorAssumption DEF Init
<1>2. ntok \in [Requests -> Nat] /\ \A r \in Requests : prompt[r] <= ntok[r] /\ ntok[r] <= MaxTokens[r]
  BY <1>1 DEF Init
<1>3. VllmType
  BY <1>1, <1>2 DEF Init, VllmType
<1>4. IsSeq(<<>>)
  BY DEF IsSeq
<1>5. ConnectorType
  BY <1>4 DEF Init, ConnectorType
<1> QED BY <1>3, <1>5 DEF TypeInv

\* The steps of vLLM's scheduler keep the types.
LEMMA TypeScheduling ==
  ASSUME TypeInv, NEW r \in Requests, RequestStep(r)
  PROVE  TypeInv'
<1> USE DEF TypeInv
<1>1. CASE Arrive(r)
  BY <1>1 DEF Arrive, VllmType, ConnectorType, workerVars
<1>2. CASE Waits(r)
  <2>1. PICK t \in Tracker : trackers' = [trackers EXCEPT ![r] = t]
    BY <1>2 DEF Waits
  <2>2. UNCHANGED <<vllmVars, gpu, phase, sched, finished_ids, meta, workerVars, stray, prompt>>
    BY <1>2 DEF Waits
  <2>3. VllmType'
    BY <2>2 DEF VllmType, vllmVars
  <2>4. ConnectorType'
    BY <2>1, <2>2 DEF ConnectorType, workerVars
  <2> QED BY <2>3, <2>4
<1>3. CASE Allocates(r)
  <2>1. PICK local \in Nat, t \in Tracker, ext \in Int, k \in Nat, new \in Seq(GpuBlocks) :
               Allocation(r, local, t, ext, k, new)
    BY <1>3 DEF Allocates
  <2> DEFINE u == update_state_after_alloc(t, new, ext)
  <2>2. u \in Tracker
    BY AllocTracker
  <2>3. UNCHANGED <<ntok, recved, phase, finished_ids, meta, workerVars, stray, prompt>>
        /\ trackers' = [trackers EXCEPT ![r] = u]
    BY <2>1 DEF Allocation
  <2> HIDE DEF u
  <2>4. ConnectorType'
    BY <2>2, <2>3 DEF ConnectorType, workerVars
  <2>5. DOMAIN gpu' = DOMAIN gpu
    BY <2>1 DEF Allocation, PrefixCached
  <2>6. ncomp' \in [Requests -> Nat] /\ table' \in [Requests -> Seq(GpuBlocks)]
    BY <2>1 DEF Allocation, VllmType
  <2>7. status' \in [Requests -> {"new", "waiting", "loading", "running", "preempted",
                              "finished", "gone"}]
    BY <2>1 DEF Allocation, VllmType
  <2>8. sched' \in [Requests -> {Idle} \cup Scheduling]
    <3> DEFINE s == [kind |-> IF status[r] = "waiting" THEN "new" ELSE "resumed",
                       new |-> new, computed |-> local + ext, k |-> k]
    <3>1. local + ext \in Nat
      BY <2>1 DEF Allocation
    <3>2. s \in Scheduling
      BY <3>1 DEF Scheduling
    <3>3. sched' = IF ext > 0 THEN sched ELSE [sched EXCEPT ![r] = s]
      BY <2>1 DEF Allocation
    <3> HIDE DEF s
    <3> QED BY <3>2, <3>3 DEF VllmType
  <2>9. VllmType'
    BY <2>3, <2>5, <2>6, <2>7, <2>8 DEF VllmType
  <2> QED BY <2>4, <2>9
<1>4. CASE Continues(r)
  <2>1. PICK n \in Nat, k \in Nat, new \in Seq(GpuBlocks) : Continuation(r, n, k, new)
    BY <1>4 DEF Continues
  <2> DEFINE u == update_state_after_alloc(trackers[r], new, 0)
             s == [kind |-> "new", new |-> new, computed |-> n, k |-> k]
  <2>2. u \in {NoTracker} \cup Tracker
    <3>1. CASE trackers[r] = NoTracker
      <4>1. update_state_after_alloc(NoTracker, new, 0) = NoTracker
        BY DEF update_state_after_alloc, NoTracker
      <4> QED BY <3>1, <4>1
    <3>2. CASE trackers[r] \in Tracker
      <4>1. 0 \in Int
        OBVIOUS
      <4> QED BY <3>2, <4>1, AllocTracker
    <3> QED BY <3>1, <3>2 DEF ConnectorType
  <2>3. s \in Scheduling
    BY DEF Scheduling
  <2>4. UNCHANGED <<ntok, gpu, phase, finished_ids, meta, workerVars, stray, prompt>>
        /\ trackers' = [trackers EXCEPT ![r] = u] /\ sched' = [sched EXCEPT ![r] = s]
    BY <2>1 DEF Continuation
  <2> HIDE DEF u, s
  <2>5. ConnectorType'
    BY <2>2, <2>4 DEF ConnectorType, workerVars
  <2>6. sched' \in [Requests -> {Idle} \cup Scheduling]
    BY <2>3, <2>4 DEF VllmType
  <2>7. VllmType'
    BY <2>1, <2>4, <2>6 DEF Continuation, VllmType
  <2> QED BY <2>5, <2>7
<1>5. CASE Decodes(r)
  <2>1. PICK k \in Nat, new \in Seq(GpuBlocks) : Decoding(r, k, new)
    BY <1>5 DEF Decodes
  <2> DEFINE s == [kind |-> "cached", new |-> new, computed |-> ncomp[r], k |-> k]
  <2>2. s \in Scheduling
    BY DEF Scheduling, VllmType
  <2>3. /\ UNCHANGED <<status, ntok, ncomp, recved, gpu, phase, finished_ids, trackers,
                       meta, workerVars, stray, prompt>>
        /\ sched' = [sched EXCEPT ![r] = s]
        /\ table' = [table EXCEPT ![r] = table[r] \o new]
    BY <2>1 DEF Decoding
  <2> HIDE DEF s
  <2>4. ConnectorType'
    BY <2>3 DEF ConnectorType, workerVars
  <2>5. VllmType'
    BY <2>2, <2>3 DEF VllmType
  <2> QED BY <2>4, <2>5
<1>6. CASE Preempt(r)
  BY <1>6 DEF Preempt, VllmType, ConnectorType, workerVars
<1>7. CASE Abort(r)
  <2>1. ConnectorType'
    BY <1>7 DEF Abort, ConnectorType, workerVars
  <2>2. VllmType'
    BY <1>7 DEF Abort, VllmType
  <2> QED BY <2>1, <2>2
<1>8. CASE StoreReply(r)
  <2>1. VllmType'
    BY <1>8 DEF StoreReply, VllmType, vllmVars
  <2>2. ConnectorType'
    BY <1>8 DEF StoreReply, ConnectorType
  <2> QED BY <2>1, <2>2
<1> QED BY <1>1, <1>2, <1>3, <1>4, <1>5, <1>6, <1>7, <1>8 DEF RequestStep

\* The steps of a forward pass keep the types.
LEMMA TypePass ==
  ASSUME TypeInv, Builds \/ StartLoad \/ Forward \/ WaitForSave
  PROVE  TypeInv'
<1> USE DEF TypeInv
<1>1. CASE Builds
  <2>1. VllmType'
    BY <1>1 DEF Builds, VllmType, vllmVars
  <2>2. trackers' \in [Requests -> {NoTracker} \cup Tracker]
    <3>1. ASSUME NEW r \in Requests PROVE trackers'[r] \in {NoTracker} \cup Tracker
      BY <1>1, AskedFacts, ReadyFacts DEF Builds, Known
    <3>2. trackers' = [r \in Requests |-> trackers'[r]]
      BY <1>1 DEF Builds
    <3> QED BY <3>1, <3>2
  <2>3. meta' \in [load : SUBSET Operation, store : SUBSET Operation]
    <3> DEFINE L == {generate_retrieve_op(r, trackers[r]) : r \in Retrieves}
               S == {generate_store_op(r, Computed(r)) : r \in Saving}
    <3>1. L \subseteq Operation
      BY RetrieveType, AskedFacts DEF Retrieves
    <3>2. S \subseteq Operation
      BY StoreType, ComputedFacts DEF Saving
    <3>3. meta' = [load |-> L, store |-> S]
      BY <1>1 DEF Builds
    <3> HIDE DEF L, S
    <3> QED BY <3>1, <3>2, <3>3
  <2>4. ConnectorType'
    BY <1>1, <2>2, <2>3 DEF Builds, ConnectorType, workerVars
  <2> QED BY <2>1, <2>4
<1>2. CASE StartLoad
  <2>1. VllmType'
    BY <1>2 DEF StartLoad, VllmType, vllmVars
  <2>2. meta.load \subseteq Operation
    BY DEF ConnectorType
  <2>3. loads' \subseteq Load
    <3>1. \A o \in meta.load : [op |-> o, at |-> "reply"] \in Load
      BY <2>2 DEF Load
    <3> QED BY <1>2, <3>1 DEF StartLoad, ConnectorType
  <2>4. load_futures' \subseteq Requests
    BY <1>2, <2>2 DEF StartLoad, ConnectorType, Operation
  <2>5. ConnectorType'
    BY <1>2, <2>3, <2>4 DEF StartLoad, ConnectorType
  <2> QED BY <2>1, <2>5
<1>3. CASE Forward
  <2>1. DOMAIN gpu' = DOMAIN gpu
    BY <1>3 DEF Forward
  <2>2. ncomp' \in [Requests -> Nat]
    <3>1. \A r \in Requests : sched[r] # Idle => sched[r].computed + sched[r].k \in Nat
      BY DEF VllmType, Scheduling
    <3> QED BY <1>3, <3>1 DEF Forward, VllmType
  <2>3. /\ phase' = "save"
        /\ UNCHANGED <<status, ntok, table, recved, sched, finished_ids, trackers,
                       meta, workerVars, stray, prompt>>
    BY <1>3 DEF Forward
  <2>4. VllmType'
    BY <2>1, <2>2, <2>3 DEF VllmType
  <2>5. ConnectorType'
    BY <2>3 DEF ConnectorType, workerVars
  <2> QED BY <2>4, <2>5
<1>4. CASE WaitForSave
  <2>1. /\ phase' = "report"
        /\ UNCHANGED <<vllmVars, gpu, sched, finished_ids, trackers, meta,
                       loads, load_futures, pending_sends, failed, stray, prompt>>
        /\ DOMAIN stores' = Requests /\ DOMAIN sent' = Requests
    BY <1>4 DEF WaitForSave
  <2>2. \A r \in Requests : \/ sent'[r] = sent[r]
                            \/ \E e : sent'[r] = Append(sent[r], e)
    BY <1>4 DEF WaitForSave
  <2>3. ASSUME NEW r \in Requests PROVE IsSeq(sent'[r])
    <3>1. IsSeq(sent[r])
      BY DEF ConnectorType
    <3>2. ASSUME NEW e, sent'[r] = Append(sent[r], e) PROVE IsSeq(sent'[r])
      <4>1. IsSeq(Append(sent[r], e))
        BY <3>1, AppendFacts
      <4> QED BY <3>2, <4>1
    <3> QED BY <2>2, <3>1, <3>2
  <2>4. VllmType'
    BY <2>1 DEF VllmType, vllmVars
  <2>5. ConnectorType'
    BY <2>1, <2>3 DEF ConnectorType
  <2> QED BY <2>4, <2>5
<1> QED BY <1>1, <1>2, <1>3, <1>4
Complete == {r \in Requests : sched[r] # Idle /\ ncomp[r] = ntok[r]}
Sending == {r \in Sends : stores[r] = 0}
Received == {r \in load_futures : LoadDone(r)}

Reports(Ends) ==
  /\ \A r \in Complete : ntok[r] = MaxTokens[r] => r \in Ends
  /\ ntok' = [r \in Requests |-> IF r \in Complete \ Ends THEN ntok[r] + 1 ELSE ntok[r]]
  /\ status' = [r \in Requests |-> CASE r \in Sending -> "gone"
                                     [] r \in Ends -> "finished"
                                     [] OTHER -> status[r]]
  /\ trackers' = [r \in Requests |-> IF r \in Ends THEN NoTracker ELSE trackers[r]]
  /\ finished_ids' = Ends
  /\ pending_sends' = Sends \ Sending
  /\ load_futures' = load_futures \ Received
  /\ loads' = {l \in loads : l.op.r \in Received => l.at # "done"}
  /\ recved' = recved \cup {r \in Received : status[r] = "loading"}
  /\ table' = [r \in Requests |-> IF r \in Sending THEN <<>> ELSE table[r]]
  /\ phase = "report" /\ phase' = "schedule"
  /\ sched' = [r \in Requests |-> Idle]
  /\ meta' = [load |-> {}, store |-> {}]
  /\ UNCHANGED <<ncomp, gpu, stores, sent, failed, stray, prompt>>

\* GetFinished in these terms.
LEMMA ReportSteps ==
  ASSUME GetFinished
  PROVE  \E Ends \in SUBSET Complete : Reports(Ends)
BY DEF GetFinished, Reports, Complete, Sending, Received

\* The report at the end of a pass keeps the types.
LEMMA TypeReport ==
  ASSUME TypeInv, GetFinished
  PROVE  TypeInv'
<1> USE DEF TypeInv
<1>1. PICK Ends \in SUBSET Complete : Reports(Ends)
  BY ReportSteps
<1>2. Reports(Ends)
  BY <1>1
<1> USE DEF Reports
<1>3. Ends \subseteq Requests /\ Sends \subseteq Requests /\ Received \subseteq Requests
  BY DEF VllmType, ConnectorType, Sends, Complete, Received
<1>4. ASSUME NEW r \in Requests
      PROVE  ntok'[r] \in Nat /\ prompt'[r] <= ntok'[r] /\ ntok'[r] <= MaxTokens[r]
  <2>1. /\ ntok[r] \in Nat /\ prompt[r] \in Nat /\ MaxTokens[r] \in Nat
        /\ prompt[r] <= ntok[r] /\ ntok[r] <= MaxTokens[r]
    BY ConnectorAssumption DEF VllmType
  <2>2. CASE r \in Complete \ Ends
    <3>1. ntok[r] # MaxTokens[r] /\ ntok'[r] = ntok[r] + 1 /\ prompt'[r] = prompt[r]
      BY <1>1, <1>2, <2>2
    <3> QED BY <2>1, <3>1
  <2>3. CASE r \notin Complete \ Ends
    <3>1. ntok'[r] = ntok[r] /\ prompt'[r] = prompt[r]
      BY <1>1, <1>2, <2>3
    <3> QED BY <2>1, <3>1
  <2> QED BY <2>2, <2>3
<1>5. ntok' \in [Requests -> Nat]
  BY <1>1, <1>4
<1>6. status' \in [Requests -> {"new", "waiting", "loading", "running", "preempted",
                              "finished", "gone"}]
  <2>1. ASSUME NEW r \in Requests PROVE status'[r] \in {"gone", "finished", status[r]}
    BY <1>1
  <2>2. status' = [r \in Requests |-> status'[r]]
    BY <1>1
  <2> QED BY <2>1, <2>2 DEF VllmType
<1>7. /\ table' \in [Requests -> Seq(GpuBlocks)] /\ sched' \in [Requests -> {Idle} \cup Scheduling]
      /\ recved' \subseteq Requests /\ finished_ids' \subseteq Requests
  BY <1>1, <1>2, <1>3 DEF VllmType
<1>8. VllmType'
  BY <1>2, <1>4, <1>5, <1>6, <1>7 DEF VllmType
<1>9. ConnectorType'
  BY <1>1, <1>2, <1>3 DEF ConnectorType
<1> QED BY <1>8, <1>9

\* A load thread keeps the types.
LEMMA TypeLoading ==
  ASSUME TypeInv, NEW l \in loads, LoadReply(l) \/ LoadFails(l) \/ Scatter(l)
  PROVE  TypeInv'
<1> USE DEF TypeInv
<1>1. l \in Load /\ \A at \in {"reply", "scatter", "done"} : [l EXCEPT !.at = at] \in Load
  BY DEF ConnectorType, Load
<1>2. loads' \subseteq Load
  BY <1>1 DEF LoadReply, LoadFails, Scatter, Moves, ConnectorType
<1>3. DOMAIN gpu' = DOMAIN gpu
  BY DEF LoadReply, LoadFails, Scatter
<1>4. UNCHANGED <<vllmVars, phase, sched, finished_ids, trackers, meta,
                  load_futures, stores, pending_sends, sent, stray, prompt>>
  BY DEF LoadReply, LoadFails, Scatter
<1>5. VllmType'
  BY <1>3, <1>4 DEF VllmType, vllmVars
<1>6. ConnectorType'
  BY <1>2, <1>4 DEF ConnectorType
<1> QED BY <1>5, <1>6

\* So every step keeps the types.
LEMMA TypeStep ==
  ASSUME TypeInv, [Next]_vars
  PROVE  TypeInv'
<1>1. CASE Next
  <2>1. Step
    BY <1>1, NextSteps
  <2> QED BY <2>1, TypeScheduling, TypePass, TypeReport, TypeLoading DEF Step
<1>2. CASE UNCHANGED vars
  BY <1>2 DEF vars, vllmVars, workerVars, TypeInv, VllmType, ConnectorType
<1> QED BY <1>1, <1>2
-----------------------------------------------------------------------------

(***************************************************************************)
(* StatusInv.                                                              *)
(***************************************************************************)

\* It holds initially.
LEMMA StatusInit ==
  ASSUME Init
  PROVE  StatusInv
BY DEF Init, StatusInv, StatusOf, OpStatus, InFlight, Due, Known

\* A request's scheduling leaves the other requests and the operations alone.
LEMMA StatusScheduling ==
  ASSUME TypeInv, StatusInv, NEW r \in Requests, RequestStep(r)
  PROVE  StatusInv'
<1>1. StatusOf(r) /\ OpStatus
  BY DEF StatusInv
<1>2. CASE Arrive(r)
  <2>1. ASSUME NEW q \in Requests PROVE StatusOf(q)'
    BY <1>2 DEF Arrive, StatusInv, StatusOf, Known, TypeInv, VllmType, workerVars
  <2>2. OpStatus'
    <3>1. \A o \in InFlight : o.r # r
      BY <1>2 DEF Arrive, StatusInv, OpStatus
    <3>2. \A o \in Due : o.r # r
      BY <1>2 DEF Arrive, StatusInv, OpStatus
    <3>3. InFlight' = InFlight /\ Due' = Due
      BY <1>2 DEF Arrive, InFlight, Due
    <3> QED BY <1>1, <1>2, <3>1, <3>2, <3>3 DEF Arrive, OpStatus, workerVars, TypeInv, VllmType
  <2> QED BY <2>1, <2>2 DEF StatusInv
<1>3. CASE StoreReply(r)
  <2>1. ASSUME NEW q \in Requests PROVE StatusOf(q)'
    BY <1>3 DEF StoreReply, StatusInv, StatusOf, Known, vllmVars
  <2>2. InFlight' = InFlight /\ Due' = Due
    BY <1>3 DEF StoreReply, InFlight, Due
  <2>3. OpStatus'
    BY <1>1, <1>3, <2>2 DEF StoreReply, OpStatus, vllmVars
  <2> QED BY <2>1, <2>3 DEF StatusInv
<1>4. CASE Waits(r) \/ Allocates(r) \/ Continues(r) \/ Decodes(r) \/ Preempt(r) \/ Abort(r)
  <2>1. phase = "schedule" /\ phase' = "schedule" /\ meta' = meta
        /\ loads' = loads /\ load_futures' = load_futures /\ pending_sends' = pending_sends
    BY <1>4 DEF Waits, Allocates, Allocation, Continues, Continuation, Decodes, Decoding,
                Preempt, Abort, workerVars
  <2>2. InFlight' = {} /\ Due' = {}
    BY <2>1 DEF InFlight, Due
  <2>3. OpStatus'
    BY <1>1, <2>1, <2>2 DEF OpStatus
  <2>4. StatusOf(r)'
    <3>1. CASE Waits(r)
      <4>1. PICK local \in Nat, t \in Tracker, ext \in Int :
               AnswerSays(r, local, t, ext) /\ trackers' = [trackers EXCEPT ![r] = t]
        BY <3>1 DEF Waits
      <4>2. /\ status[r] \in {"waiting", "preempted"} /\ status' = status /\ sched' = sched
            /\ finished_ids' = finished_ids /\ recved' = recved /\ stray' = stray
        BY <3>1 DEF Waits, vllmVars
      <4>3. t # NoTracker /\ t.load_pending = Base(r).load_pending
            /\ (status[r] = "preempted" => t.lookup_resolved = TRUE)
        BY <1>1, <4>1, TrackerIsOne DEF AnswerSays, StatusOf
      <4>4. t.load_pending = FALSE
        <5>1. Base(r) \in Tracker
          BY BaseType
        <5>2. Base(r).load_pending \in BOOLEAN
          BY <5>1 DEF Tracker
        <5> QED BY <1>1, <4>2, <4>3, <5>2 DEF StatusOf, Base, RequestTracker
      <4>5. trackers'[r] = t
        BY <4>1 DEF TypeInv, ConnectorType
      <4> QED BY <1>1, <2>1, <4>2, <4>3, <4>4, <4>5 DEF StatusOf, Known
    <3>2. CASE Allocates(r)
      <4>1. PICK local \in Nat, t \in Tracker, ext \in Int, k \in Nat, new \in Seq(GpuBlocks) :
               Allocation(r, local, t, ext, k, new)
        BY <3>2 DEF Allocates
      <4>2. /\ status[r] \in {"waiting", "preempted"} /\ AnswerSays(r, local, t, ext)
            /\ ext >= 0
            /\ finished_ids' = finished_ids /\ recved' = recved /\ stray' = stray
        BY <4>1 DEF Allocation
      <4> DEFINE u == update_state_after_alloc(t, new, ext)
      <4>3. /\ u \in Tracker /\ u.lookup_resolved = t.lookup_resolved
            /\ u.load_pending = (t.load_pending \/ ext > 0)
        BY AllocTracker
      <4>4. trackers'[r] = u /\ status'[r] = IF ext > 0 THEN "loading" ELSE "running"
        BY <4>1 DEF Allocation, TypeInv, ConnectorType, VllmType
      <4>5. ext > 0 => sched' = sched
        BY <4>1 DEF Allocation
      <4> HIDE DEF u
      <4>6. u # NoTracker /\ u.lookup_resolved = TRUE
        BY <4>2, <4>3, TrackerIsOne DEF AnswerSays
      <4>7. t.load_pending = FALSE
        <5>1. Base(r) \in Tracker
          BY BaseType
        <5>2. Base(r).load_pending \in BOOLEAN /\ t.load_pending = Base(r).load_pending
          BY <4>2, <5>1 DEF Tracker, AnswerSays
        <5> QED BY <1>1, <4>2, <5>2 DEF StatusOf, Base, RequestTracker
      <4>8. u.load_pending = TRUE => status'[r] = "loading"
        BY <4>3, <4>4, <4>7
      <4>9. sched'[r] # Idle => status'[r] = "running"
        BY <1>1, <4>2, <4>4, <4>5 DEF StatusOf
      <4> QED BY <1>1, <2>1, <4>2, <4>4, <4>6, <4>8, <4>9 DEF StatusOf, Known
    <3>3. CASE Continues(r)
      <4>1. PICK n \in Nat, k \in Nat, new \in Seq(GpuBlocks) : Continuation(r, n, k, new)
        BY <3>3 DEF Continues
      <4> DEFINE u == update_state_after_alloc(trackers[r], new, 0)
      <4>2. /\ status[r] = "loading" /\ r \in recved /\ recved' = recved \ {r}
            /\ finished_ids' = finished_ids /\ stray' = stray
            /\ trackers' = [trackers EXCEPT ![r] = u] /\ status' = [status EXCEPT ![r] = "running"]
        BY <4>1 DEF Continuation
      <4>3. trackers[r] \in Tracker /\ trackers[r].lookup_resolved = TRUE
            /\ trackers[r].load_pending = FALSE
        <5>1. trackers[r] \in Tracker
          BY <1>1, <4>2, AskedFacts DEF StatusOf
        <5> QED BY <1>1, <4>2, <5>1 DEF StatusOf, Tracker
      <4>4. u \in Tracker /\ u.lookup_resolved = TRUE /\ u.load_pending = FALSE
        <5>1. 0 \in Int /\ ~(0 > 0)
          OBVIOUS
        <5> QED BY <4>3, <5>1, AllocTracker
      <4> HIDE DEF u
      <4>5. trackers'[r] = u /\ status'[r] = "running" /\ u # NoTracker
        BY <4>2, <4>4, TrackerIsOne DEF TypeInv, ConnectorType, VllmType
      <4> QED BY <1>1, <2>1, <4>2, <4>4, <4>5 DEF StatusOf, Known
    <3>4. CASE Decodes(r)
      <4>1. PICK k \in Nat, new \in Seq(GpuBlocks) : Decoding(r, k, new)
        BY <3>4 DEF Decodes
      <4> QED BY <1>1, <2>1, <4>1 DEF Decoding, StatusOf, Known
    <3>5. CASE Preempt(r)
      BY <1>1, <2>1, <3>5 DEF Preempt, StatusOf, Known, TypeInv, VllmType
    <3>6. CASE Abort(r)
      <4>1. status'[r] = "finished" /\ trackers'[r] = NoTracker
        BY <3>6 DEF Abort, TypeInv, VllmType, ConnectorType
      <4> QED BY <1>1, <2>1, <3>6, <4>1 DEF Abort, StatusOf, Known
    <3> QED BY <1>4, <3>1, <3>2, <3>3, <3>4, <3>5, <3>6
  <2>5. ASSUME NEW q \in Requests, q # r PROVE StatusOf(q)'
    <3>1. StatusOf(q)
      BY DEF StatusInv
    <3>2. /\ status'[q] = status[q] /\ sched'[q] = sched[q] /\ trackers'[q] = trackers[q]
      BY <1>4, <2>5 DEF Waits, Allocates, Allocation, Continues, Continuation, Decodes,
              Decoding, Preempt, Abort, vllmVars, TypeInv, VllmType, ConnectorType
    <3>3. /\ q \in recved' <=> q \in recved
          /\ q \in finished_ids' <=> q \in finished_ids
          /\ q \in stray' <=> q \in stray
      BY <1>4, <2>5 DEF Waits, Allocates, Allocation, Continues, Continuation, Decodes,
              Decoding, Preempt, Abort, vllmVars
    <3> QED BY <2>1, <3>1, <3>2, <3>3 DEF StatusOf, Known
  <2> QED BY <2>3, <2>4, <2>5 DEF StatusInv
<1> QED BY <1>2, <1>3, <1>4 DEF RequestStep

\* The steps of a forward pass.
LEMMA StatusPass ==
  ASSUME TypeInv, StatusInv, Builds \/ StartLoad \/ Forward \/ WaitForSave
  PROVE  StatusInv'
<1>0. OpStatus
  BY DEF StatusInv
<1>1. CASE Builds
  <2>1. /\ phase = "schedule" /\ phase' = "load" /\ meta.load = {} /\ meta.store = {}
        /\ UNCHANGED <<vllmVars, gpu, sched, finished_ids, workerVars, stray, prompt>>
    BY <1>0, <1>1 DEF Builds, OpStatus
  <2>2. ASSUME NEW r \in Requests PROVE StatusOf(r)'
    <3>1. StatusOf(r)
      BY DEF StatusInv
    <3>2. ~Known(r) => ~Known(r)'
      BY <1>1 DEF Builds, Known
    <3>3. Known(r) => /\ Known(r)' /\ trackers'[r].load_pending = FALSE
                      /\ trackers'[r].lookup_resolved = trackers[r].lookup_resolved
      <4>1. CASE Known(r) /\ sched[r] = Idle
        <5>1. trackers'[r] = Asked(r)
          BY <1>1, <4>1 DEF Builds
        <5> QED BY <4>1, <5>1, AskedFacts, TrackerIsOne DEF Known
      <4>2. CASE Known(r) /\ sched[r] # Idle
        <5>1. trackers'[r] = Ready(r)
          BY <1>1, <4>2 DEF Builds
        <5> QED BY <4>2, <5>1, ReadyFacts, TrackerIsOne DEF Known
      <4> QED BY <4>1, <4>2
    <3>4. Known(r)' /\ trackers'[r].load_pending = TRUE => FALSE
      BY <3>2, <3>3
    <3> QED BY <2>1, <3>1, <3>2, <3>3, <3>4 DEF StatusOf, vllmVars, workerVars
  <2>3. ASSUME NEW o \in InFlight'
        PROVE  /\ status'[o.r] = "loading" /\ o.r \notin load_futures' \cup recved'
               /\ trackers'[o.r].load_pending = FALSE
    <3>1. o \in {generate_retrieve_op(r, trackers[r]) : r \in Retrieves}
      BY <1>1, <2>1 DEF Builds, InFlight
    <3>2. PICK r \in Retrieves : o = generate_retrieve_op(r, trackers[r])
      BY <3>1
    <3>3. o.r = r
      BY <3>2 DEF generate_retrieve_op, LoadStoreOp
    <3>4. r \in Requests /\ Known(r) /\ trackers[r].load_pending = TRUE
      BY DEF Retrieves
    <3>5. StatusOf(r)
      BY <3>4 DEF StatusInv
    <3>6. status[r] = "loading" /\ r \notin load_futures \cup recved /\ sched[r] = Idle
      BY <3>4, <3>5 DEF StatusOf
    <3>7. trackers'[r] = Asked(r)
      BY <1>1, <3>4, <3>6 DEF Builds
    <3>8. trackers'[r].load_pending = FALSE
      BY <3>4, <3>7, AskedFacts
    <3> QED BY <2>1, <3>3, <3>6, <3>8 DEF vllmVars, workerVars
  <2>4. ASSUME NEW o \in meta'.store
        PROVE  o.r \in Saving /\ o = generate_store_op(o.r, Computed(o.r))
    <3>1. PICK r \in Saving : o = generate_store_op(r, Computed(r))
      BY <1>1 DEF Builds
    <3>2. o.r = r
      BY <3>1 DEF generate_store_op, LoadStoreOp
    <3> QED BY <3>1, <3>2
  <2>5. \A o \in Due' : status'[o.r] = "running" /\ sched'[o.r] # Idle
    <3>1. Due' = meta'.store
      BY <2>1 DEF Due
    <3>2. \A r \in Saving : status[r] = "running" /\ sched[r] # Idle
      BY DEF Saving, StatusInv, StatusOf
    <3> QED BY <2>1, <2>4, <3>1, <3>2 DEF vllmVars
  <2>6. \A o, p \in meta'.store : o.r = p.r => o = p
    BY <2>4
  <2>7. OpStatus'
    BY <1>0, <2>1, <2>3, <2>5, <2>6 DEF OpStatus, vllmVars, workerVars
  <2> QED BY <2>2, <2>7 DEF StatusInv
<1>2. CASE StartLoad
  <2>1. /\ phase = "load" /\ phase' = "forward" /\ InFlight = meta.load /\ InFlight' = {}
        /\ Due' = Due /\ meta' = meta
    BY <1>2 DEF StartLoad, InFlight, Due
  <2>2. ASSUME NEW r \in Requests PROVE StatusOf(r)'
    <3>1. StatusOf(r)
      BY DEF StatusInv
    <3>2. UNCHANGED <<vllmVars, sched, finished_ids, trackers, pending_sends, stray>>
      BY <1>2 DEF StartLoad
    <3>3. CASE r \in load_futures
      <4>1. r \in load_futures'
        BY <1>2, <3>3 DEF StartLoad
      <4> QED BY <3>1, <3>2, <3>3, <4>1 DEF StatusOf, Known, vllmVars
    <3>4. CASE r \notin load_futures /\ r \in load_futures'
      <4>1. PICK o \in meta.load : r = o.r
        BY <1>2, <3>4 DEF StartLoad
      <4>2. /\ status[r] = "loading" /\ r \notin load_futures \cup recved
            /\ trackers[r].load_pending = FALSE
        BY <1>0, <2>1, <4>1 DEF OpStatus
      <4> QED BY <3>1, <3>2, <4>2 DEF StatusOf, Known, vllmVars
    <3>5. CASE r \notin load_futures'
      BY <3>1, <3>2, <3>5 DEF StatusOf, Known, vllmVars
    <3> QED BY <3>3, <3>4, <3>5
  <2>3. \A l \in loads' : l.op.r \in load_futures'
    BY <1>0, <1>2 DEF StartLoad, OpStatus
  <2>4. OpStatus'
    BY <1>0, <1>2, <2>1, <2>3 DEF OpStatus, StartLoad, vllmVars
  <2> QED BY <2>2, <2>4 DEF StatusInv
<1>3. CASE Forward \/ WaitForSave
  <2>1. /\ phase \in {"forward", "save"} /\ phase' \in {"save", "report"} /\ InFlight' = {}
        /\ Due' \subseteq Due /\ meta' = meta
    BY <1>3 DEF Forward, WaitForSave, InFlight, Due
  <2>2. UNCHANGED <<status, recved, sched, finished_ids, trackers, loads, load_futures,
                    pending_sends, stray>>
    BY <1>3 DEF Forward, WaitForSave, vllmVars, workerVars
  <2>3. \A r \in Requests : StatusOf(r)'
    BY <2>2 DEF StatusInv, StatusOf, Known
  <2>4. OpStatus'
    BY <1>0, <2>1, <2>2 DEF OpStatus
  <2> QED BY <2>3, <2>4 DEF StatusInv
<1> QED BY <1>1, <1>2, <1>3

\* The report at the end of a pass.
LEMMA StatusReport ==
  ASSUME TypeInv, StatusInv, GetFinished
  PROVE  StatusInv'
<1>1. PICK Ends \in SUBSET Complete : Reports(Ends)
  BY ReportSteps
<1>2. Sends \subseteq Requests /\ Ends \subseteq Requests
  BY DEF Sends, Complete, TypeInv, VllmType, ConnectorType
<1>3. \A r \in Sending : r \in Sends /\ status[r] = "finished"
  BY <1>2 DEF Sending, Sends, StatusInv, StatusOf
<1>4. \A r \in Ends : status[r] = "running"
  BY DEF Complete, StatusInv, StatusOf
<1>5. ASSUME NEW r \in Requests PROVE StatusOf(r)'
  <2>1. StatusOf(r)
    BY DEF StatusInv
  <2>2. r \in Received => r \in load_futures
    BY DEF Received
  <2>3. CASE r \in Sending
    <3>1. /\ status'[r] = "gone" /\ status[r] = "finished" /\ r \notin Ends
          /\ trackers'[r] = trackers[r]
      BY <1>1, <1>3, <1>4, <2>3 DEF Reports
    <3>2. r \notin pending_sends' /\ r \notin finished_ids' /\ sched'[r] = Idle
      BY <1>1, <2>3, <3>1 DEF Reports
    <3>3. r \notin recved' /\ r \notin load_futures' \ stray'
      BY <1>1, <2>1, <2>2, <3>1 DEF Reports, StatusOf
    <3> QED BY <1>1, <2>1, <3>1, <3>2, <3>3 DEF Reports, StatusOf, Known
  <2>4. CASE r \in Ends /\ r \notin Sending
    <3>1. status'[r] = "finished" /\ status[r] = "running" /\ trackers'[r] = NoTracker
          /\ sched'[r] = Idle
      BY <1>1, <1>4, <2>4 DEF Reports
    <3>2. r \notin recved' /\ r \notin load_futures' \ stray'
      BY <1>1, <2>1, <2>2, <3>1 DEF Reports, StatusOf
    <3> QED BY <1>1, <2>1, <3>1, <3>2 DEF Reports, StatusOf, Known
  <2>5. CASE r \notin Ends /\ r \notin Sending
    <3>1. status'[r] = status[r] /\ trackers'[r] = trackers[r] /\ sched'[r] = Idle
          /\ r \notin finished_ids' /\ (r \in pending_sends' => r \in Sends)
      BY <1>1, <2>5 DEF Reports
    <3>2. r \in pending_sends' => status[r] = "finished"
      BY <2>1, <3>1 DEF Sends, StatusOf
    <3>3. /\ r \in recved' => status[r] = "loading" /\ r \notin load_futures'
          /\ Known(r) /\ trackers[r].load_pending = TRUE => r \notin load_futures' \cup recved'
      BY <1>1, <2>1, <2>2 DEF Reports, StatusOf
    <3> QED BY <1>1, <2>1, <3>1, <3>2, <3>3 DEF Reports, StatusOf, Known
  <2> QED BY <2>3, <2>4, <2>5
<1>6. ASSUME NEW l \in loads' PROVE l.op.r \in load_futures'
  <2>1. l \in loads /\ l.op.r \in load_futures
    BY <1>1 DEF Reports, StatusInv, OpStatus
  <2>2. l.op.r \notin Received
    BY <1>1, <2>1 DEF Reports, Received, LoadDone
  <2> QED BY <1>1, <2>1, <2>2 DEF Reports
<1>7. phase' = "schedule" /\ meta' = [load |-> {}, store |-> {}]
  BY <1>1 DEF Reports
<1>8. InFlight' = {} /\ Due' = {}
  BY <1>7 DEF InFlight, Due
<1>9. OpStatus'
  BY <1>6, <1>7, <1>8 DEF OpStatus
<1> QED BY <1>5, <1>9 DEF StatusInv

\* A load thread.
LEMMA StatusLoading ==
  ASSUME TypeInv, StatusInv, NEW l \in loads, LoadReply(l) \/ LoadFails(l) \/ Scatter(l)
  PROVE  StatusInv'
<1>1. UNCHANGED <<vllmVars, phase, sched, finished_ids, trackers, meta,
                  load_futures, pending_sends, stray>>
  BY DEF LoadReply, LoadFails, Scatter
<1>2. InFlight' = InFlight /\ Due' = Due
  BY <1>1 DEF InFlight, Due
<1>3. l \in Load
  BY DEF TypeInv, ConnectorType
<1>4. \A m \in loads' : m \in loads \/ m.op = l.op
  BY <1>3 DEF LoadReply, LoadFails, Scatter, Moves, Load
<1>5. \A m \in loads' : m.op.r \in load_futures'
  BY <1>1, <1>4 DEF StatusInv, OpStatus
<1>6. OpStatus'
  BY <1>1, <1>2, <1>5 DEF StatusInv, OpStatus, vllmVars
<1>7. \A r \in Requests : StatusOf(r)'
  BY <1>1 DEF StatusInv, StatusOf, Known, vllmVars
<1> QED BY <1>6, <1>7 DEF StatusInv

\* So every step keeps StatusInv.
LEMMA StatusStep ==
  ASSUME TypeInv, StatusInv, [Next]_vars
  PROVE  StatusInv'
<1>1. CASE Next
  <2>1. Step
    BY <1>1, NextSteps
  <2> QED BY <2>1, StatusScheduling, StatusPass, StatusReport, StatusLoading DEF Step
<1>2. CASE UNCHANGED vars
  <2>1. InFlight' = InFlight /\ Due' = Due
    BY <1>2 DEF vars, InFlight, Due
  <2> QED BY <1>2, <2>1 DEF vars, vllmVars, workerVars, StatusInv, StatusOf, OpStatus, Known
<1> QED BY <1>1, <1>2
-----------------------------------------------------------------------------

(***************************************************************************)
(* StoreInv.                                                               *)
(***************************************************************************)

\* It holds initially.
LEMMA StoreInit ==
  ASSUME Init
  PROVE  StoreInv
<1>1. Due = {}
  BY DEF Init, Due
<1>2. StoresAreConsecutive
  <2>1. \A r \in Requests : Len(sent[r]) = 0
    BY DEF Init
  <2> QED BY <2>1 DEF StoresAreConsecutive
<1> QED BY <1>1, <1>2 DEF Init, StoreInv, StoredOf, Known

\* A step that sends nothing, builds no STORE and moves no tracker on.
LEMMA StoreStays ==
  ASSUME StoreInv, UNCHANGED sent, Due' = Due,
         \A r \in Requests :
           /\ status'[r] \in {"new", "waiting", "loading"} => sent[r] = <<>>
           /\ Known(r)' /\ sent[r] # <<>> =>
                Known(r) /\ trackers'[r].num_stored_tokens = trackers[r].num_stored_tokens,
         \A o \in Due : o.r \in Requests /\ trackers'[o.r] = trackers[o.r]
  PROVE  StoreInv'
<1>1. ASSUME NEW r \in Requests PROVE StoredOf(r)'
  BY DEF StoreInv, StoredOf
<1>2. \A o \in Due' : o.end = trackers'[o.r].num_stored_tokens
  BY DEF StoreInv
<1>3. StoresAreConsecutive'
  BY DEF StoreInv, StoresAreConsecutive
<1> QED BY <1>1, <1>2, <1>3 DEF StoreInv

\* The steps of a request.
LEMMA StoreScheduling ==
  ASSUME TypeInv, StatusInv, StoreInv, NEW r \in Requests, RequestStep(r)
  PROVE  StoreInv'
<1>1. StatusOf(r) /\ StoredOf(r)
  BY DEF StatusInv, StoreInv
<1>2. \A q \in Requests : status[q] \in {"new", "waiting", "loading"} => sent[q] = <<>>
  BY DEF StoreInv, StoredOf
<1>3. CASE Arrive(r) \/ StoreReply(r)
  <2>1. UNCHANGED <<sent, trackers>> /\ Due' = Due
    BY <1>3 DEF Arrive, StoreReply, Due, workerVars
  <2>2. \A q \in Requests : status'[q] \in {"new", "waiting", "loading"} => sent[q] = <<>>
    BY <1>2, <1>3 DEF Arrive, StoreReply, vllmVars, TypeInv, VllmType
  <2>3. \A o \in Due : o.r \in Requests
    BY DEF Due, TypeInv, ConnectorType, Operation
  <2>4. \A q \in Requests : Known(q)' = Known(q) /\ trackers'[q] = trackers[q]
    BY <2>1 DEF Known
  <2> QED BY <2>1, <2>2, <2>3, <2>4, StoreStays
<1>4. CASE Waits(r) \/ Allocates(r) \/ Continues(r) \/ Decodes(r) \/ Preempt(r) \/ Abort(r)
  <2>1. phase = "schedule" /\ phase' = "schedule" /\ sent' = sent
    BY <1>4 DEF Waits, Allocates, Allocation, Continues, Continuation, Decodes, Decoding,
                Preempt, Abort, workerVars
  <2>2. Due = {} /\ Due' = {}
    BY <2>1 DEF Due
  <2>3. \A q \in Requests \ {r} : trackers'[q] = trackers[q] /\ status'[q] = status[q]
    BY <1>4 DEF Waits, Allocates, Allocation, Continues, Continuation, Decodes,
              Decoding, Preempt, Abort, vllmVars, TypeInv, VllmType, ConnectorType
  <2>4. /\ status'[r] \in {"new", "waiting", "loading"} => sent[r] = <<>>
        /\ Known(r)' /\ sent[r] # <<>> =>
             Known(r) /\ trackers'[r].num_stored_tokens = trackers[r].num_stored_tokens
    <3>1. CASE Waits(r)
      <4>1. PICK local \in Nat, t \in Tracker, ext \in Int :
               AnswerSays(r, local, t, ext) /\ trackers' = [trackers EXCEPT ![r] = t]
        BY <3>1 DEF Waits
      <4>2. status[r] \in {"waiting", "preempted"} /\ status' = status
        BY <3>1 DEF Waits, vllmVars
      <4>3. status[r] = "preempted" => Known(r) /\ trackers'[r] = trackers[r]
        BY <1>1, <4>1 DEF StatusOf, AnswerSays, TypeInv, ConnectorType
      <4> QED BY <1>2, <4>2, <4>3
    <3>2. CASE Allocates(r)
      <4>1. PICK local \in Nat, t \in Tracker, ext \in Int, k \in Nat, new \in Seq(GpuBlocks) :
               Allocation(r, local, t, ext, k, new)
        BY <3>2 DEF Allocates
      <4>2. status[r] \in {"waiting", "preempted"} /\ AnswerSays(r, local, t, ext)
        BY <4>1 DEF Allocation
      <4> DEFINE u == update_state_after_alloc(t, new, ext)
      <4>3. u.num_stored_tokens = t.num_stored_tokens
        BY AllocTracker
      <4>4. trackers'[r] = u /\ status'[r] = IF ext > 0 THEN "loading" ELSE "running"
        BY <4>1 DEF Allocation, TypeInv, ConnectorType, VllmType
      <4> HIDE DEF u
      <4>5. status[r] = "preempted" => Known(r) /\ t = trackers[r] /\ ext = 0
        BY <1>1, <4>2 DEF StatusOf, AnswerSays
      <4> QED BY <1>2, <4>2, <4>3, <4>4, <4>5
    <3>3. CASE Continues(r)
      <4>1. PICK n \in Nat, k \in Nat, new \in Seq(GpuBlocks) : Continuation(r, n, k, new)
        BY <3>3 DEF Continues
      <4>2. status[r] = "loading"
        BY <4>1 DEF Continuation
      <4> QED BY <1>2, <4>2
    <3>4. CASE Decodes(r)
      BY <1>2, <3>4 DEF Decodes, Decoding, Known
    <3>5. CASE Preempt(r)
      BY <3>5 DEF Preempt, Known, TypeInv, VllmType
    <3>6. CASE Abort(r)
      BY <3>6 DEF Abort, Known, TypeInv, VllmType, ConnectorType
    <3> QED BY <1>4, <3>1, <3>2, <3>3, <3>4, <3>5, <3>6
  <2>5. \A q \in Requests :
           /\ status'[q] \in {"new", "waiting", "loading"} => sent[q] = <<>>
           /\ Known(q)' /\ sent[q] # <<>> =>
                Known(q) /\ trackers'[q].num_stored_tokens = trackers[q].num_stored_tokens
    BY <1>2, <2>3, <2>4 DEF Known
  <2> QED BY <2>1, <2>2, <2>5, StoreStays
<1> QED BY <1>3, <1>4 DEF RequestStep

\* The STOREs of a pass: build_connector_meta and wait_for_save.
LEMMA StorePass ==
  ASSUME TypeInv, StatusInv, StoreInv, Builds \/ StartLoad \/ Forward \/ WaitForSave
  PROVE  StoreInv'
<1>0. \A o \in Due : o.r \in Requests
  BY DEF Due, TypeInv, ConnectorType, Operation
<1>1. CASE Builds
  <2>1. /\ phase = "schedule" /\ phase' = "load"
        /\ UNCHANGED <<vllmVars, gpu, sched, finished_ids, workerVars, stray, prompt>>
    BY <1>1 DEF Builds
  <2>2. Due = {} /\ Due' = {generate_store_op(r, Computed(r)) : r \in Saving}
    BY <1>1, <2>1 DEF Due, Builds
  <2>3. ASSUME NEW r \in Saving
        PROVE  LET o == generate_store_op(r, Computed(r))
               IN  /\ r \in Requests /\ o.r = r /\ o.start = trackers[r].num_stored_tokens
                   /\ o.end = trackers'[r].num_stored_tokens
    <3>1. r \in Requests /\ Known(r) /\ sched[r] # Idle
      BY DEF Saving
    <3>2. trackers'[r].num_stored_tokens = StoreEnd(r, Computed(r))
      BY <1>1, <3>1, ReadyFacts DEF Builds
    <3>3. Computed(r).num_stored_tokens = trackers[r].num_stored_tokens
      BY <3>1, ComputedFacts
    <3> QED BY <3>1, <3>2, <3>3 DEF generate_store_op, LoadStoreOp
  <2>4. ASSUME NEW r \in Requests, Known(r)
        PROVE  r \in Saving \/ trackers'[r].num_stored_tokens = trackers[r].num_stored_tokens
    <3>1. CASE sched[r] = Idle
      <4>1. trackers'[r] = Asked(r)
        BY <1>1, <2>4, <3>1 DEF Builds
      <4> QED BY <2>4, <4>1, AskedFacts
    <3>2. CASE sched[r] # Idle /\ r \notin Saving
      <4> DEFINE e == StoreEnd(r, Computed(r))
                 s == trackers[r].num_stored_tokens
      <4>1. Computed(r) \in Tracker /\ Computed(r).num_stored_tokens = s
        BY <2>4, <3>2, ComputedFacts
      <4>2. e \in Nat /\ e >= s
        BY <4>1, StoreEndFacts
      <4>3. s \in Nat /\ ~(e > s)
        BY <2>4, <3>2, AskedFacts DEF Saving, Tracker
      <4> HIDE DEF e, s
      <4>4. e = s
        BY <4>2, <4>3
      <4>5. trackers'[r].num_stored_tokens = e
        BY <1>1, <2>4, <3>2, ReadyFacts DEF Builds, e
      <4> QED BY <4>4, <4>5 DEF s
    <3> QED BY <3>1, <3>2
  <2>5. ASSUME NEW o \in Due'
        PROVE  /\ o.r \in Saving /\ o.start = trackers[o.r].num_stored_tokens
               /\ o.end = trackers'[o.r].num_stored_tokens
    <3>1. PICK r \in Saving : o = generate_store_op(r, Computed(r))
      BY <2>2
    <3> QED BY <2>3, <3>1
  <2>6. ASSUME NEW r \in Requests PROVE StoredOf(r)'
    <3>1. StoredOf(r)
      BY DEF StoreInv
    <3>2. sent'[r] = sent[r] /\ status'[r] = status[r]
      BY <2>1 DEF workerVars, vllmVars
    <3>3. Known(r)' => Known(r)
      BY <1>1 DEF Builds, Known
    <3>4. Known(r) /\ sent[r] # <<>> =>
            sent[r][Len(sent[r])].end = trackers[r].num_stored_tokens
      BY <2>2, <3>1 DEF StoredOf
    <3>5. (\A o \in Due' : o.r # r) => r \notin Saving
      BY <2>2, <2>3
    <3> QED BY <2>4, <2>5, <3>1, <3>2, <3>3, <3>4, <3>5 DEF StoredOf
  <2>7. StoresAreConsecutive'
    BY <2>1 DEF StoreInv, StoresAreConsecutive, workerVars
  <2> QED BY <2>5, <2>6, <2>7 DEF StoreInv
<1>2. CASE StartLoad \/ Forward
  <2>1. UNCHANGED <<sent, trackers, status>> /\ Due' = Due
    BY <1>2 DEF StartLoad, Forward, Due, workerVars, vllmVars
  <2>2. \A q \in Requests : Known(q)' = Known(q)
    BY <2>1 DEF Known
  <2>3. \A q \in Requests : status'[q] \in {"new", "waiting", "loading"} => sent[q] = <<>>
    BY <2>1 DEF StoreInv, StoredOf
  <2> QED BY <1>0, <2>1, <2>2, <2>3, StoreStays
<1>3. CASE WaitForSave
  <2>1. /\ phase = "save" /\ phase' = "report" /\ UNCHANGED <<vllmVars, trackers>>
        /\ Due = meta.store /\ Due' = {}
    BY <1>3 DEF WaitForSave, Due
  <2>2. ASSUME NEW r \in Requests
        PROVE  \/ sent'[r] = sent[r] /\ \A o \in Due : o.r # r
               \/ \E o \in Due : /\ o.r = r
                    /\ \E b : sent'[r] = Append(sent[r], [start |-> o.start, end |-> o.end, bytes |-> b])
    <3> DEFINE Saves == {o \in meta.store : o.r = r}
    <3>1. sent'[r] = IF Saves = {} THEN sent[r]
           ELSE LET o == CHOOSE o \in Saves : TRUE
                IN  Append(sent[r], [start |-> o.start, end |-> o.end, bytes |-> BytesOf(o)])
      BY <1>3 DEF WaitForSave
    <3>2. CASE Saves = {}
      BY <2>1, <3>1, <3>2
    <3>3. CASE Saves # {}
      <4> DEFINE o == CHOOSE o \in Saves : TRUE
      <4>1. o \in Saves
        BY <3>3
      <4>2. sent'[r] = Append(sent[r], [start |-> o.start, end |-> o.end, bytes |-> BytesOf(o)])
        BY <3>1, <3>3
      <4> HIDE DEF o
      <4> QED BY <2>1, <4>1, <4>2
    <3> QED BY <3>2, <3>3
  <2>3. ASSUME NEW r \in Requests PROVE StoredOf(r)' /\ \A n \in 1 .. (Len(sent'[r]) - 1) :
                                                  sent'[r][n].end = sent'[r][n + 1].start
    <3>1. StoredOf(r) /\ \A n \in 1 .. (Len(sent[r]) - 1) : sent[r][n].end = sent[r][n + 1].start
      BY DEF StoreInv, StoresAreConsecutive
    <3>2. CASE sent'[r] = sent[r] /\ \A o \in Due : o.r # r
      <4>1. StoredOf(r)'
        BY <2>1, <3>1, <3>2 DEF StoredOf, Known, vllmVars
      <4> QED BY <3>1, <3>2, <4>1
    <3>3. ASSUME NEW o \in Due, o.r = r, NEW b,
                 sent'[r] = Append(sent[r], [start |-> o.start, end |-> o.end, bytes |-> b])
          PROVE  StoredOf(r)' /\ \A n \in 1 .. (Len(sent'[r]) - 1) :
                                    sent'[r][n].end = sent'[r][n + 1].start
      <4> DEFINE s == sent[r]
                 e == [start |-> o.start, end |-> o.end, bytes |-> b]
                 w == Append(s, e)
      <4>1. IsSeq(s)
        BY DEF TypeInv, ConnectorType
      <4>2. /\ Len(s) \in Nat /\ Len(w) = Len(s) + 1 /\ w[Len(s) + 1] = e
            /\ \A n \in 1 .. Len(s) : w[n] = s[n]
        BY <4>1, AppendFacts
      <4>3. status[r] = "running" /\ o.end = trackers[r].num_stored_tokens /\ Known(r)
        BY <3>3 DEF StatusInv, StatusOf, OpStatus, StoreInv
      <4>4. s # <<>> => s[Len(s)].end = o.start
        BY <3>1, <3>3, <4>3 DEF StoredOf
      <4>5. sent'[r] = w /\ e.start = o.start /\ e.end = o.end
        BY <3>3
      <4>6. \A n \in 1 .. (Len(s) - 1) : s[n].end = s[n + 1].start
        BY <3>1
      <4> HIDE DEF s, e, w
      <4>7. ASSUME NEW n \in 1 .. (Len(w) - 1) PROVE w[n].end = w[n + 1].start
        <5>1. n \in 1 .. Len(s) /\ w[n] = s[n]
          BY <4>2
        <5>2. CASE n = Len(s)
          <6>1. s # <<>>
            BY <4>2, <5>1
          <6> QED BY <4>2, <4>4, <4>5, <5>1, <5>2, <6>1
        <5>3. CASE n # Len(s)
          <6>1. n \in 1 .. (Len(s) - 1) /\ n + 1 \in 1 .. Len(s)
            BY <4>2, <5>1, <5>3
          <6> QED BY <4>2, <4>6, <5>1, <6>1
        <5> QED BY <5>2, <5>3
      <4>8. w[Len(w)].end = trackers[r].num_stored_tokens
        BY <4>2, <4>3, <4>5
      <4>9. StoredOf(r)'
        BY <2>1, <4>3, <4>5, <4>8 DEF StoredOf, vllmVars
      <4> QED BY <4>5, <4>7, <4>9
    <3> QED BY <2>2, <3>2, <3>3
  <2> QED BY <2>1, <2>3 DEF StoreInv, StoresAreConsecutive
<1> QED BY <1>1, <1>2, <1>3

\* So every step keeps StoreInv.
LEMMA StoreStep ==
  ASSUME TypeInv, StatusInv, StoreInv, [Next]_vars
  PROVE  StoreInv'
<1>0. \A q \in Requests : status[q] \in {"new", "waiting", "loading"} => sent[q] = <<>>
  BY DEF StoreInv, StoredOf
<1>1. \A o \in Due : o.r \in Requests
  BY DEF Due, TypeInv, ConnectorType, Operation
<1>2. CASE GetFinished
  <2>1. PICK Ends \in SUBSET Complete : Reports(Ends)
    BY <1>2, ReportSteps
  <2>2. Due = {} /\ Due' = {} /\ sent' = sent
    BY <2>1 DEF Reports, Due
  <2>3. \A r \in Requests : /\ status'[r] \in {"gone", "finished", status[r]}
                            /\ trackers'[r] \in {NoTracker, trackers[r]}
    BY <2>1 DEF Reports
  <2>4. \A r \in Requests : Known(r)' => Known(r) /\ trackers'[r] = trackers[r]
    BY <2>3 DEF Known
  <2>5. \A q \in Requests : status'[q] \in {"new", "waiting", "loading"} => sent[q] = <<>>
    BY <1>0, <2>3
  <2> QED BY <2>2, <2>4, <2>5, StoreStays
<1>3. CASE (\E l \in loads : LoadReply(l) \/ LoadFails(l) \/ Scatter(l)) \/ UNCHANGED vars
  <2>1. UNCHANGED <<sent, trackers, status, phase, meta>>
    BY <1>3 DEF LoadReply, LoadFails, Scatter, vllmVars, vars, workerVars
  <2>2. Due' = Due /\ \A q \in Requests : Known(q)' = Known(q)
    BY <2>1 DEF Due, Known
  <2> QED BY <1>0, <1>1, <2>1, <2>2, StoreStays
<1>4. CASE Next
  <2>1. Step
    BY <1>4, NextSteps
  <2> QED BY <1>2, <1>3, <2>1, StoreScheduling, StorePass DEF Step
<1> QED BY <1>3, <1>4

\* The STOREs of a request follow each other: none stores what was stored
\* before, none leaves tokens out, through preemptions and recomputations
\* (StoresAreConsecutive).
THEOREM StoresFollow == Spec => []StoresAreConsecutive
<1>1. Init => TypeInv /\ StatusInv /\ StoreInv
  BY TypeInit, StatusInit, StoreInit
<1>2. TypeInv /\ StatusInv /\ StoreInv /\ [Next]_vars => TypeInv' /\ StatusInv' /\ StoreInv'
  BY TypeStep, StatusStep, StoreStep
<1>3. StoreInv => StoresAreConsecutive
  BY DEF StoreInv
<1> QED BY <1>1, <1>2, <1>3, PTL DEF Spec
-----------------------------------------------------------------------------

(***************************************************************************)
(* TableInv.                                                               *)
(***************************************************************************)

\* A block of a request is in use.
LEMMA InUse ==
  ASSUME NEW r \in Requests, table[r] \in Seq(GpuBlocks), NEW a \in 1 .. Len(table[r])
  PROVE  table[r][a] \in Used
<1>1. table[r][a] \in ToSet(table[r])
  BY DEF ToSet
<1> QED BY <1>1 DEF Used

\* A request that gets free blocks shares none.
LEMMA DisjointGains ==
  ASSUME TypeInv, Disjoint, NEW r \in Requests, NEW new \in Seq(GpuBlocks),
         Gains(<<>>, new) \/ Gains(table[r], new),
         table' = [table EXCEPT ![r] = new]
  PROVE  Disjoint'
<1>1. \A q \in Requests : table[q] \in Seq(GpuBlocks) /\ Len(table[q]) \in Nat
  BY DEF TypeInv, VllmType
<1>2. table'[r] = new /\ \A q \in Requests \ {r} : table'[q] = table[q]
  BY DEF TypeInv, VllmType
<1>3. PICK m \in 0 .. Len(table[r]) :
        /\ \A x \in 1 .. Len(new) : x <= m => x \in 1 .. Len(table[r]) /\ new[x] = table[r][x]
        /\ \A x \in 1 .. Len(new) : x > m => new[x] \notin Used
        /\ \A x, y \in 1 .. Len(new) : x > m /\ y > m /\ new[x] = new[y] => x = y
  <2>1. CASE Gains(<<>>, new)
    <3>1. Len(<<>>) = 0
      OBVIOUS
    <3>2. /\ \A x \in 1 .. Len(new) : new[x] \notin Used
          /\ \A x, y \in 1 .. Len(new) : new[x] = new[y] => x = y
      BY <2>1, <3>1 DEF Gains
    <3>3. 0 \in 0 .. Len(table[r])
      BY <1>1
    <3> QED BY <3>2, <3>3
  <2>2. CASE Gains(table[r], new)
    <3> DEFINE n == Len(table[r])
    <3>1. n \in Nat
      BY <1>1
    <3>2. /\ \A x \in 1 .. n : new[x] = table[r][x]
          /\ \A x \in (n + 1) .. Len(new) : new[x] \notin Used
          /\ \A x, y \in (n + 1) .. Len(new) : new[x] = new[y] => x = y
      BY <2>2 DEF Gains
    <3> HIDE DEF n
    <3>3. \A x \in 1 .. Len(new) : IF x > n THEN x \in (n + 1) .. Len(new) ELSE x \in 1 .. n
      BY <3>1
    <3>4. n \in 0 .. n /\ \A x \in 1 .. Len(new) : x > n <=> ~(x <= n)
      BY <3>1
    <3> QED BY <3>1, <3>2, <3>3, <3>4 DEF n
  <2> QED BY <2>1, <2>2
<1>4. SUFFICES ASSUME NEW p \in Requests, NEW q \in Requests,
                      NEW a \in 1 .. Len(table'[p]), NEW b \in 1 .. Len(table'[q]),
                      table'[p][a] = table'[q][b]
               PROVE  p = q /\ a = b
  BY DEF Disjoint
<1>5. ASSUME NEW c \in Requests, NEW x \in 1 .. Len(table'[c])
      PROVE  \/ c = r /\ x > m /\ x \in 1 .. Len(new) /\ table'[c][x] \notin Used
             \/ /\ c = r => x <= m
                /\ x \in 1 .. Len(table[c])
                /\ table'[c][x] = table[c][x] /\ table'[c][x] \in Used
  <2>1. CASE c # r
    BY <1>1, <1>2, <2>1, InUse
  <2>2. CASE c = r /\ x > m
    BY <1>2, <1>3, <2>2
  <2>3. CASE c = r /\ ~(x > m)
    <3>1. x <= m /\ x \in 1 .. Len(new)
      BY <1>2, <2>3
    <3>2. x \in 1 .. Len(table[r]) /\ new[x] = table[r][x]
      BY <1>3, <3>1
    <3> QED BY <1>1, <1>2, <2>3, <3>1, <3>2, InUse
  <2> QED BY <2>1, <2>2, <2>3
<1>6. CASE p = r /\ a > m /\ a \in 1 .. Len(new) /\ table'[p][a] \notin Used
  <2>1. q = r /\ b > m /\ b \in 1 .. Len(new)
    BY <1>4, <1>5, <1>6
  <2> QED BY <1>2, <1>3, <1>4, <1>6, <2>1
<1>7. CASE a \in 1 .. Len(table[p]) /\ table'[p][a] = table[p][a] /\ table'[p][a] \in Used
  <2>1. b \in 1 .. Len(table[q]) /\ table'[q][b] = table[q][b]
    BY <1>4, <1>5, <1>7
  <2> QED BY <1>4, <1>7, <2>1 DEF Disjoint
<1> QED BY <1>5, <1>6, <1>7

\* Giving blocks back keeps the tables apart.
LEMMA DisjointShrinks ==
  ASSUME Disjoint, \A r \in Requests : table'[r] = table[r] \/ table'[r] = <<>>
  PROVE  Disjoint'
<1>1. \A r \in Requests : \A a \in 1 .. Len(table'[r]) : table'[r] = table[r]
  <2>1. 1 .. Len(<<>>) = {}
    OBVIOUS
  <2> QED BY <2>1
<1> QED BY <1>1 DEF Disjoint

\* A RETRIEVE is made from the hits and the blocks only.
LEMMA SameRetrieve ==
  ASSUME NEW r, NEW t, NEW u, u.lmcache_hits = t.lmcache_hits, u.vllm_hits = t.vllm_hits,
         u.block_ids = t.block_ids
  PROVE  generate_retrieve_op(r, u) = generate_retrieve_op(r, t)
BY DEF generate_retrieve_op, LoadStoreOp, ChunkStart

\* They hold initially.
LEMMA TableInit ==
  ASSUME Init
  PROVE  TableInv
<1>1. 1 .. Len(<<>>) = {}
  OBVIOUS
<1>2. Disjoint
  BY <1>1 DEF Init, Disjoint
<1>3. TrackerTable /\ LoadOps
  BY DEF Init, TrackerTable, LoadOps, InFlight, Known
<1> QED BY <1>2, <1>3 DEF TableInv

TableOf(r) ==
  /\ status[r] = "waiting" /\ Known(r) => trackers[r].block_ids = <<>>
  /\ status[r] = "loading" => trackers[r].block_ids = table[r]
  /\ status[r] = "running" =>
       IF phase = "schedule" /\ sched[r] # Idle
       THEN Table(trackers[r], sched[r]) = table[r]
       ELSE trackers[r].block_ids = table[r]

\* The steps of a request.
LEMMA TableScheduling ==
  ASSUME TypeInv, StatusInv, TableInv, NEW r \in Requests, RequestStep(r)
  PROVE  TableInv'
<1>1. StatusOf(r) /\ TableOf(r)
  BY DEF StatusInv, TableInv, TrackerTable, TableOf
<1>2. CASE Arrive(r) \/ StoreReply(r)
  <2>1. UNCHANGED <<table, trackers, sched, phase, loads, meta, stray>>
    BY <1>2 DEF Arrive, StoreReply, workerVars, vllmVars
  <2>2. Disjoint'
    BY <2>1, DisjointShrinks DEF TableInv
  <2>3. TrackerTable'
    <3>1. \A q \in Requests : status'[q] = status[q] \/ (status'[q] = "waiting" /\ ~Known(q))
      BY <1>1, <1>2 DEF Arrive, StoreReply, vllmVars, TypeInv, VllmType, StatusOf
    <3> QED BY <2>1, <3>1 DEF TableInv, TrackerTable, Known
  <2>4. LoadOps'
    BY <2>1 DEF TableInv, LoadOps, InFlight
  <2> QED BY <2>2, <2>3, <2>4 DEF TableInv
<1>3. CASE Waits(r) \/ Allocates(r) \/ Continues(r) \/ Decodes(r) \/ Preempt(r) \/ Abort(r)
  <2>1. /\ phase = "schedule" /\ phase' = "schedule" /\ loads' = loads
        /\ stray \subseteq stray'
    BY <1>3 DEF Waits, Allocates, Allocation, Continues, Continuation, Decodes, Decoding,
                Preempt, Abort, workerVars
  <2>2. \A q \in Requests \ {r} : /\ trackers'[q] = trackers[q] /\ status'[q] = status[q]
                                  /\ table'[q] = table[q] /\ sched'[q] = sched[q]
    BY <1>3 DEF Waits, Allocates, Allocation, Continues, Continuation, Decodes,
              Decoding, Preempt, Abort, vllmVars, TypeInv, VllmType, ConnectorType
  <2>3. r \in load_futures \ stray' => trackers'[r] = trackers[r]
    <3>1. CASE Waits(r) \/ Allocates(r) \/ Continues(r)
      <4>1. status[r] \in {"waiting", "preempted"} \/ r \in recved
        BY <3>1 DEF Waits, Allocates, Allocation, Continues, Continuation
      <4> QED BY <1>1, <2>1, <4>1 DEF StatusOf
    <3>2. CASE Decodes(r) \/ Preempt(r) \/ Abort(r)
      BY <3>2 DEF Decodes, Decoding, Preempt, Abort
    <3> QED BY <1>3, <3>1, <3>2
  <2>4. LoadOps'
    <3>1. InFlight' = {}
      BY <2>1 DEF InFlight
    <3>2. ASSUME NEW l \in loads', l.op.r \notin stray'
          PROVE  l.op = generate_retrieve_op(l.op.r, trackers'[l.op.r])
      <4>1. l \in loads /\ l.op.r \notin stray /\ l.op.r \in load_futures /\ l.op.r \in Requests
        BY <2>1, <3>2 DEF StatusInv, OpStatus, TypeInv, ConnectorType
      <4>2. trackers'[l.op.r] = trackers[l.op.r]
        BY <2>2, <2>3, <3>2, <4>1
      <4> QED BY <4>1, <4>2 DEF TableInv, LoadOps
    <3> QED BY <3>1, <3>2 DEF LoadOps
  <2>5. TableOf(r)' /\ Disjoint'
    <3>1. CASE Waits(r)
      <4>1. PICK local \in Nat, t \in Tracker, ext \in Int :
               AnswerSays(r, local, t, ext) /\ trackers' = [trackers EXCEPT ![r] = t]
        BY <3>1 DEF Waits
      <4>2. status[r] \in {"waiting", "preempted"} /\ status' = status /\ table' = table
        BY <3>1 DEF Waits, vllmVars
      <4>3. t.block_ids = Base(r).block_ids /\ trackers'[r] = t
        BY <4>1 DEF AnswerSays, TypeInv, ConnectorType
      <4>4. status[r] = "waiting" => Base(r).block_ids = <<>>
        BY <1>1 DEF TableOf, Base, RequestTracker
      <4>5. Disjoint'
        BY <4>2, DisjointShrinks DEF TableInv
      <4> QED BY <4>2, <4>3, <4>4, <4>5 DEF TableOf
    <3>2. CASE Allocates(r)
      <4>1. PICK local \in Nat, t \in Tracker, ext \in Int, k \in Nat, new \in Seq(GpuBlocks) :
               Allocation(r, local, t, ext, k, new)
        BY <3>2 DEF Allocates
      <4>2. /\ status[r] \in {"waiting", "preempted"} /\ AnswerSays(r, local, t, ext) /\ ext >= 0
            /\ Gains(<<>>, new) /\ table' = [table EXCEPT ![r] = new]
        BY <4>1 DEF Allocation
      <4> DEFINE u == update_state_after_alloc(t, new, ext)
                 s == [kind |-> IF status[r] = "waiting" THEN "new" ELSE "resumed",
                       new |-> new, computed |-> local + ext, k |-> k]
      <4>3. /\ Len(t.block_ids) <= Len(new)
            /\ \A x \in 1 .. Len(t.block_ids) : new[x] = t.block_ids[x]
            => u.block_ids = new
        BY AllocTracker
      <4>4. /\ trackers'[r] = u /\ status'[r] = IF ext > 0 THEN "loading" ELSE "running"
            /\ table'[r] = new
            /\ ~(ext > 0) => sched'[r] = s
        BY <4>1 DEF Allocation, TypeInv, ConnectorType, VllmType
      <4>5. s.kind # "cached" /\ s.new = new
        OBVIOUS
      <4> HIDE DEF u, s
      <4>6. ext > 0 => u.block_ids = new
        <5>1. SUFFICES ASSUME ext > 0 PROVE u.block_ids = new
          OBVIOUS
        <5>2. ~(status[r] = "preempted")
          BY <1>1, <4>2, <5>1 DEF StatusOf, AnswerSays
        <5>3. Base(r).block_ids = <<>>
          BY <1>1, <4>2, <5>2 DEF TableOf, Base, RequestTracker
        <5>4. t.block_ids = <<>>
          BY <4>2, <5>3 DEF AnswerSays
        <5>5. Len(t.block_ids) = 0 /\ Len(new) \in Nat
          BY <5>4
        <5> QED BY <4>3, <5>5
      <4>7. ~(ext > 0) => Table(trackers'[r], sched'[r]) = table'[r] /\ sched'[r] # Idle
        <5>1. s # Idle
          BY DEF s, Idle
        <5> QED BY <4>4, <4>5, <5>1 DEF Table
      <4>8. Disjoint'
        BY <4>2, DisjointGains DEF TableInv
      <4> QED BY <2>1, <4>4, <4>6, <4>7, <4>8 DEF TableOf
    <3>3. CASE Continues(r)
      <4>1. PICK n \in Nat, k \in Nat, new \in Seq(GpuBlocks) : Continuation(r, n, k, new)
        BY <3>3 DEF Continues
      <4> DEFINE s == [kind |-> "new", new |-> new, computed |-> n, k |-> k]
      <4>2. /\ sched'[r] = s /\ table'[r] = new /\ status'[r] = "running"
            /\ Gains(table[r], new) /\ table' = [table EXCEPT ![r] = new]
        BY <4>1 DEF Continuation, TypeInv, VllmType
      <4>3. s # Idle /\ s.kind # "cached" /\ s.new = new
        BY DEF Idle
      <4> HIDE DEF s
      <4>4. Table(trackers'[r], sched'[r]) = table'[r]
        BY <4>2, <4>3 DEF Table
      <4>5. Disjoint'
        BY <4>2, DisjointGains DEF TableInv
      <4> QED BY <2>1, <4>2, <4>3, <4>4, <4>5 DEF TableOf
    <3>4. CASE Decodes(r)
      <4>1. PICK k \in Nat, new \in Seq(GpuBlocks) : Decoding(r, k, new)
        BY <3>4 DEF Decodes
      <4> DEFINE s == [kind |-> "cached", new |-> new, computed |-> ncomp[r], k |-> k]
                 w == table[r] \o new
      <4>2. /\ sched'[r] = s /\ table'[r] = w /\ status'[r] = "running" /\ trackers' = trackers
            /\ sched[r] = Idle /\ status[r] = "running"
            /\ Gains(table[r], w) /\ table' = [table EXCEPT ![r] = w]
        BY <4>1 DEF Decoding, TypeInv, VllmType
      <4>3. s # Idle /\ s.kind = "cached" /\ s.new = new
        BY DEF Idle
      <4>4. w \in Seq(GpuBlocks)
        BY DEF TypeInv, VllmType
      <4> HIDE DEF s
      <4>5. trackers[r].block_ids = table[r]
        BY <1>1, <4>2 DEF TableOf
      <4>6. Table(trackers'[r], sched'[r]) = table'[r]
        BY <4>2, <4>3, <4>5 DEF Table
      <4> HIDE DEF w
      <4>7. Disjoint'
        BY <4>2, <4>4, DisjointGains DEF TableInv
      <4> QED BY <2>1, <4>2, <4>3, <4>6, <4>7 DEF TableOf
    <3>5. CASE Preempt(r)
      <4>1. \A q \in Requests : table'[q] = table[q] \/ table'[q] = <<>>
        BY <3>5 DEF Preempt
      <4>2. status'[r] = "preempted"
        BY <3>5 DEF Preempt, TypeInv, VllmType
      <4> QED BY <4>1, <4>2, DisjointShrinks DEF TableInv, TableOf
    <3>6. CASE Abort(r)
      <4>1. status'[r] = "finished" /\ table' = table
        BY <3>6 DEF Abort, TypeInv, VllmType
      <4> QED BY <4>1, DisjointShrinks DEF TableInv, TableOf
    <3> QED BY <1>3, <3>1, <3>2, <3>3, <3>4, <3>5, <3>6
  <2>6. ASSUME NEW q \in Requests, q # r PROVE TableOf(q)'
    <3>1. TableOf(q)
      BY DEF TableInv, TrackerTable, TableOf
    <3> QED BY <2>1, <2>2, <2>6, <3>1 DEF TableOf, Known
  <2>7. TrackerTable'
    BY <2>5, <2>6 DEF TrackerTable, TableOf
  <2> QED BY <2>4, <2>5, <2>7 DEF TableInv
<1> QED BY <1>2, <1>3 DEF RequestStep

\* The steps of a pass.
LEMMA TablePass ==
  ASSUME TypeInv, StatusInv, TableInv, Builds \/ StartLoad \/ Forward \/ WaitForSave
  PROVE  TableInv'
<1>0. table' = table
  BY DEF Builds, StartLoad, Forward, WaitForSave, vllmVars
<1>1. Disjoint'
  BY <1>0, DisjointShrinks DEF TableInv
<1>2. CASE Builds
  <2>1. /\ phase = "schedule" /\ phase' = "load"
        /\ UNCHANGED <<vllmVars, sched, workerVars, stray>>
    BY <1>2 DEF Builds
  <2>2. ASSUME NEW r \in Requests PROVE TableOf(r)'
    <3>1. TableOf(r) /\ StatusOf(r)
      BY DEF TableInv, TrackerTable, TableOf, StatusInv
    <3>2. status'[r] = status[r] /\ table'[r] = table[r] /\ sched'[r] = sched[r]
      BY <2>1 DEF vllmVars
    <3>3. Known(r)' => Known(r)
      BY <1>2 DEF Builds, Known
    <3>4. CASE Known(r) /\ sched[r] = Idle
      <4>1. trackers'[r].block_ids = trackers[r].block_ids
        BY <1>2, <3>4, AskedFacts DEF Builds
      <4> QED BY <2>1, <3>1, <3>2, <3>4, <4>1 DEF TableOf
    <3>5. CASE Known(r) /\ sched[r] # Idle
      <4>1. trackers'[r].block_ids = Table(trackers[r], sched[r])
        BY <1>2, <3>5, ReadyFacts DEF Builds
      <4> QED BY <2>1, <3>1, <3>2, <3>5, <4>1 DEF TableOf, StatusOf
    <3>6. CASE ~Known(r)
      BY <3>1, <3>2, <3>3, <3>6 DEF TableOf, StatusOf
    <3> QED BY <3>4, <3>5, <3>6
  <2>3. ASSUME NEW r \in Requests, status[r] = "loading"
        PROVE  generate_retrieve_op(r, trackers'[r]) = generate_retrieve_op(r, trackers[r])
    <3>1. Known(r) /\ sched[r] = Idle
      BY <2>3 DEF StatusInv, StatusOf
    <3>2. trackers'[r] = Asked(r)
      BY <1>2, <3>1 DEF Builds
    <3> DEFINE u == trackers'[r]
               t == trackers[r]
    <3>3. u.lmcache_hits = t.lmcache_hits /\ u.vllm_hits = t.vllm_hits
          /\ u.block_ids = t.block_ids
      BY <3>1, <3>2, AskedFacts
    <3> HIDE DEF u, t
    <3>4. generate_retrieve_op(r, u) = generate_retrieve_op(r, t)
      BY <3>3, SameRetrieve
    <3> QED BY <3>4 DEF u, t
  <2>4. ASSUME NEW o \in InFlight' PROVE o = generate_retrieve_op(o.r, trackers'[o.r])
    <3>1. PICK r \in Retrieves : o = generate_retrieve_op(r, trackers[r])
      BY <1>2, <2>1 DEF Builds, InFlight
    <3>2. o.r = r
      BY <3>1 DEF generate_retrieve_op, LoadStoreOp
    <3>3. r \in Requests /\ status[r] = "loading"
      BY DEF Retrieves, StatusInv, StatusOf
    <3> QED BY <2>3, <3>1, <3>2, <3>3
  <2>5. ASSUME NEW l \in loads', l.op.r \notin stray'
        PROVE  l.op = generate_retrieve_op(l.op.r, trackers'[l.op.r])
    <3>1. l \in loads /\ l.op.r \notin stray /\ l.op.r \in load_futures /\ l.op.r \in Requests
      BY <2>1, <2>5 DEF StatusInv, OpStatus, TypeInv, ConnectorType, workerVars
    <3>2. status[l.op.r] = "loading"
      BY <3>1 DEF StatusInv, StatusOf
    <3>3. l.op = generate_retrieve_op(l.op.r, trackers[l.op.r])
      BY <3>1 DEF TableInv, LoadOps
    <3> QED BY <2>3, <3>1, <3>2, <3>3
  <2> QED BY <1>1, <2>2, <2>4, <2>5 DEF TableInv, TrackerTable, TableOf, LoadOps
<1>3. CASE StartLoad \/ Forward \/ WaitForSave
  <2>1. /\ phase # "schedule" /\ phase' # "schedule" /\ InFlight' = {}
        /\ UNCHANGED <<status, sched, trackers, stray>>
    BY <1>3 DEF StartLoad, Forward, WaitForSave, vllmVars, InFlight
  <2>2. ASSUME NEW l \in loads' PROVE l \in loads \/ l.op \in InFlight
    <3>1. CASE StartLoad
      <4>1. InFlight = meta.load /\ (l \in loads \/ \E o \in meta.load : l = [op |-> o, at |-> "reply"])
        BY <3>1 DEF StartLoad, InFlight
      <4> QED BY <4>1
    <3>2. CASE Forward \/ WaitForSave
      BY <3>2 DEF Forward, WaitForSave, workerVars
    <3> QED BY <1>3, <3>1, <3>2
  <2>3. LoadOps'
    BY <2>1, <2>2 DEF TableInv, LoadOps
  <2>4. TrackerTable'
    BY <1>0, <2>1 DEF TableInv, TrackerTable, Known
  <2> QED BY <1>1, <2>3, <2>4 DEF TableInv
<1> QED BY <1>2, <1>3

\* The report.
LEMMA TableReport ==
  ASSUME TypeInv, StatusInv, TableInv, GetFinished
  PROVE  TableInv'
<1>1. PICK Ends \in SUBSET Complete : Reports(Ends)
  BY ReportSteps
<1>2. Sends \subseteq Requests /\ Ends \subseteq Requests
  BY DEF Sends, Complete, TypeInv, VllmType, ConnectorType
<1>3. \A r \in Sending : status[r] = "finished"
  BY <1>2 DEF Sending, Sends, StatusInv, StatusOf
<1>4. \A r \in Ends : status[r] = "running"
  BY DEF Complete, StatusInv, StatusOf
<1>5. Disjoint'
  BY <1>1, DisjointShrinks DEF Reports, TableInv
<1>6. ASSUME NEW r \in Requests, status'[r] \notin {"finished", "gone"}
      PROVE  /\ status'[r] = status[r] /\ table'[r] = table[r] /\ trackers'[r] = trackers[r]
             /\ sched'[r] = Idle
  BY <1>1, <1>6 DEF Reports
<1>7. ASSUME NEW r \in Requests PROVE TableOf(r)'
  <2>1. TableOf(r) /\ phase # "schedule" /\ phase' = "schedule"
    BY <1>1 DEF TableInv, TrackerTable, TableOf, Reports
  <2> QED BY <1>6, <2>1 DEF TableOf, Known
<1>8. InFlight' = {}
  BY <1>1 DEF Reports, InFlight
<1>9. ASSUME NEW l \in loads', l.op.r \notin stray'
      PROVE  l.op = generate_retrieve_op(l.op.r, trackers'[l.op.r])
  <2>1. l \in loads /\ l.op.r \notin stray /\ l.op.r \in load_futures /\ l.op.r \in Requests
    BY <1>1, <1>9 DEF Reports, StatusInv, OpStatus, TypeInv, ConnectorType
  <2>2. status[l.op.r] = "loading"
    BY <2>1 DEF StatusInv, StatusOf
  <2>3. trackers'[l.op.r] = trackers[l.op.r]
    BY <1>1, <1>4, <2>1, <2>2 DEF Reports
  <2> QED BY <2>1, <2>3 DEF TableInv, LoadOps
<1> QED BY <1>5, <1>7, <1>8, <1>9 DEF TableInv, TrackerTable, TableOf, LoadOps

\* So every step keeps TableInv.
LEMMA TableStep ==
  ASSUME TypeInv, StatusInv, TableInv, [Next]_vars
  PROVE  TableInv'
<1>1. CASE (\E l \in loads : LoadReply(l) \/ LoadFails(l) \/ Scatter(l)) \/ UNCHANGED vars
  <2>1. UNCHANGED <<table, trackers, status, phase, sched, meta, stray>>
    BY <1>1 DEF LoadReply, LoadFails, Scatter, vllmVars, vars
  <2>2. \A m \in loads' : \E l \in loads : m.op = l.op
    <3>1. \A l \in loads : \A at : [l EXCEPT !.at = at].op = l.op
      BY DEF TypeInv, ConnectorType, Load
    <3>2. ASSUME NEW l \in loads, LoadReply(l) \/ LoadFails(l) \/ Scatter(l)
          PROVE  \A m \in loads' : \E k \in loads : m.op = k.op
      <4>1. PICK at : loads' = (loads \ {l}) \cup {[l EXCEPT !.at = at]}
        BY <3>2, Zenon DEF LoadReply, LoadFails, Scatter, Moves
      <4>2. [l EXCEPT !.at = at].op = l.op
        BY <3>1
      <4> QED BY <4>1, <4>2
    <3>3. UNCHANGED vars => \A m \in loads' : \E l \in loads : m.op = l.op
      BY DEF vars, workerVars
    <3> QED BY <1>1, <3>2, <3>3
  <2>3. LoadOps'
    BY <2>1, <2>2 DEF TableInv, LoadOps, InFlight
  <2>4. Disjoint' /\ TrackerTable'
    BY <2>1, DisjointShrinks DEF TableInv, TrackerTable, Known
  <2> QED BY <2>3, <2>4 DEF TableInv
<1>2. CASE Next
  <2>1. Step
    BY <1>2, NextSteps
  <2> QED BY <1>1, <2>1, TableScheduling, TablePass, TableReport DEF Step
<1> QED BY <1>1, <1>2

\* A load thread writes only into blocks its request still has, unless the
\* request was aborted while it loaded (LoadsOwnBlocks).
THEOREM LoadsStayHome == Spec => []LoadsOwnBlocks
<1>1. Init => TypeInv /\ StatusInv /\ TableInv
  BY TypeInit, StatusInit, TableInit
<1>2. TypeInv /\ StatusInv /\ TableInv /\ [Next]_vars => TypeInv' /\ StatusInv' /\ TableInv'
  BY TypeStep, StatusStep, TableStep
<1>3. ASSUME TypeInv, StatusInv, TableInv PROVE LoadsOwnBlocks
  <2> SUFFICES ASSUME NEW l \in loads, l.op.r \notin stray
               PROVE  ToSet(l.op.block_ids) \subseteq ToSet(table[l.op.r])
    BY DEF LoadsOwnBlocks
  <2> DEFINE r == l.op.r
             t == trackers[r]
             a == ChunkStart(t) \div block_size
             b == t.lmcache_hits \div block_size
  <2>1. r \in Requests /\ r \in load_futures \ stray
    BY <1>3 DEF StatusInv, OpStatus, TypeInv, ConnectorType
  <2>2. status[r] = "loading" /\ Known(r)
    BY <1>3, <2>1 DEF StatusInv, StatusOf
  <2>3. t \in Tracker /\ t.block_ids = table[r]
    BY <1>3, <2>1, <2>2, AskedFacts DEF TableInv, TrackerTable
  <2>4. l.op.block_ids = Sliced(t.block_ids, a, b)
    <3>1. l.op = generate_retrieve_op(r, t)
      BY <1>3 DEF TableInv, LoadOps
    <3> QED BY <3>1 DEF generate_retrieve_op, LoadStoreOp
  <2>5. a \in Nat /\ b \in Nat
    <3>1. ChunkStart(t) \in Nat /\ t.lmcache_hits \in Nat
      BY <2>1, <2>3, RetrieveType DEF Tracker
    <3> QED BY <3>1, ConnectorAssumption, DivFacts
  <2> HIDE DEF a, b
  <2>6. table[r] \in Seq(GpuBlocks)
    BY <1>3, <2>1 DEF TypeInv, VllmType
  <2>7. ToSet(Sliced(table[r], a, b)) \subseteq ToSet(table[r])
    BY <2>5, <2>6, SlicedFacts
  <2> QED BY <2>3, <2>4, <2>7
<1> QED BY <1>1, <1>2, <1>3, PTL DEF Spec
-----------------------------------------------------------------------------

(***************************************************************************)
(* ProgressInv.                                                            *)
(***************************************************************************)

\* It holds initially.
LEMMA ProgressInit ==
  ASSUME Init
  PROVE  ProgressInv
BY DEF Init, ProgressInv, ProgressOf, StoreOps, Due, Known

\* The steps of a request.
LEMMA ProgressScheduling ==
  ASSUME TypeInv, StatusInv, TableInv, ProgressInv, NEW r \in Requests, RequestStep(r)
  PROVE  ProgressInv'
<1>1. StatusOf(r) /\ ProgressOf(r)
  BY DEF StatusInv, ProgressInv
<1>2. CASE Arrive(r) \/ StoreReply(r)
  <2>1. UNCHANGED <<table, trackers, sched, phase, meta, ncomp, ntok>>
    BY <1>2 DEF Arrive, StoreReply, vllmVars
  <2>2. \A q \in Requests : status'[q] = status[q] \/ status'[q] = "waiting"
    BY <1>2 DEF Arrive, StoreReply, vllmVars, TypeInv, VllmType
  <2>3. \A q \in Requests : ProgressOf(q)'
    BY <2>1, <2>2 DEF ProgressInv, ProgressOf, Known, Room
  <2>4. StoreOps'
    BY <2>1 DEF ProgressInv, StoreOps, Due, Room
  <2> QED BY <2>3, <2>4 DEF ProgressInv
<1>3. CASE Waits(r) \/ Allocates(r) \/ Continues(r) \/ Decodes(r) \/ Preempt(r) \/ Abort(r)
  <2>1. phase = "schedule" /\ phase' = "schedule" /\ ntok' = ntok
    BY <1>3 DEF Waits, Allocates, Allocation, Continues, Continuation, Decodes, Decoding,
                Preempt, Abort, vllmVars
  <2>2. \A q \in Requests \ {r} : /\ trackers'[q] = trackers[q] /\ status'[q] = status[q]
                                  /\ table'[q] = table[q] /\ sched'[q] = sched[q]
                                  /\ ncomp'[q] = ncomp[q]
    BY <1>3 DEF Waits, Allocates, Allocation, Continues, Continuation, Decodes,
              Decoding, Preempt, Abort, vllmVars, TypeInv, VllmType, ConnectorType
  <2>3. StoreOps'
    BY <2>1 DEF StoreOps, Due
  <2>4. ASSUME NEW q \in Requests, q # r PROVE ProgressOf(q)'
    <3>1. ProgressOf(q)
      BY DEF ProgressInv
    <3> QED BY <2>1, <2>2, <2>4, <3>1 DEF ProgressOf, Known, Room
  <2>5. ntok[r] \in Nat /\ ncomp[r] \in Nat /\ prompt[r] <= ntok[r] /\ prompt[r] \in Nat
    BY DEF TypeInv, VllmType
  <2>6. Base(r).num_stored_tokens % chunk_size = 0
    <3>1. 0 % chunk_size = 0
      <4>1. 0 \in Nat /\ chunk_size \in Nat \ {0} /\ 0 = 0 * chunk_size
        BY ConnectorAssumption
      <4> QED BY <4>1, MultipleFacts
    <3> QED BY <1>1, <3>1 DEF ProgressOf, Base, RequestTracker
  <2>7. ProgressOf(r)'
    <3>1. CASE Waits(r)
      <4>1. PICK local \in Nat, t \in Tracker, ext \in Int :
               AnswerSays(r, local, t, ext) /\ trackers' = [trackers EXCEPT ![r] = t]
        BY <3>1 DEF Waits
      <4>2. /\ status[r] \in {"waiting", "preempted"} /\ status' = status /\ sched' = sched
            /\ sched[r] = Idle
        BY <3>1 DEF Waits, vllmVars
      <4>3. trackers'[r].num_stored_tokens % chunk_size = 0
        BY <2>6, <4>1 DEF AnswerSays, TypeInv, ConnectorType
      <4> QED BY <4>2, <4>3 DEF ProgressOf
    <3>2. CASE Allocates(r)
      <4>1. PICK local \in Nat, t \in Tracker, ext \in Int, k \in Nat, new \in Seq(GpuBlocks) :
               Allocation(r, local, t, ext, k, new)
        BY <3>2 DEF Allocates
      <4>2. /\ AnswerSays(r, local, t, ext) /\ ext >= 0 /\ local % block_size = 0
            /\ ext > 0 => k = 0
            /\ ext = 0 => local + k <= ntok[r]
            /\ local + ext + k <= Len(new) * block_size
            /\ sched[r] = Idle
        BY <4>1 DEF Allocation
      <4> DEFINE u == update_state_after_alloc(t, new, ext)
                 s == [kind |-> IF status[r] = "waiting" THEN "new" ELSE "resumed",
                       new |-> new, computed |-> local + ext, k |-> k]
      <4>3. /\ u.lmcache_hits = t.lmcache_hits /\ u.vllm_hits = t.vllm_hits
            /\ u.num_stored_tokens = t.num_stored_tokens
        BY AllocTracker
      <4>4. /\ trackers'[r] = u /\ status'[r] = IF ext > 0 THEN "loading" ELSE "running"
            /\ table'[r] = new /\ ncomp'[r] = local + ext
            /\ sched'[r] = IF ext > 0 THEN Idle ELSE s
        BY <4>1, <4>2 DEF Allocation, TypeInv, ConnectorType, VllmType
      <4>5. s.computed = local + ext /\ s.k = k
        OBVIOUS
      <4> HIDE DEF u, s
      <4>6. Room(r)' = Len(new) * block_size
        BY <4>4 DEF Room
      <4> DEFINE w == Len(new) * block_size
      <4>7. w \in Nat
        <5>1. Len(new) \in Nat /\ block_size \in Nat
          BY ConnectorAssumption
        <5> QED BY <5>1
      <4>8. local + ext + k <= w /\ Room(r)' = w
        BY <4>2, <4>6
      <4> HIDE DEF w
      <4>9. u.num_stored_tokens % chunk_size = 0
        BY <2>6, <4>2, <4>3 DEF AnswerSays
      <4>10. CASE ext > 0
        <5>1. /\ t.lmcache_hits = local + ext /\ t.vllm_hits = local
              /\ t.lmcache_hits % chunk_size = 0 /\ t.lmcache_hits <= prompt[r]
          BY <4>2, <4>10 DEF AnswerSays
        <5>2. local < local + ext /\ local + ext <= w /\ local + ext <= ntok[r]
          BY <2>5, <4>2, <4>7, <4>8, <4>10, <5>1
        <5> QED BY <2>1, <4>2, <4>3, <4>4, <4>8, <4>9, <4>10, <5>1, <5>2 DEF ProgressOf
      <4>11. CASE ext = 0
        <5>1. /\ local + ext <= w /\ local + ext <= ntok[r]
              /\ local + ext + k <= ntok[r] /\ local + ext = local + ext + 0
          BY <2>5, <4>2, <4>7, <4>8, <4>11
        <5>2. status'[r] = "running" /\ sched'[r] = s
          BY <4>4, <4>11
        <5> QED BY <2>1, <4>4, <4>5, <4>8, <4>9, <5>1, <5>2 DEF ProgressOf
      <4> QED BY <4>2, <4>10, <4>11
    <3>3. CASE Continues(r)
      <4>1. PICK n \in Nat, k \in Nat, new \in Seq(GpuBlocks) : Continuation(r, n, k, new)
        BY <3>3 DEF Continues
      <4> DEFINE s == [kind |-> "new", new |-> new, computed |-> n, k |-> k]
                 u == update_state_after_alloc(trackers[r], new, 0)
                 w == Len(new) * block_size
      <4>2. /\ sched'[r] = s /\ table'[r] = new /\ status'[r] = "running"
            /\ trackers'[r] = u /\ ncomp'[r] = n
            /\ n + k <= ntok[r] /\ n + k <= w /\ status[r] = "loading"
        BY <4>1 DEF Continuation, TypeInv, VllmType, ConnectorType
      <4>3. u.num_stored_tokens % chunk_size = 0
        <5>1. 0 \in Int /\ Known(r)
          BY <1>1, <4>2 DEF StatusOf
        <5>2. trackers[r] \in Tracker /\ trackers[r].num_stored_tokens % chunk_size = 0
          BY <1>1, <5>1, AskedFacts DEF ProgressOf
        <5> QED BY <5>1, <5>2, AllocTracker
      <4>4. Room(r)' = w
        BY <4>2 DEF Room
      <4>5. w \in Nat
        <5>1. Len(new) \in Nat /\ block_size \in Nat
          BY ConnectorAssumption
        <5> QED BY <5>1
      <4>6. s.computed = n /\ s.k = k
        OBVIOUS
      <4> HIDE DEF s, u, w
      <4>7. n <= ntok[r] /\ n <= w /\ n = n + 0
        BY <2>5, <4>2, <4>5
      <4> QED BY <2>1, <4>2, <4>3, <4>4, <4>6, <4>7 DEF ProgressOf
    <3>4. CASE Decodes(r)
      <4>1. PICK k \in Nat, new \in Seq(GpuBlocks) : Decoding(r, k, new)
        BY <3>4 DEF Decodes
      <4> DEFINE s == [kind |-> "cached", new |-> new, computed |-> ncomp[r], k |-> k]
                 w == Len(table[r] \o new) * block_size
      <4>2. /\ sched'[r] = s /\ table'[r] = table[r] \o new /\ status'[r] = "running"
            /\ trackers' = trackers /\ ncomp' = ncomp
            /\ ncomp[r] + k <= ntok[r] /\ ncomp[r] + k <= w
        BY <4>1 DEF Decoding, TypeInv, VllmType
      <4>3. Room(r)' = w
        BY <4>2 DEF Room
      <4>4. w \in Nat
        <5>1. table[r] \in Seq(GpuBlocks) /\ block_size \in Nat
          BY ConnectorAssumption DEF TypeInv, VllmType
        <5>2. Len(table[r] \o new) \in Nat
          BY <5>1
        <5> QED BY <5>1, <5>2
      <4>5. s.computed = ncomp[r] /\ s.k = k
        OBVIOUS
      <4> HIDE DEF s, w
      <4>6. ncomp[r] <= ntok[r] /\ ncomp[r] <= w /\ ncomp[r] = ncomp[r] + 0
        BY <2>5, <4>2, <4>4
      <4> QED BY <1>1, <2>1, <4>2, <4>3, <4>5, <4>6 DEF ProgressOf, Known
    <3>5. CASE Preempt(r)
      <4>1. /\ status'[r] = "preempted" /\ sched'[r] = Idle /\ trackers' = trackers
        BY <3>5 DEF Preempt, TypeInv, VllmType
      <4> QED BY <1>1, <4>1 DEF ProgressOf, Known
    <3>6. CASE Abort(r)
      <4>1. status'[r] = "finished" /\ sched'[r] = Idle /\ trackers'[r] = NoTracker
        BY <3>6 DEF Abort, TypeInv, VllmType, ConnectorType
      <4> QED BY <4>1 DEF ProgressOf, Known
    <3> QED BY <1>3, <3>1, <3>2, <3>3, <3>4, <3>5, <3>6
  <2> QED BY <2>3, <2>4, <2>7 DEF ProgressInv
<1> QED BY <1>2, <1>3 DEF RequestStep

\* build_connector_meta.
LEMMA ProgressBuild ==
  ASSUME TypeInv, StatusInv, TableInv, ProgressInv, Builds
  PROVE  ProgressInv'
<1>1. /\ phase = "schedule" /\ phase' = "load"
      /\ UNCHANGED <<vllmVars, sched>>
  BY DEF Builds
<1>2. ASSUME NEW r \in Requests PROVE ProgressOf(r)'
  <2>1. ProgressOf(r) /\ StatusOf(r)
    BY DEF ProgressInv, StatusInv
  <2>2. Room(r)' = Room(r)
    BY <1>1 DEF Room, vllmVars
  <2>3. CASE ~Known(r)
    <3>1. ~Known(r)' /\ status[r] # "loading"
      BY <2>1, <2>3 DEF Builds, Known, StatusOf
    <3> QED BY <1>1, <2>1, <2>2, <3>1 DEF ProgressOf, vllmVars
  <2>4. CASE Known(r) /\ sched[r] = Idle
    <3>1. /\ trackers'[r].num_stored_tokens = trackers[r].num_stored_tokens
          /\ trackers'[r].lmcache_hits = trackers[r].lmcache_hits
          /\ trackers'[r].vllm_hits = trackers[r].vllm_hits
      <4>1. trackers'[r] = Asked(r)
        BY <2>4 DEF Builds
      <4> QED BY <2>4, <4>1, AskedFacts
    <3> QED BY <1>1, <2>1, <2>2, <2>4, <3>1 DEF ProgressOf, vllmVars
  <2>5. CASE Known(r) /\ sched[r] # Idle
    <3>1. trackers'[r].num_stored_tokens = StoreEnd(r, Computed(r)) /\ status[r] = "running"
      BY <2>1, <2>5, ReadyFacts DEF Builds, StatusOf
    <3>2. Computed(r) \in Tracker /\ Computed(r).num_stored_tokens % chunk_size = 0
      BY <2>1, <2>5, ComputedFacts DEF ProgressOf
    <3>3. StoreEnd(r, Computed(r)) % chunk_size = 0
      BY <3>2, StoreEndFacts
    <3> QED BY <1>1, <2>1, <2>2, <3>1, <3>3 DEF ProgressOf, vllmVars
  <2> QED BY <2>3, <2>4, <2>5
<1>3. ASSUME NEW o \in Due'
      PROVE  /\ o.start % chunk_size = 0 /\ o.end % chunk_size = 0 /\ o.start < o.end
             /\ o.block_ids = Sliced(table[o.r], o.start \div block_size, o.end \div block_size)
             /\ o.end <= Room(o.r)
             /\ o.end <= sched[o.r].computed + sched[o.r].k
  <2>1. PICK r \in Saving : o = generate_store_op(r, Computed(r))
    BY <1>1 DEF Builds, Due
  <2> DEFINE c == Computed(r)
             e == StoreEnd(r, c)
  <2>2. r \in Requests /\ Known(r) /\ sched[r] # Idle /\ e > trackers[r].num_stored_tokens
    BY DEF Saving
  <2>3. /\ c \in Tracker /\ c.block_ids = Table(trackers[r], sched[r])
        /\ c.num_computed_tokens = sched[r].computed + sched[r].k
        /\ c.num_stored_tokens = trackers[r].num_stored_tokens
    BY <2>2, ComputedFacts
  <2>4. c.block_ids = table[r]
    BY <1>1, <2>2, <2>3 DEF StatusInv, StatusOf, TableInv, TrackerTable
  <2>5. c.num_stored_tokens % chunk_size = 0
    BY <2>2, <2>3 DEF ProgressInv, ProgressOf
  <2>6. /\ e \in Nat /\ e % chunk_size = 0
        /\ e <= Len(c.block_ids) * block_size /\ e <= c.num_computed_tokens
    BY <2>2, <2>3, <2>5, StoreEndFacts
  <2>7. /\ o.r = r /\ o.start = c.num_stored_tokens /\ o.end = e
        /\ o.block_ids = Sliced(c.block_ids, c.num_stored_tokens \div block_size, e \div block_size)
    BY <2>1 DEF generate_store_op, LoadStoreOp
  <2>8. c.num_stored_tokens \in Nat
    BY <2>3 DEF Tracker
  <2> HIDE DEF c, e
  <2>9. o.start < o.end
    BY <2>2, <2>3, <2>6, <2>7, <2>8
  <2> QED BY <2>3, <2>4, <2>5, <2>6, <2>7, <2>9 DEF Room
<1>4. StoreOps'
  BY <1>1, <1>3 DEF StoreOps, Room, vllmVars
<1> QED BY <1>2, <1>4 DEF ProgressInv

\* The other steps of a pass.
LEMMA ProgressPass ==
  ASSUME TypeInv, StatusInv, ProgressInv, StartLoad \/ Forward \/ WaitForSave
  PROVE  ProgressInv'
<1>1. UNCHANGED <<status, ntok, table, sched, trackers, meta>>
  BY DEF StartLoad, Forward, WaitForSave, vllmVars
<1>2. Due' \subseteq Due
  BY DEF StartLoad, Forward, WaitForSave, Due
<1>3. StoreOps'
  BY <1>1, <1>2 DEF ProgressInv, StoreOps, Room
<1>4. ASSUME NEW r \in Requests PROVE ProgressOf(r)'
  <2>1. ProgressOf(r) /\ StatusOf(r) /\ Room(r)' = Room(r)
    BY <1>1 DEF ProgressInv, StatusInv, Room
  <2>2. CASE StartLoad \/ WaitForSave
    <3>1. ncomp' = ncomp /\ (phase' \in {"save", "report"} <=> phase \in {"save", "report"})
      BY <2>2 DEF StartLoad, WaitForSave, vllmVars
    <3> QED BY <1>1, <2>1, <3>1 DEF ProgressOf, Known
  <2>3. CASE Forward
    <3>1. /\ phase = "forward" /\ phase' = "save"
          /\ ncomp'[r] = IF sched[r] = Idle THEN ncomp[r] ELSE sched[r].computed + sched[r].k
      BY <2>3 DEF Forward
    <3>2. CASE sched[r] = Idle
      BY <1>1, <2>1, <3>1, <3>2 DEF ProgressOf, Known
    <3>3. CASE sched[r] # Idle
      <4>1. status[r] = "running"
        BY <2>1, <3>3 DEF StatusOf
      <4> QED BY <1>1, <2>1, <3>1, <3>3, <4>1 DEF ProgressOf, Known
    <3> QED BY <3>2, <3>3
  <2> QED BY <2>2, <2>3
<1> QED BY <1>3, <1>4 DEF ProgressInv

\* The report.
LEMMA ProgressReport ==
  ASSUME TypeInv, StatusInv, ProgressInv, GetFinished
  PROVE  ProgressInv'
<1>1. PICK Ends \in SUBSET Complete : Reports(Ends)
  BY ReportSteps
<1>2. Due' = {}
  BY <1>1 DEF Reports, Due
<1>3. ASSUME NEW r \in Requests PROVE ProgressOf(r)'
  <2>1. ProgressOf(r) /\ ntok[r] \in Nat /\ ncomp[r] \in Nat
    BY DEF ProgressInv, TypeInv, VllmType
  <2>2. /\ sched'[r] = Idle /\ ncomp'[r] = ncomp[r]
        /\ ntok'[r] = ntok[r] \/ ntok'[r] = ntok[r] + 1
        /\ trackers'[r] = NoTracker \/ trackers'[r] = trackers[r]
    BY <1>1 DEF Reports
  <2>3. status'[r] \in {"loading", "running"} =>
           status'[r] = status[r] /\ table'[r] = table[r] /\ trackers'[r] = trackers[r]
    BY <1>1 DEF Reports
  <2>4. ncomp[r] <= ntok[r] => ncomp'[r] <= ntok'[r]
    BY <2>1, <2>2
  <2> QED BY <2>1, <2>2, <2>3, <2>4 DEF ProgressOf, Known, Room
<1> QED BY <1>2, <1>3 DEF ProgressInv, StoreOps

\* So every step keeps ProgressInv.
LEMMA ProgressStep ==
  ASSUME TypeInv, StatusInv, TableInv, ProgressInv, [Next]_vars
  PROVE  ProgressInv'
<1>1. CASE (\E l \in loads : LoadReply(l) \/ LoadFails(l) \/ Scatter(l)) \/ UNCHANGED vars
  <2>1. UNCHANGED <<table, trackers, status, phase, sched, meta, ncomp, ntok>>
    BY <1>1 DEF LoadReply, LoadFails, Scatter, vllmVars, vars
  <2> QED BY <2>1 DEF ProgressInv, ProgressOf, StoreOps, Due, Room, Known
<1>2. CASE Next
  <2>1. Step
    BY <1>2, NextSteps
  <2> QED BY <1>1, <2>1, ProgressScheduling, ProgressBuild, ProgressPass, ProgressReport DEF Step
<1> QED BY <1>1, <1>2
-----------------------------------------------------------------------------

(***************************************************************************)
(* Slots.                                                                  *)
(***************************************************************************)

\* A token within a table has a slot of the GPU cache.
LEMMA SlotFacts ==
  ASSUME NEW t \in Seq(GpuBlocks), NEW p \in Nat, p < Len(t) * block_size
  PROVE  /\ p \div block_size \in Nat /\ p \div block_size + 1 \in 1 .. Len(t)
         /\ p % block_size \in Offsets
         /\ Slot(t, p) \in GpuBlocks \X Offsets
<1>1. block_size \in Nat \ {0} /\ Len(t) \in Nat
  BY ConnectorAssumption
<1> DEFINE q == p \div block_size
           m == p % block_size
<1>2. q \in Nat /\ m \in Nat /\ m < block_size /\ p = block_size * q + m
  BY <1>1, DivFacts
<1> HIDE DEF q, m
<1>3. q < Len(t)
  <2>1. SUFFICES ASSUME q >= Len(t) PROVE FALSE
    BY <1>1, <1>2
  <2>2. block_size * q >= Len(t) * block_size
    BY <1>1, <1>2, <2>1
  <2> QED BY <1>1, <1>2, <2>2
<1>4. q + 1 \in 1 .. Len(t) /\ m \in Offsets
  BY <1>1, <1>2, <1>3 DEF Offsets
<1>5. t[q + 1] \in GpuBlocks
  BY <1>4
<1>6. Slot(t, p) = <<t[q + 1], m>>
  BY DEF Slot, q, m
<1> QED BY <1>2, <1>4, <1>5, <1>6 DEF q, m

\* A token is determined by its block and its offset.
LEMMA SameToken ==
  ASSUME NEW p \in Nat, NEW s \in Nat,
         p \div block_size = s \div block_size, p % block_size = s % block_size
  PROVE  p = s
<1>1. block_size \in Nat \ {0}
  BY ConnectorAssumption
<1>2. /\ p = block_size * (p \div block_size) + (p % block_size)
      /\ s = block_size * (s \div block_size) + (s % block_size)
  BY <1>1, DivFacts
<1> QED BY <1>2

\* No two tokens share a slot.
LEMMA SlotInjective ==
  ASSUME TypeInv, Disjoint, NEW r \in Requests, NEW q \in Requests,
         NEW p \in Nat, p < Room(r), NEW s \in Nat, s < Room(q),
         Slot(table[r], p) = Slot(table[q], s)
  PROVE  r = q /\ p = s
<1>1. table[r] \in Seq(GpuBlocks) /\ table[q] \in Seq(GpuBlocks)
  BY DEF TypeInv, VllmType
<1> DEFINE a == p \div block_size
           b == s \div block_size
<1>2. a \in Nat /\ b \in Nat /\ a + 1 \in 1 .. Len(table[r]) /\ b + 1 \in 1 .. Len(table[q])
  BY <1>1, SlotFacts DEF Room
<1>3. table[r][a + 1] = table[q][b + 1] /\ p % block_size = s % block_size
  BY DEF Slot
<1> HIDE DEF a, b
<1>4. r = q /\ a + 1 = b + 1
  BY <1>2, <1>3 DEF Disjoint
<1>5. a = b
  BY <1>2, <1>4
<1> QED BY <1>3, <1>4, <1>5, SameToken DEF a, b

\* A slice of a table has the table's slots.
LEMMA SlotSliced ==
  ASSUME NEW t \in Seq(GpuBlocks), NEW a \in Nat, NEW b \in Nat, a <= b, b <= Len(t),
         NEW p \in Nat, p < (b - a) * block_size
  PROVE  Slot(Sliced(t, a, b), p) = Slot(t, a * block_size + p)
<1> DEFINE w == Sliced(t, a, b)
           q == p \div block_size
           m == p % block_size
           x == a * block_size + p
<1>1. block_size \in Nat \ {0}
  BY ConnectorAssumption
<1>2. w \in Seq(GpuBlocks) /\ Len(w) = b - a /\ \A y \in 1 .. (b - a) : w[y] = t[a + y]
  BY SlicedFacts
<1> HIDE DEF w
<1>3. q \in Nat /\ q + 1 \in 1 .. (b - a)
  <2>1. p < Len(w) * block_size
    BY <1>2
  <2>2. q \in Nat /\ q + 1 \in 1 .. Len(w)
    BY <1>2, <2>1, SlotFacts
  <2> QED BY <1>2, <2>2
<1>4. m \in Nat /\ m < block_size /\ p = block_size * q + m
  BY <1>1, DivFacts
<1> HIDE DEF q, m
<1>5. x \in Nat /\ a + q \in Nat /\ x = block_size * (a + q) + m
  BY <1>1, <1>3, <1>4
<1> HIDE DEF x
<1>6. x \div block_size = a + q /\ x % block_size = m
  BY <1>1, <1>4, <1>5, DivUnique
<1>7. w[q + 1] = t[a + (q + 1)]
  BY <1>2, <1>3
<1>8. a + (q + 1) = x \div block_size + 1
  BY <1>3, <1>6
<1>9. Slot(w, p) = <<w[q + 1], m>> /\ Slot(t, x) = <<t[x \div block_size + 1], x % block_size>>
  BY DEF Slot, q, m
<1> QED BY <1>6, <1>7, <1>8, <1>9 DEF w, x

\* A table that grows keeps its slots.
LEMMA SlotGains ==
  ASSUME NEW t \in Seq(GpuBlocks), NEW new, Gains(t, new),
         NEW p \in Nat, p < Len(t) * block_size
  PROVE  Slot(new, p) = Slot(t, p)
<1>1. p \div block_size + 1 \in 1 .. Len(t)
  BY SlotFacts
<1> QED BY <1>1 DEF Slot, Gains

\* A new table has slots of its own, different from each other.
LEMMA SlotNew ==
  ASSUME TypeInv, NEW new \in Seq(GpuBlocks), Gains(<<>>, new),
         NEW p \in Nat, p < Len(new) * block_size
  PROVE  /\ \A q \in Requests : \A s \in Nat : s < Room(q) => Slot(new, p) # Slot(table[q], s)
         /\ \A s \in Nat : s < Len(new) * block_size /\ Slot(new, s) = Slot(new, p) => s = p
<1>1. /\ \A x \in 1 .. Len(new) : new[x] \notin Used
      /\ \A x, y \in 1 .. Len(new) : new[x] = new[y] => x = y
  <2>1. Len(<<>>) = 0
    OBVIOUS
  <2> QED BY <2>1 DEF Gains
<1>2. p \div block_size \in Nat /\ p \div block_size + 1 \in 1 .. Len(new)
  BY SlotFacts
<1>3. ASSUME NEW q \in Requests, NEW s \in Nat, s < Room(q), Slot(new, p) = Slot(table[q], s)
      PROVE  FALSE
  <2>1. table[q] \in Seq(GpuBlocks)
    BY DEF TypeInv, VllmType
  <2>2. s \div block_size + 1 \in 1 .. Len(table[q])
    BY <1>3, <2>1, SlotFacts DEF Room
  <2>3. table[q][s \div block_size + 1] \in Used
    BY <2>1, <2>2, InUse
  <2>4. new[p \div block_size + 1] = table[q][s \div block_size + 1]
    BY <1>3 DEF Slot
  <2> QED BY <1>1, <1>2, <2>3, <2>4
<1>4. ASSUME NEW s \in Nat, s < Len(new) * block_size, Slot(new, s) = Slot(new, p)
      PROVE  s = p
  <2>1. s \div block_size \in Nat /\ s \div block_size + 1 \in 1 .. Len(new)
    BY <1>4, SlotFacts
  <2>2. /\ new[p \div block_size + 1] = new[s \div block_size + 1]
        /\ p % block_size = s % block_size
    BY <1>4 DEF Slot
  <2>3. p \div block_size + 1 = s \div block_size + 1
    BY <1>1, <1>2, <2>1, <2>2
  <2>4. p \div block_size = s \div block_size
    BY <1>2, <2>1, <2>3
  <2> QED BY <2>2, <2>4, SameToken
<1> QED BY <1>3, <1>4
-----------------------------------------------------------------------------

(***************************************************************************)
(* FillInv.                                                                *)
(***************************************************************************)

\* It holds initially.
LEMMA FillInit ==
  ASSUME Init
  PROVE  FillInv
BY DEF Init, FillInv, FillOf

\* The tokens of a request that counts have slots, and its cached ones are
\* among those it counts as computed.
LEMMA FillRange ==
  ASSUME TypeInv, StatusInv, ProgressInv, NEW r \in Requests,
         status[r] \in {"running", "loading"}
  PROVE  /\ ncomp[r] \in Nat /\ Room(r) \in Nat /\ table[r] \in Seq(GpuBlocks)
         /\ \A p \in 0 .. (ncomp[r] - 1) : p \in Nat /\ p < Room(r)
         /\ status[r] = "loading" =>
              /\ trackers[r] \in Tracker /\ trackers[r].vllm_hits \in Nat
              /\ trackers[r].vllm_hits < ncomp[r]
              /\ \A p \in 0 .. (trackers[r].vllm_hits - 1) : p \in 0 .. (ncomp[r] - 1)
<1>1. table[r] \in Seq(GpuBlocks) /\ ncomp[r] \in Nat
  BY DEF TypeInv, VllmType
<1>2. Room(r) \in Nat
  <2>1. Len(table[r]) \in Nat /\ block_size \in Nat
    BY <1>1, ConnectorAssumption
  <2> QED BY <2>1 DEF Room
<1>3. ncomp[r] <= Room(r)
  BY DEF ProgressInv, ProgressOf
<1>4. \A p \in 0 .. (ncomp[r] - 1) : p \in Nat /\ p < Room(r)
  BY <1>1, <1>2, <1>3
<1>5. CASE status[r] = "loading"
  <2>1. trackers[r] \in Tracker
    BY <1>5, AskedFacts DEF StatusInv, StatusOf
  <2>2. trackers[r].vllm_hits \in Nat
    BY <2>1 DEF Tracker
  <2>3. trackers[r].vllm_hits < ncomp[r]
    BY <1>5 DEF ProgressInv, ProgressOf
  <2> QED BY <1>1, <1>2, <1>4, <2>1, <2>2, <2>3
<1> QED BY <1>1, <1>2, <1>4, <1>5

\* A step that leaves a request and its slots alone.
LEMMA FillStays ==
  ASSUME TypeInv, StatusInv, ProgressInv, NEW r \in Requests, FillOf(r),
         status'[r] \in {"running", "loading"} =>
           /\ status'[r] = status[r] /\ ncomp'[r] = ncomp[r]
           /\ \A p \in 0 .. (ncomp[r] - 1) :
                gpu'[Slot(table'[r], p)] = gpu[Slot(table[r], p)],
         status'[r] = "loading" => /\ trackers'[r].vllm_hits = trackers[r].vllm_hits
                                   /\ LoadOver(r)' <=> LoadOver(r)
  PROVE  FillOf(r)'
<1>1. CASE status'[r] = "running"
  <2>1. status[r] = "running" /\ Filled(r, ncomp[r]) /\ ncomp'[r] = ncomp[r]
    BY <1>1 DEF FillOf
  <2>2. Filled(r, ncomp[r])'
    BY <1>1, <2>1 DEF Filled
  <2> QED BY <1>1, <2>2 DEF FillOf
<1>2. CASE status'[r] = "loading"
  <2> DEFINE n == IF LoadOver(r) THEN ncomp[r] ELSE trackers[r].vllm_hits
  <2>1. status[r] = "loading" /\ Filled(r, n) /\ ncomp'[r] = ncomp[r]
    BY <1>2 DEF FillOf
  <2>2. \A p \in 0 .. (n - 1) : p \in 0 .. (ncomp[r] - 1)
    BY <2>1, FillRange
  <2>3. n' = n
    BY <1>2
  <2> HIDE DEF n
  <2>4. \A p \in 0 .. (n - 1) : gpu'[Slot(table'[r], p)] = <<r, p>>
    BY <1>2, <2>1, <2>2 DEF Filled
  <2>5. Filled(r, n)'
    BY <2>3, <2>4 DEF Filled
  <2> QED BY <1>2, <2>5 DEF FillOf, n
<1> QED BY <1>1, <1>2 DEF FillOf

\* Whether the load of a request is over does not change with the others.
LEMMA LoadOverStays ==
  ASSUME NEW r \in Requests, InFlight' = InFlight, loads' = loads,
         trackers'[r].load_pending = trackers[r].load_pending
  PROVE  LoadOver(r)' <=> LoadOver(r)
BY DEF LoadOver

\* What is aborted or has failed stays so.
LEMMA ExemptStay ==
  ASSUME Step \/ UNCHANGED vars
  PROVE  stray \subseteq stray' /\ failed \subseteq failed'
<1>1. ASSUME NEW r \in Requests, RequestStep(r)
      PROVE  stray \subseteq stray' /\ failed \subseteq failed'
  BY <1>1 DEF RequestStep, Arrive, Waits, Allocates, Allocation, Continues,
     Continuation, Decodes, Decoding, Preempt, Abort, StoreReply, workerVars
<1>2. Builds \/ StartLoad \/ Forward \/ WaitForSave \/ GetFinished
      => stray \subseteq stray' /\ failed \subseteq failed'
  BY DEF Builds, StartLoad, Forward, WaitForSave, GetFinished, workerVars
<1>3. ASSUME NEW l \in loads, LoadReply(l) \/ LoadFails(l) \/ Scatter(l)
      PROVE  stray \subseteq stray' /\ failed \subseteq failed'
  BY <1>3 DEF LoadReply, LoadFails, Scatter
<1>4. UNCHANGED vars => stray \subseteq stray' /\ failed \subseteq failed'
  BY DEF vars, workerVars
<1> QED BY <1>1, <1>2, <1>3, <1>4 DEF Step

\* The steps of a request, for the requests that count.
LEMMA FillScheduling ==
  ASSUME TypeInv, StatusInv, TableInv, ProgressInv, stray = {},
         NEW r \in Requests, RequestStep(r), NEW q \in Requests, FillOf(q)
  PROVE  FillOf(q)'
<1>1. StatusOf(r)
  BY DEF StatusInv
<1>2. CASE Arrive(r) \/ StoreReply(r)
  <2>1. UNCHANGED <<table, trackers, ncomp, gpu, phase, meta, loads>>
    BY <1>2 DEF Arrive, StoreReply, vllmVars, workerVars
  <2>2. status'[q] = status[q] \/ status'[q] = "waiting"
    BY <1>2 DEF Arrive, StoreReply, vllmVars, TypeInv, VllmType
  <2>3. LoadOver(q)' <=> LoadOver(q)
    BY <2>1, LoadOverStays DEF InFlight
  <2> QED BY <2>1, <2>2, <2>3, FillStays
<1>3. CASE Waits(r) \/ Allocates(r) \/ Continues(r) \/ Decodes(r) \/ Preempt(r) \/ Abort(r)
  <2>1. phase = "schedule" /\ phase' = "schedule" /\ loads' = loads
        /\ InFlight = {} /\ InFlight' = {}
    BY <1>3 DEF Waits, Allocates, Allocation, Continues, Continuation, Decodes, Decoding,
                Preempt, Abort, workerVars, InFlight
  <2>2. CASE q # r
    <3>1. /\ trackers'[q] = trackers[q] /\ status'[q] = status[q]
          /\ table'[q] = table[q] /\ ncomp'[q] = ncomp[q]
      BY <1>3, <2>2 DEF Waits, Allocates, Allocation, Continues, Continuation, Decodes,
              Decoding, Preempt, Abort, vllmVars, TypeInv, VllmType, ConnectorType
    <3>2. LoadOver(q)' <=> LoadOver(q)
      BY <2>1, <3>1, LoadOverStays
    <3>3. ASSUME status[q] \in {"running", "loading"}, NEW p \in 0 .. (ncomp[q] - 1)
          PROVE  gpu'[Slot(table[q], p)] = gpu[Slot(table[q], p)]
      <4>1. CASE Allocates(r)
        <5>1. PICK local \in Nat, t \in Tracker, ext \in Int, k \in Nat, new \in Seq(GpuBlocks) :
                 Allocation(r, local, t, ext, k, new)
          BY <4>1 DEF Allocates
        <5>2. /\ Gains(<<>>, new) /\ PrefixCached(r, new, local)
              /\ local + ext + k <= Len(new) * block_size /\ ext >= 0
          BY <5>1 DEF Allocation
        <5>3. p \in Nat /\ p < Room(q) /\ table[q] \in Seq(GpuBlocks)
          BY <3>3, FillRange
        <5>4. Slot(table[q], p) \in DOMAIN gpu
          BY <5>3, SlotFacts DEF TypeInv, VllmType, Room
        <5>5. \A x \in 0 .. (local - 1) : x \in Nat /\ x < Len(new) * block_size
          <6> DEFINE w == Len(new) * block_size
          <6>1. w \in Nat
            <7>1. Len(new) \in Nat /\ block_size \in Nat
              BY ConnectorAssumption
            <7> QED BY <7>1
          <6>2. local + ext + k <= w
            BY <5>2
          <6> HIDE DEF w
          <6>3. local <= w
            BY <5>2, <6>1, <6>2
          <6>4. \A x \in 0 .. (local - 1) : x \in Nat /\ x < w
            BY <6>1, <6>3
          <6> QED BY <6>4 DEF w
        <5>6. ~ \E x \in 0 .. (local - 1) : Slot(table[q], p) = Slot(new, x)
          BY <5>2, <5>3, <5>5, SlotNew
        <5> QED BY <5>2, <5>4, <5>6 DEF PrefixCached
      <4>2. CASE Waits(r) \/ Continues(r) \/ Decodes(r) \/ Preempt(r) \/ Abort(r)
        BY <4>2 DEF Waits, Continues, Continuation, Decodes, Decoding, Preempt, Abort
      <4> QED BY <1>3, <4>1, <4>2
    <3> QED BY <3>1, <3>2, <3>3, FillStays
  <2>3. CASE q = r
    <3>1. CASE Waits(r)
      <4>1. status'[r] \in {"waiting", "preempted"}
        BY <3>1 DEF Waits, vllmVars
      <4> QED BY <2>3, <4>1 DEF FillOf
    <3>2. CASE Preempt(r) \/ Abort(r)
      <4>1. status'[r] \in {"finished", "preempted"}
        BY <3>2 DEF Preempt, Abort, TypeInv, VllmType
      <4> QED BY <2>3, <4>1 DEF FillOf
    <3>3. CASE Decodes(r)
      <4>1. PICK k \in Nat, new \in Seq(GpuBlocks) : Decoding(r, k, new)
        BY <3>3 DEF Decodes
      <4> DEFINE w == table[r] \o new
      <4>2. /\ table'[r] = w /\ status' = status /\ status[r] = "running"
            /\ ncomp' = ncomp /\ gpu' = gpu /\ Gains(table[r], w)
        BY <4>1 DEF Decoding, TypeInv, VllmType
      <4> HIDE DEF w
      <4>3. ASSUME NEW p \in 0 .. (ncomp[r] - 1)
            PROVE  gpu'[Slot(table'[r], p)] = gpu[Slot(table[r], p)]
        <5>1. p \in Nat /\ p < Len(table[r]) * block_size /\ table[r] \in Seq(GpuBlocks)
          BY <4>2, FillRange DEF Room
        <5>2. Slot(w, p) = Slot(table[r], p)
          BY <4>2, <5>1, SlotGains
        <5> QED BY <4>2, <5>2
      <4> QED BY <2>3, <4>2, <4>3, FillStays
    <3>4. CASE Continues(r)
      <4>1. PICK n \in Nat, k \in Nat, new \in Seq(GpuBlocks) : Continuation(r, n, k, new)
        BY <3>4 DEF Continues
      <4>2. /\ table'[r] = new /\ status'[r] = "running" /\ status[r] = "loading" /\ r \in recved
            /\ ncomp'[r] = n /\ n <= ncomp[r] /\ gpu' = gpu /\ Gains(table[r], new)
        BY <4>1 DEF Continuation, TypeInv, VllmType
      <4>3. LoadOver(r)
        <5>1. r \notin load_futures /\ trackers[r].load_pending = FALSE
          <6>1. Known(r) /\ trackers[r].load_pending # TRUE /\ r \notin load_futures
            BY <1>1, <4>2 DEF StatusOf
          <6>2. trackers[r].load_pending \in BOOLEAN
            BY <6>1, AskedFacts DEF Tracker
          <6> QED BY <6>1, <6>2
        <5>2. \A l \in loads : l.op.r # r
          BY <5>1 DEF StatusInv, OpStatus
        <5> QED BY <2>1, <5>1, <5>2 DEF LoadOver
      <4>4. Filled(r, ncomp[r])
        BY <2>3, <4>2, <4>3 DEF FillOf
      <4>5. ASSUME NEW p \in 0 .. (n - 1)
            PROVE  gpu'[Slot(table'[r], p)] = <<r, p>>
        <5>1. p \in 0 .. (ncomp[r] - 1)
          BY <4>2, FillRange
        <5>2. p \in Nat /\ p < Len(table[r]) * block_size /\ table[r] \in Seq(GpuBlocks)
          BY <4>2, <5>1, FillRange DEF Room
        <5>3. Slot(new, p) = Slot(table[r], p)
          BY <4>2, <5>2, SlotGains
        <5> QED BY <4>2, <4>4, <5>1, <5>3 DEF Filled
      <4>6. Filled(r, n)'
        BY <4>5 DEF Filled
      <4> QED BY <2>3, <4>2, <4>6 DEF FillOf
    <3>5. CASE Allocates(r)
      <4>1. PICK local \in Nat, t \in Tracker, ext \in Int, k \in Nat, new \in Seq(GpuBlocks) :
               Allocation(r, local, t, ext, k, new)
        BY <3>5 DEF Allocates
      <4> DEFINE u == update_state_after_alloc(t, new, ext)
      <4>2. /\ Gains(<<>>, new) /\ PrefixCached(r, new, local) /\ AnswerSays(r, local, t, ext)
            /\ local + ext + k <= Len(new) * block_size /\ ext >= 0
            /\ table'[r] = new /\ trackers'[r] = u /\ ncomp'[r] = local + ext
            /\ status'[r] = IF ext > 0 THEN "loading" ELSE "running"
        BY <4>1 DEF Allocation, TypeInv, VllmType, ConnectorType
      <4>3. u.vllm_hits = t.vllm_hits /\ (ext > 0 => u.load_pending = TRUE)
        <5>1. u.vllm_hits = t.vllm_hits /\ u.load_pending = (t.load_pending \/ ext > 0)
          BY AllocTracker
        <5> QED BY <5>1
      <4> HIDE DEF u
      <4>4. \A x \in 0 .. (local - 1) : x \in Nat /\ x < Len(new) * block_size
        <5> DEFINE w == Len(new) * block_size
        <5>1. w \in Nat
          <6>1. Len(new) \in Nat /\ block_size \in Nat
            BY ConnectorAssumption
          <6> QED BY <6>1
        <5>2. local + ext + k <= w
          BY <4>2
        <5> HIDE DEF w
        <5>3. local <= w
          BY <4>2, <5>1, <5>2
        <5>4. \A x \in 0 .. (local - 1) : x \in Nat /\ x < w
          BY <5>1, <5>3
        <5> QED BY <5>4 DEF w
      <4>5. ASSUME NEW p \in 0 .. (local - 1) PROVE gpu'[Slot(new, p)] = <<r, p>>
        <5> DEFINE s == Slot(new, p)
                   C == CHOOSE x \in {r} \X (0 .. (local - 1)) : s = Slot(new, x[2])
        <5>1. s \in DOMAIN gpu
          BY <4>4, SlotFacts DEF TypeInv, VllmType
        <5>2. gpu'[s] = C
          BY <4>2, <5>1 DEF PrefixCached
        <5>3. <<r, p>> \in {r} \X (0 .. (local - 1)) /\ s = Slot(new, <<r, p>>[2])
          OBVIOUS
        <5>4. C \in {r} \X (0 .. (local - 1)) /\ s = Slot(new, C[2])
          BY <5>3
        <5> HIDE DEF C
        <5>5. C[2] \in 0 .. (local - 1) /\ C = <<r, C[2]>>
          BY <5>4
        <5>6. C[2] = p
          BY <4>2, <4>4, <5>4, <5>5, SlotNew
        <5> QED BY <5>2, <5>5, <5>6
      <4>6. Filled(r, local)'
        BY <4>2, <4>5 DEF Filled
      <4>7. CASE ext > 0
        <5>1. ~LoadOver(r)'
          BY <4>2, <4>3, <4>7 DEF LoadOver
        <5>2. trackers'[r].vllm_hits = local
          BY <4>2, <4>3, <4>7 DEF AnswerSays
        <5> QED BY <2>3, <4>2, <4>6, <4>7, <5>1, <5>2 DEF FillOf
      <4>8. CASE ext = 0
        <5>1. ncomp'[r] = local /\ status'[r] = "running"
          BY <4>2, <4>8
        <5> QED BY <2>3, <4>6, <5>1 DEF FillOf
      <4> QED BY <4>2, <4>7, <4>8
    <3> QED BY <1>3, <3>1, <3>2, <3>3, <3>4, <3>5
  <2> QED BY <2>2, <2>3
<1> QED BY <1>2, <1>3 DEF RequestStep
\* build_connector_meta, start_load_kv and wait_for_save hand operations on
\* and write nothing.
LEMMA FillHandOver ==
  ASSUME TypeInv, StatusInv, ProgressInv, Builds \/ StartLoad \/ WaitForSave,
         NEW q \in Requests, FillOf(q)
  PROVE  FillOf(q)'
<1>1. UNCHANGED <<vllmVars, gpu>>
  BY DEF Builds, StartLoad, WaitForSave
<1>2. ASSUME status[q] = "loading"
      PROVE  trackers'[q].vllm_hits = trackers[q].vllm_hits /\ (LoadOver(q)' <=> LoadOver(q))
  <2>1. Known(q) /\ sched[q] = Idle /\ trackers[q] \in Tracker
    BY <1>2, AskedFacts DEF StatusInv, StatusOf
  <2>2. CASE Builds
    <3>1. trackers'[q] = Asked(q)
      BY <2>1, <2>2 DEF Builds
    <3>2. trackers'[q].load_pending = FALSE /\ trackers'[q].vllm_hits = trackers[q].vllm_hits
      BY <2>1, <3>1, AskedFacts
    <3>3. loads' = loads /\ InFlight = {}
          /\ InFlight' = {generate_retrieve_op(r, trackers[r]) : r \in Retrieves}
      BY <2>2 DEF Builds, workerVars, InFlight
    <3>4. \A r : generate_retrieve_op(r, trackers[r]).r = r
      BY DEF generate_retrieve_op, LoadStoreOp
    <3>5. (\A o \in InFlight' : o.r # q) <=> q \notin Retrieves
      BY <3>3, <3>4
    <3>6. q \notin Retrieves <=> trackers[q].load_pending = FALSE
      BY <2>1 DEF Retrieves, Tracker
    <3> QED BY <3>2, <3>3, <3>5, <3>6 DEF LoadOver
  <2>3. CASE StartLoad
    <3>1. /\ trackers' = trackers /\ InFlight = meta.load /\ InFlight' = {}
          /\ loads' = loads \cup {[op |-> o, at |-> "reply"] : o \in meta.load}
      BY <2>3 DEF StartLoad, InFlight
    <3>2. ASSUME LoadOver(q) PROVE LoadOver(q)'
      BY <3>1, <3>2 DEF LoadOver
    <3>3. ASSUME LoadOver(q)' PROVE LoadOver(q)
      <4>1. ASSUME NEW o \in InFlight PROVE o.r # q
        <5> DEFINE l == [op |-> o, at |-> "reply"]
        <5>1. l \in loads' /\ l.op = o /\ l.at # "done"
          BY <3>1
        <5> HIDE DEF l
        <5> QED BY <3>3, <5>1 DEF LoadOver
      <4> QED BY <3>1, <3>3, <4>1 DEF LoadOver
    <3> QED BY <3>1, <3>2, <3>3
  <2>4. CASE WaitForSave
    <3>1. trackers' = trackers /\ loads' = loads /\ InFlight' = InFlight
      BY <2>4 DEF WaitForSave, InFlight
    <3> QED BY <3>1, LoadOverStays
  <2> QED BY <2>2, <2>3, <2>4
<1> QED BY <1>1, <1>2, FillStays DEF vllmVars

\* The forward pass writes the tokens of the scheduled requests, into slots
\* no other token has, and leaves the other slots alone.
LEMMA FillForward ==
  ASSUME TypeInv, StatusInv, TableInv, ProgressInv, Forward,
         NEW r \in Requests, FillOf(r)
  PROVE  FillOf(r)'
<1> DEFINE Right(q) == \A p \in 0 .. (sched[q].computed - 1) :
                    gpu[Slot(table[q], p)] = <<q, p>>
           Writes == {x \in UNION {{q} \X (0 .. (MaxTokens[q] - 1)) : q \in Requests} :
                   /\ sched[x[1]] # Idle
                   /\ x[2] \in sched[x[1]].computed ..
                                 (sched[x[1]].computed + sched[x[1]].k - 1)}
           At(s) == {x \in Writes : Slot(table[x[1]], x[2]) = s}
<1>1. /\ gpu' = [s \in DOMAIN gpu |->
                   IF At(s) = {} THEN gpu[s]
                   ELSE LET x == CHOOSE x \in At(s) : TRUE
                        IN  IF Right(x[1]) THEN x ELSE Nothing]
      /\ ncomp'[r] = IF sched[r] = Idle THEN ncomp[r] ELSE sched[r].computed + sched[r].k
      /\ phase = "forward"
      /\ UNCHANGED <<status, table, trackers, loads>>
  BY DEF Forward, workerVars
<1>2. InFlight = {} /\ InFlight' = {}
  BY <1>1 DEF Forward, InFlight
<1>3. ASSUME NEW x \in Writes
      PROVE  /\ x[1] \in Requests /\ x = <<x[1], x[2]>> /\ sched[x[1]] # Idle
             /\ x[2] \in Nat /\ x[2] < Room(x[1]) /\ x[2] >= sched[x[1]].computed
  <2>1. PICK q \in Requests : x \in {q} \X (0 .. (MaxTokens[q] - 1))
    OBVIOUS
  <2>2. x[1] = q /\ x = <<x[1], x[2]>> /\ x[2] \in Nat
    BY <2>1, ConnectorAssumption
  <2>3. sched[q] # Idle /\ x[2] \in sched[q].computed .. (sched[q].computed + sched[q].k - 1)
    BY <2>2
  <2>4. sched[q].computed \in Nat /\ sched[q].k \in Nat
    BY <2>3 DEF TypeInv, VllmType, Scheduling
  <2>5. status[q] = "running" /\ sched[q].computed + sched[q].k <= Room(q)
    BY <2>3 DEF StatusInv, StatusOf, ProgressInv, ProgressOf
  <2>6. Room(q) \in Nat
    BY <2>5, FillRange
  <2>7. x[2] < Room(q) /\ x[2] >= sched[q].computed
    BY <2>2, <2>3, <2>4, <2>5, <2>6
  <2> QED BY <2>2, <2>3, <2>7
<1> HIDE DEF Writes
<1>4. ASSUME NEW p \in Nat, p < Room(r), NEW x \in At(Slot(table[r], p))
      PROVE  x = <<r, p>> /\ sched[r] # Idle /\ p >= sched[r].computed
  <2>1. x \in Writes /\ Slot(table[x[1]], x[2]) = Slot(table[r], p)
    OBVIOUS
  <2>2. x[1] = r /\ x[2] = p
    BY <1>3, <1>4, <2>1, SlotInjective DEF TableInv
  <2> QED BY <1>3, <2>1, <2>2
<1>5. ASSUME status[r] \in {"running", "loading"}, NEW p \in 0 .. (ncomp[r] - 1)
      PROVE  gpu'[Slot(table[r], p)] = gpu[Slot(table[r], p)]
  <2>1. p \in Nat /\ p < Room(r) /\ table[r] \in Seq(GpuBlocks) /\ ncomp[r] \in Nat
    BY <1>5, FillRange
  <2>2. Slot(table[r], p) \in DOMAIN gpu
    BY <2>1, SlotFacts DEF TypeInv, VllmType, Room
  <2>3. At(Slot(table[r], p)) = {}
    <3>1. SUFFICES ASSUME NEW x \in At(Slot(table[r], p)) PROVE FALSE
      OBVIOUS
    <3>2. sched[r] # Idle /\ p >= sched[r].computed
      BY <1>4, <2>1
    <3>3. ncomp[r] = sched[r].computed + 0
      BY <1>1, <3>2 DEF ProgressInv, ProgressOf
    <3>4. sched[r].computed \in Nat
      BY <3>2 DEF TypeInv, VllmType, Scheduling
    <3> QED BY <2>1, <3>2, <3>3, <3>4
  <2> QED BY <1>1, <2>2, <2>3
<1>6. CASE sched[r] = Idle
  <2>1. LoadOver(r)' <=> LoadOver(r)
    BY <1>1, <1>2, LoadOverStays
  <2> QED BY <1>1, <1>5, <1>6, <2>1, FillStays
<1>7. CASE sched[r] # Idle
  <2>1. status[r] = "running" /\ status'[r] = "running"
    BY <1>1, <1>7 DEF StatusInv, StatusOf
  <2> DEFINE c == sched[r].computed
             k == sched[r].k
  <2>2. c \in Nat /\ k \in Nat
    BY <1>7 DEF TypeInv, VllmType, Scheduling
  <2>3. ncomp[r] = c /\ ncomp'[r] = c + k /\ c + k <= Room(r) /\ c + k <= ntok[r]
    BY <1>1, <1>7, <2>2 DEF ProgressInv, ProgressOf
  <2>4. Room(r) \in Nat /\ table[r] \in Seq(GpuBlocks)
    BY <2>1, FillRange
  <2>5. ntok[r] \in Nat /\ MaxTokens[r] \in Nat /\ ntok[r] <= MaxTokens[r]
    BY ConnectorAssumption DEF TypeInv, VllmType
  <2>6. Filled(r, c)
    BY <2>1, <2>3 DEF FillOf
  <2>7. Right(r)
    BY <2>6 DEF Filled
  <2>8. \A p \in c .. (c + k - 1) : <<r, p>> \in Writes
    <3>1. ASSUME NEW p \in c .. (c + k - 1) PROVE p \in 0 .. (MaxTokens[r] - 1)
      <4> HIDE DEF c, k
      <4> QED BY <2>2, <2>3, <2>5
    <3> QED BY <1>7, <3>1 DEF Writes
  <2>9. ASSUME NEW p \in 0 .. (c + k - 1) PROVE gpu'[Slot(table[r], p)] = <<r, p>>
    <3>1. p \in Nat /\ p < Room(r)
      <4> HIDE DEF c, k
      <4> QED BY <2>2, <2>3, <2>4
    <3>2. CASE p < c
      <4>1. p \in 0 .. (ncomp[r] - 1) /\ p \in 0 .. (c - 1)
        BY <2>2, <2>3, <3>1, <3>2
      <4>2. gpu[Slot(table[r], p)] = <<r, p>>
        BY <2>6, <4>1 DEF Filled
      <4> QED BY <1>5, <2>1, <4>1, <4>2
    <3>3. CASE ~(p < c)
      <4> DEFINE s == Slot(table[r], p)
                 x == CHOOSE x \in At(s) : TRUE
      <4>1. p \in c .. (c + k - 1)
        BY <2>2, <3>1, <3>3
      <4>2. <<r, p>> \in At(s)
        BY <2>8, <4>1
      <4>3. x \in At(s)
        BY <4>2
      <4>4. x = <<r, p>>
        BY <1>4, <3>1, <4>3
      <4>5. s \in DOMAIN gpu
        BY <2>4, <3>1, SlotFacts DEF TypeInv, VllmType, Room
      <4>6. gpu'[s] = IF Right(x[1]) THEN x ELSE Nothing
        BY <1>1, <4>2, <4>5
      <4> HIDE DEF x
      <4>7. x[1] = r
        BY <4>4
      <4> QED BY <2>7, <4>4, <4>6, <4>7
    <3> QED BY <3>2, <3>3
  <2>10. \A p \in 0 .. (ncomp'[r] - 1) : gpu'[Slot(table'[r], p)] = <<r, p>>
    <3>1. table' = table /\ ncomp'[r] = c + k
      BY <1>1, <2>3
    <3> DEFINE n == c + k
    <3>2. n \in Nat /\ table' = table /\ ncomp'[r] = n
      BY <2>2, <3>1
    <3>3. ASSUME NEW p \in 0 .. (n - 1) PROVE gpu'[Slot(table[r], p)] = <<r, p>>
      <4>1. p \in 0 .. (c + k - 1)
        BY <2>2
      <4> QED BY <2>9, <4>1
    <3> HIDE DEF n
    <3> QED BY <3>2, <3>3
  <2>11. Filled(r, ncomp[r])'
    BY <2>10 DEF Filled
  <2> QED BY <2>1, <2>11 DEF FillOf
<1> QED BY <1>6, <1>7

\* The report takes only loads that are over away, and only blocks of
\* requests that have finished.
LEMMA FillReport ==
  ASSUME TypeInv, StatusInv, ProgressInv, GetFinished, NEW q \in Requests, FillOf(q)
  PROVE  FillOf(q)'
<1>1. PICK Ends \in SUBSET Complete : Reports(Ends)
  BY ReportSteps
<1>2. status'[q] \in {"loading", "running"} =>
        status'[q] = status[q] /\ table'[q] = table[q] /\ trackers'[q] = trackers[q]
  BY <1>1 DEF Reports
<1>3. ncomp' = ncomp /\ gpu' = gpu /\ InFlight = {} /\ InFlight' = {}
  BY <1>1 DEF Reports, InFlight
<1>4. \A l \in loads : l \in loads' \/ l.at = "done"
  BY <1>1 DEF Reports
<1>5. loads' \subseteq loads
  BY <1>1 DEF Reports
<1>6. status'[q] = "loading" => (LoadOver(q)' <=> LoadOver(q))
  BY <1>2, <1>3, <1>4, <1>5 DEF LoadOver
<1> QED BY <1>2, <1>3, <1>6, FillStays
\* The slots a load thread writes are those of the tokens its RETRIEVE
\* promised behind the ones vLLM had cached, in the request's own table.
LEMMA ScatterSlots ==
  ASSUME TypeInv, StatusInv, TableInv, ProgressInv, NEW l \in loads, l.op.r \notin stray
  PROVE  LET q == l.op.r
             o == l.op
             skip == (o.skip \div block_size) * block_size
             Tokens == skip .. (Len(o.block_ids) * block_size - 1)
         IN  /\ q \in Requests /\ status[q] = "loading" /\ o.start \in Nat
             /\ \A p \in Tokens :
                  /\ p \in Nat /\ o.start + p \in Nat
                  /\ o.start + p >= trackers[q].vllm_hits /\ o.start + p < ncomp[q]
                  /\ Slot(o.block_ids, p) = Slot(table[q], o.start + p)
             /\ \A y \in trackers[q].vllm_hits .. (ncomp[q] - 1) : y - o.start \in Tokens
<1> DEFINE q == l.op.r
           o == l.op
           t == trackers[q]
           h == t.vllm_hits
           n == ncomp[q]
           cs == ChunkStart(t)
           a == cs \div block_size
           b == n \div block_size
           w == o.block_ids
<1>1. q \in Requests /\ q \in load_futures \ stray
  BY DEF StatusInv, OpStatus, TypeInv, ConnectorType
<1>2. status[q] = "loading"
  BY <1>1 DEF StatusInv, StatusOf
<1>3. /\ n \in Nat /\ Room(q) \in Nat /\ table[q] \in Seq(GpuBlocks)
      /\ t \in Tracker /\ h \in Nat /\ h < n
  BY <1>1, <1>2, FillRange
<1>4. /\ n = t.lmcache_hits /\ n % chunk_size = 0 /\ h % block_size = 0 /\ n <= Room(q)
  BY <1>1, <1>2 DEF ProgressInv, ProgressOf
<1>5. t.block_ids = table[q]
  BY <1>1, <1>2 DEF TableInv, TrackerTable
<1>6. o.start = cs /\ o.skip = h - cs /\ w = Sliced(table[q], a, b)
  <2>1. o = generate_retrieve_op(q, t)
    BY DEF TableInv, LoadOps
  <2> QED BY <1>4, <1>5, <2>1 DEF generate_retrieve_op, LoadStoreOp
<1>7. block_size \in Nat \ {0} /\ chunk_size \in Nat \ {0}
  BY ConnectorAssumption
<1>8. cs \in Nat /\ cs <= h /\ cs % chunk_size = 0
  <2> DEFINE d == h \div chunk_size
  <2>1. d \in Nat /\ h % chunk_size \in Nat /\ h = chunk_size * d + (h % chunk_size)
    BY <1>3, <1>7, DivFacts
  <2>2. cs = d * chunk_size
    BY DEF ChunkStart
  <2> HIDE DEF d, cs, h
  <2>3. cs \in Nat /\ cs <= h
    BY <1>3, <1>7, <2>1, <2>2
  <2> QED BY <1>7, <2>1, <2>2, <2>3, MultipleFacts
<1>9. cs % block_size = 0 /\ n % block_size = 0
  BY <1>3, <1>4, <1>8, ChunksAreBlocks
<1> HIDE DEF cs, h, n
<1>10. a \in Nat /\ b \in Nat /\ cs = block_size * a /\ n = block_size * b
  BY <1>3, <1>7, <1>8, <1>9, DivFacts
<1> HIDE DEF a, b
<1> DEFINE len == Len(table[q])
<1>11. len \in Nat /\ n <= len * block_size
  BY <1>3, <1>4 DEF Room
<1> HIDE DEF len
<1>12. a <= b /\ b <= len
  <2>1. a <= b
    <3>1. SUFFICES ASSUME b < a PROVE FALSE
      BY <1>10
    <3>2. block_size * b <= block_size * a
      BY <1>7, <1>10, <3>1
    <3> QED BY <1>3, <1>8, <1>10, <3>2
  <2>2. b <= len
    <3>1. SUFFICES ASSUME len < b PROVE FALSE
      BY <1>10, <1>11
    <3>2. len + 1 <= b
      BY <1>10, <1>11, <3>1
    <3>3. block_size * (len + 1) <= block_size * b
      BY <1>7, <1>10, <1>11, <3>2
    <3>4. block_size * (len + 1) = len * block_size + block_size
      BY <1>7, <1>11
    <3> QED BY <1>3, <1>7, <1>10, <1>11, <3>3, <3>4
  <2> QED BY <2>1, <2>2
<1>13. Len(w) = b - a
  <2>1. Len(Sliced(table[q], a, b)) = b - a
    BY <1>3, <1>10, <1>12, SlicedFacts DEF len
  <2> HIDE DEF w
  <2> QED BY <1>6, <2>1
<1>14. (b - a) * block_size = n - cs
  BY <1>7, <1>10
<1> DEFINE skip == (o.skip \div block_size) * block_size
<1>15. skip = h - cs
  <2> DEFINE i == h \div block_size
  <2>1. i \in Nat /\ h = block_size * i
    BY <1>3, <1>4, <1>7, DivFacts
  <2> HIDE DEF i
  <2>2. h - cs = (i - a) * block_size /\ i - a \in Int
    BY <1>7, <1>10, <2>1
  <2>3. i - a \in Nat
    <3>1. SUFFICES ASSUME i < a PROVE FALSE
      BY <1>10, <2>1
    <3>2. i + 1 <= a
      BY <1>10, <2>1, <3>1
    <3>3. block_size * (i + 1) <= block_size * a
      BY <1>7, <1>10, <2>1, <3>2
    <3>4. block_size * (i + 1) = block_size * i + block_size
      BY <1>7, <2>1
    <3> QED BY <1>3, <1>7, <1>8, <1>10, <2>1, <3>3, <3>4
  <2> DEFINE j == i - a
             e == h - cs
  <2>4. j \in Nat /\ e \in Nat /\ e = j * block_size
    BY <1>3, <1>8, <2>2, <2>3
  <2> HIDE DEF j, e
  <2>5. e \div block_size = j
    BY <1>7, <2>4, MultipleFacts
  <2> QED BY <1>6, <2>4, <2>5 DEF e
<1>16. Len(w) * block_size = n - cs
  BY <1>13, <1>14
<1> HIDE DEF w, skip
<1>17. ASSUME NEW p \in skip .. (Len(w) * block_size - 1)
       PROVE  /\ p \in Nat /\ cs + p \in Nat /\ cs + p >= h /\ cs + p < n
              /\ Slot(w, p) = Slot(table[q], cs + p)
  <2>1. p \in (h - cs) .. (n - cs - 1)
    BY <1>15, <1>16
  <2>2. p \in Nat /\ cs + p \in Nat /\ cs + p >= h /\ cs + p < n /\ p < n - cs
    BY <1>3, <1>8, <2>1
  <2>3. p < (b - a) * block_size
    BY <1>14, <2>2
  <2>4. Slot(Sliced(table[q], a, b), p) = Slot(table[q], a * block_size + p)
    <3>1. table[q] \in Seq(GpuBlocks) /\ a \in Nat /\ b \in Nat /\ a <= b /\ b <= Len(table[q])
      BY <1>3, <1>10, <1>12 DEF len
    <3> HIDE DEF q
    <3> QED BY <2>2, <2>3, <3>1, SlotSliced
  <2>5. a * block_size + p = cs + p
    BY <1>7, <1>10, <2>2
  <2> QED BY <1>6, <2>2, <2>4, <2>5
<1>18. ASSUME NEW y \in h .. (n - 1) PROVE y - cs \in skip .. (Len(w) * block_size - 1)
  <2>1. y - cs \in (h - cs) .. (n - cs - 1)
    BY <1>3, <1>8
  <2> QED BY <1>15, <1>16, <2>1
<1> HIDE DEF t
<1>19. o.start = cs /\ h = trackers[q].vllm_hits /\ n = ncomp[q]
  BY <1>6 DEF h, n, t
<1> QED BY <1>1, <1>2, <1>8, <1>17, <1>18, <1>19 DEF w, skip

\* A load thread that has an answer to wait for or to give.
LEMMA FillLoading ==
  ASSUME TypeInv, StatusInv, TableInv, ProgressInv, stray = {},
         NEW l \in loads, LoadReply(l) \/ LoadFails(l) \/ Scatter(l),
         NEW r \in Requests, r \notin failed', FillOf(r)
  PROVE  FillOf(r)'
<1>1. UNCHANGED <<vllmVars, trackers, phase, meta>>
  BY DEF LoadReply, LoadFails, Scatter
<1>2. InFlight' = InFlight
  BY <1>1 DEF InFlight
<1>3. PICK at \in {"scatter", "done"} :
        /\ loads' = (loads \ {l}) \cup {[l EXCEPT !.at = at]}
        /\ LoadReply(l) => at = "scatter"
  <2>1. CASE LoadReply(l)
    <3>1. loads' = (loads \ {l}) \cup {[l EXCEPT !.at = "scatter"]}
      BY <2>1 DEF LoadReply, Moves
    <3> QED BY <3>1
  <2>2. CASE ~LoadReply(l)
    <3>1. loads' = (loads \ {l}) \cup {[l EXCEPT !.at = "done"]}
      BY <2>2 DEF LoadFails, Scatter, Moves
    <3> QED BY <2>2, <3>1
  <2> QED BY <2>1, <2>2
<1>4. l \in Load
  BY DEF TypeInv, ConnectorType
<1> DEFINE m == [l EXCEPT !.at = at]
<1>5. m.op = l.op /\ m.at = at
  BY <1>4 DEF Load
<1> HIDE DEF m
<1>6. loads' = (loads \ {l}) \cup {m}
  BY <1>3 DEF m
<1>7. l.op.r # r => (LoadOver(r)' <=> LoadOver(r))
  BY <1>1, <1>2, <1>5, <1>6 DEF LoadOver
<1>8. CASE LoadReply(l)
  <2>1. gpu' = gpu /\ l.at # "done" /\ m.at # "done"
    <3>1. l.at = "reply" /\ gpu' = gpu
      BY <1>8 DEF LoadReply
    <3>2. m.at = "scatter"
      BY <1>3, <1>5, <1>8
    <3> QED BY <3>1, <3>2
  <2>2. LoadOver(r)' <=> LoadOver(r)
    <3>1. l.op.r = r => ~LoadOver(r) /\ ~LoadOver(r)'
      BY <1>5, <1>6, <2>1 DEF LoadOver
    <3> QED BY <1>7, <3>1
  <2> QED BY <1>1, <2>1, <2>2, FillStays DEF vllmVars
<1>9. CASE LoadFails(l)
  <2>1. gpu' = gpu /\ l.op.r # r
    BY <1>9 DEF LoadFails
  <2> QED BY <1>1, <1>7, <2>1, FillStays DEF vllmVars
<1>10. CASE Scatter(l)
  <2> DEFINE q == l.op.r
             o == l.op
             skip == (o.skip \div block_size) * block_size
             Tokens == skip .. (Len(o.block_ids) * block_size - 1)
  <2>1. gpu' = [s \in DOMAIN gpu |->
           IF \E p \in Tokens : s = Slot(o.block_ids, p)
           THEN <<o.r, o.start + CHOOSE p \in Tokens : s = Slot(o.block_ids, p)>>
           ELSE gpu[s]]
    BY <1>10 DEF Scatter
  <2>2. /\ q \in Requests /\ status[q] = "loading" /\ o.start \in Nat
        /\ \A p \in Tokens :
             /\ p \in Nat /\ o.start + p \in Nat
             /\ o.start + p >= trackers[q].vllm_hits /\ o.start + p < ncomp[q]
             /\ Slot(o.block_ids, p) = Slot(table[q], o.start + p)
        /\ \A y \in trackers[q].vllm_hits .. (ncomp[q] - 1) : y - o.start \in Tokens
    BY ScatterSlots
  <2> HIDE DEF Tokens
  <2>3. /\ ncomp[q] \in Nat /\ Room(q) \in Nat /\ table[q] \in Seq(GpuBlocks)
        /\ trackers[q].vllm_hits \in Nat /\ trackers[q].vllm_hits < ncomp[q]
        /\ \A p \in 0 .. (ncomp[q] - 1) : p \in Nat /\ p < Room(q)
    BY <2>2, FillRange
  <2>4. ASSUME NEW p \in Tokens
        PROVE  o.start + p \in Nat /\ o.start + p < Room(q)
    <3>1. o.start + p \in 0 .. (ncomp[q] - 1)
      BY <2>2, <2>3
    <3> QED BY <2>2, <2>3, <3>1
  <2>5. ASSUME NEW p \in 0 .. (ncomp[r] - 1), status[r] \in {"running", "loading"},
               \A y \in Tokens : ~(r = q /\ p = o.start + y)
        PROVE  gpu'[Slot(table[r], p)] = gpu[Slot(table[r], p)]
    <3>1. p \in Nat /\ p < Room(r) /\ table[r] \in Seq(GpuBlocks)
      BY <2>5, FillRange
    <3>2. Slot(table[r], p) \in DOMAIN gpu
      BY <3>1, SlotFacts DEF TypeInv, VllmType, Room
    <3>3. ASSUME NEW y \in Tokens, Slot(table[r], p) = Slot(o.block_ids, y) PROVE FALSE
      <4>1. Slot(table[r], p) = Slot(table[q], o.start + y)
        BY <2>2, <3>3
      <4>2. r = q /\ p = o.start + y
        BY <2>2, <2>4, <3>1, <4>1, SlotInjective DEF TableInv
      <4> QED BY <2>5, <4>2
    <3> QED BY <2>1, <3>2, <3>3
  <2>6. CASE r # q
    <3>1. status[r] \in {"running", "loading"} => \A p \in 0 .. (ncomp[r] - 1) :
             gpu'[Slot(table[r], p)] = gpu[Slot(table[r], p)]
      BY <2>5, <2>6
    <3> QED BY <1>1, <1>7, <2>6, <3>1, FillStays DEF vllmVars
  <2>7. CASE r = q
    <3> DEFINE h == trackers[r].vllm_hits
               n == ncomp[r]
    <3>1. h \in Nat /\ n \in Nat /\ h < n
      BY <2>3, <2>7
    <3>2. Filled(r, h)
      <4>1. \A p \in 0 .. (h - 1) : p \in 0 .. (n - 1)
        BY <3>1
      <4> QED BY <2>2, <2>7, <4>1 DEF FillOf, Filled
    <3>3. ASSUME NEW p \in 0 .. (n - 1) PROVE gpu'[Slot(table[r], p)] = <<r, p>>
      <4>1. CASE p < h
        <5>1. p \in 0 .. (h - 1)
          BY <3>1, <4>1
        <5>2. \A y \in Tokens : p # o.start + y
          <6>1. \A y \in Tokens : o.start + y \in Nat /\ o.start + y >= h
            BY <2>2, <2>7
          <6> HIDE DEF h, n
          <6> QED BY <3>1, <4>1, <5>1, <6>1
        <5>3. gpu[Slot(table[r], p)] = <<r, p>>
          BY <3>2, <5>1 DEF Filled
        <5> QED BY <2>2, <2>5, <2>7, <5>2, <5>3
      <4>2. CASE ~(p < h)
        <5> DEFINE s == Slot(table[r], p)
                   P(y) == y \in Tokens /\ s = Slot(o.block_ids, y)
                   c == CHOOSE y \in Tokens : s = Slot(o.block_ids, y)
        <5>1. p \in h .. (n - 1) /\ p \in Nat
          BY <3>1, <4>2
        <5>2. p - o.start \in Tokens
          BY <2>2, <2>7, <5>1
        <5>3. o.start + (p - o.start) = p
          BY <2>2, <5>1
        <5>4. s = Slot(o.block_ids, p - o.start)
          BY <2>2, <2>7, <5>2, <5>3
        <5>5. c \in Tokens /\ s = Slot(o.block_ids, c)
          BY <5>2, <5>4
        <5>6. p < Room(r) /\ table[r] \in Seq(GpuBlocks)
          BY <2>3, <2>7
        <5>7. s \in DOMAIN gpu
          BY <5>1, <5>6, SlotFacts DEF TypeInv, VllmType, Room
        <5>8. gpu'[s] = <<o.r, o.start + c>>
          BY <2>1, <5>2, <5>4, <5>7
        <5> HIDE DEF c
        <5>9. s = Slot(table[q], o.start + c)
          BY <2>2, <5>5
        <5>10. o.start + c = p
          BY <2>2, <2>4, <2>7, <5>1, <5>5, <5>6, <5>9, SlotInjective DEF TableInv
        <5> QED BY <2>7, <5>8, <5>10
      <4> QED BY <4>1, <4>2
    <3>4. Filled(r, n)' /\ Filled(r, h)'
      <4>1. n' = n /\ h' = h /\ table' = table
        BY <1>1 DEF vllmVars
      <4>2. \A p \in 0 .. (h - 1) : p \in 0 .. (n - 1)
        BY <3>1
      <4> HIDE DEF n, h
      <4> QED BY <3>3, <4>1, <4>2 DEF Filled
    <3>5. status'[r] = "loading"
      BY <1>1, <2>2, <2>7 DEF vllmVars
    <3> QED BY <3>4, <3>5 DEF FillOf
  <2> QED BY <2>6, <2>7
<1> QED BY <1>8, <1>9, <1>10

\* So every step keeps FillInv.
LEMMA FillStep ==
  ASSUME TypeInv, StatusInv, TableInv, ProgressInv, FillInv, [Next]_vars
  PROVE  FillInv'
<1>1. Step \/ UNCHANGED vars
  BY NextSteps
<1>2. stray \subseteq stray' /\ failed \subseteq failed'
  BY <1>1, ExemptStay
<1>3. SUFFICES ASSUME stray' = {}, NEW r \in Requests, r \notin failed' PROVE FillOf(r)'
  BY DEF FillInv
<1>4. stray = {} /\ FillOf(r)
  BY <1>2, <1>3 DEF FillInv
<1>5. CASE UNCHANGED vars
  <2>1. UNCHANGED <<vllmVars, trackers, gpu, loads>> /\ InFlight' = InFlight
    BY <1>5 DEF vars, workerVars, InFlight
  <2>2. LoadOver(r)' <=> LoadOver(r)
    BY <2>1, LoadOverStays
  <2> QED BY <1>4, <2>1, <2>2, FillStays DEF vllmVars
<1>6. CASE Step
  BY <1>3, <1>4, <1>6, FillScheduling, FillHandOver, FillForward, FillReport, FillLoading
     DEF Step
<1> QED BY <1>1, <1>5, <1>6

\* What vLLM counts as computed is there: in the request's own blocks, at
\* the right place, computed, cached or loaded (ComputedIsFilled).
THEOREM ComputedStaysFilled == Spec => []ComputedIsFilled
<1> DEFINE I == TypeInv /\ StatusInv /\ TableInv /\ ProgressInv /\ FillInv
<1>1. Init => I
  BY TypeInit, StatusInit, TableInit, ProgressInit, FillInit
<1>2. I /\ [Next]_vars => I'
  BY TypeStep, StatusStep, TableStep, ProgressStep, FillStep
<1>3. I => ComputedIsFilled
  BY DEF FillInv, FillOf, Filled, ComputedIsFilled
<1> QED BY <1>1, <1>2, <1>3, PTL DEF Spec

-----------------------------------------------------------------------------

(***************************************************************************)
(* StoresOwnBytes.                                                         *)
(***************************************************************************)

\* What to_host copies for a STORE that is due after the forward pass.
LEMMA DueBytes ==
  ASSUME TypeInv, StatusInv, ProgressInv, phase = "save",
         NEW o \in meta.store, FillOf(o.r)
  PROVE  BytesOf(o) = [p \in 1 .. (o.end - o.start) |-> <<o.r, o.start + p - 1>>]
<1> DEFINE r == o.r
           a == o.start \div block_size
           b == o.end \div block_size
           t == table[r]
           w == Sliced(t, a, b)
<1>1. o \in Due
  BY DEF Due
<1>2. /\ r \in Requests /\ o.start \in Nat /\ o.end \in Nat /\ t \in Seq(GpuBlocks)
      /\ ncomp[r] \in Nat
  BY DEF TypeInv, ConnectorType, VllmType, Operation
<1>3. status[r] = "running" /\ sched[r] # Idle
  BY <1>1 DEF StatusInv, OpStatus
<1>4. /\ o.start % chunk_size = 0 /\ o.end % chunk_size = 0 /\ o.start < o.end
      /\ o.block_ids = w /\ o.end <= Room(r)
      /\ o.end <= sched[r].computed + sched[r].k
  BY <1>1 DEF ProgressInv, StoreOps
<1>5. ncomp[r] = sched[r].computed + sched[r].k
  BY <1>2, <1>3 DEF ProgressInv, ProgressOf
<1>6. \A p \in 0 .. (ncomp[r] - 1) : gpu[Slot(t, p)] = <<r, p>>
  BY <1>3 DEF FillOf, Filled
<1>7. block_size \in Nat \ {0}
  BY ConnectorAssumption
<1>8. o.start % block_size = 0 /\ o.end % block_size = 0
  BY <1>2, <1>4, ChunksAreBlocks
<1> DEFINE s == o.start
           e == o.end
           len == Len(t)
           n == ncomp[r]
<1>9. s \in Nat /\ e \in Nat /\ n \in Nat /\ len \in Nat /\ s < e /\ e <= n
      /\ e <= len * block_size
  BY <1>2, <1>4, <1>5 DEF Room
<1>10. a \in Nat /\ b \in Nat /\ s = block_size * a /\ e = block_size * b
  <2>1. a = s \div block_size /\ b = e \div block_size
    OBVIOUS
  <2>2. s % block_size = 0 /\ e % block_size = 0
    BY <1>8
  <2> HIDE DEF a, b, s, e
  <2> QED BY <1>7, <1>9, <2>1, <2>2, DivFacts
<1> HIDE DEF a, b, s, e, len, n
<1>11. a <= b
  <2>1. SUFFICES ASSUME b < a PROVE FALSE
    BY <1>10
  <2>2. block_size * b <= block_size * a
    BY <1>7, <1>10, <2>1
  <2> QED BY <1>9, <1>10, <2>2
<1>12. b <= len
  <2>1. SUFFICES ASSUME len < b PROVE FALSE
    BY <1>9, <1>10
  <2>2. len + 1 <= b
    BY <1>9, <1>10, <2>1
  <2>3. block_size * (len + 1) <= block_size * b
    BY <1>7, <1>9, <1>10, <2>2
  <2>4. block_size * (len + 1) = len * block_size + block_size
    BY <1>7, <1>9
  <2> QED BY <1>7, <1>9, <1>10, <2>3, <2>4
<1> HIDE DEF t
<1>13. Len(w) = b - a
  BY <1>2, <1>10, <1>11, <1>12, SlicedFacts DEF len
<1>14. (b - a) * block_size = e - s
  BY <1>7, <1>10
<1> HIDE DEF w
<1>15. Len(o.block_ids) * block_size = e - s
  BY <1>4, <1>13, <1>14
<1>16. ASSUME NEW p \in 1 .. (e - s)
       PROVE  gpu[Slot(o.block_ids, p - 1)] = <<r, s + p - 1>>
  <2>1. /\ p - 1 \in Nat /\ p - 1 < (b - a) * block_size
        /\ s + p - 1 \in 0 .. (n - 1) /\ s + p - 1 = a * block_size + (p - 1)
    BY <1>7, <1>9, <1>10, <1>14
  <2>2. Slot(w, p - 1) = Slot(t, a * block_size + (p - 1))
    BY <1>2, <1>10, <1>11, <1>12, <2>1, SlotSliced DEF len, w
  <2>3. gpu[Slot(t, s + p - 1)] = <<r, s + p - 1>>
    BY <1>6, <2>1 DEF n
  <2> QED BY <1>4, <2>1, <2>2, <2>3
<1> HIDE DEF r
<1> QED BY <1>15, <1>16 DEF BytesOf, s, e, r

\* Only wait_for_save submits a STORE.
LEMMA SentStays ==
  ASSUME Step \/ UNCHANGED vars, ~WaitForSave
  PROVE  sent' = sent
<1>1. ASSUME NEW r \in Requests, RequestStep(r) PROVE sent' = sent
  BY <1>1 DEF RequestStep, Arrive, Waits, Allocates, Allocation, Continues,
     Continuation, Decodes, Decoding, Preempt, Abort, StoreReply, workerVars
<1>2. Builds \/ StartLoad \/ Forward \/ GetFinished => sent' = sent
  BY DEF Builds, StartLoad, Forward, GetFinished, workerVars
<1>3. ASSUME NEW l \in loads, LoadReply(l) \/ LoadFails(l) \/ Scatter(l)
      PROVE  sent' = sent
  BY <1>3 DEF LoadReply, LoadFails, Scatter
<1>4. UNCHANGED vars => sent' = sent
  BY DEF vars, workerVars
<1> QED BY <1>1, <1>2, <1>3, <1>4 DEF Step

\* So every step keeps StoresOwnBytes.
LEMMA BytesStep ==
  ASSUME TypeInv, StatusInv, ProgressInv, FillInv, StoresOwnBytes, [Next]_vars
  PROVE  StoresOwnBytes'
<1> DEFINE Good(r, x) == /\ x.start % chunk_size = 0 /\ x.end % chunk_size = 0
                         /\ x.bytes = [p \in 1 .. (x.end - x.start) |-> <<r, x.start + p - 1>>]
<1>1. Step \/ UNCHANGED vars
  BY NextSteps
<1>2. stray \subseteq stray' /\ failed \subseteq failed'
  BY <1>1, ExemptStay
<1>3. SUFFICES ASSUME stray' = {}, NEW r \in Requests \ failed', NEW n \in 1 .. Len(sent'[r])
               PROVE  Good(r, sent'[r][n])
  BY Zenon DEF StoresOwnBytes
<1>4. stray = {} /\ r \in Requests \ failed
  BY <1>2, <1>3
<1>5. \A m \in 1 .. Len(sent[r]) : Good(r, sent[r][m])
  BY <1>4 DEF StoresOwnBytes
<1>6. CASE ~WaitForSave
  BY <1>1, <1>5, <1>6, SentStays
<1>7. CASE WaitForSave
  <2> DEFINE Saves == {o \in meta.store : o.r = r}
  <2>1. sent'[r] = IF Saves = {} THEN sent[r]
         ELSE LET o == CHOOSE o \in Saves : TRUE
              IN  Append(sent[r], [start |-> o.start, end |-> o.end, bytes |-> BytesOf(o)])
    BY <1>4, <1>7 DEF WaitForSave
  <2>2. CASE Saves = {}
    BY <1>5, <2>1, <2>2
  <2>3. CASE Saves # {}
    <3> DEFINE o == CHOOSE o \in Saves : TRUE
               e == [start |-> o.start, end |-> o.end, bytes |-> BytesOf(o)]
               s == sent[r]
    <3>1. o \in Saves
      BY <2>3
    <3>2. sent'[r] = Append(s, e)
      BY <2>1, <2>3
    <3> HIDE DEF o
    <3>3. o \in meta.store /\ o.r = r /\ phase = "save"
      BY <1>7, <3>1 DEF WaitForSave
    <3>4. FillOf(r)
      BY <1>4 DEF FillInv
    <3>5. BytesOf(o) = [p \in 1 .. (o.end - o.start) |-> <<r, o.start + p - 1>>]
      BY <3>3, <3>4, DueBytes
    <3>6. o \in Due
      BY <3>3 DEF Due
    <3>7. o.start % chunk_size = 0 /\ o.end % chunk_size = 0
      BY <3>6 DEF ProgressInv, StoreOps
    <3>8. Good(r, e)
      BY <3>5, <3>7
    <3>9. IsSeq(s)
      BY <1>4 DEF TypeInv, ConnectorType
    <3> HIDE DEF e, s
    <3>10. /\ Len(s) \in Nat /\ Len(Append(s, e)) = Len(s) + 1
           /\ \A m \in 1 .. Len(s) : Append(s, e)[m] = s[m]
           /\ Append(s, e)[Len(s) + 1] = e
      BY <3>9, AppendFacts
    <3>11. n \in 1 .. Len(s) \/ n = Len(s) + 1
      BY <3>2, <3>10
    <3>12. \A m \in 1 .. Len(s) : Good(r, s[m])
      BY <1>5 DEF s
    <3> HIDE DEF Good
    <3> QED BY <3>2, <3>8, <3>10, <3>11, <3>12
  <2> QED BY <2>2, <2>3
<1> QED BY <1>6, <1>7

\* A STORE sends whole chunks, and for every token of them the KV that its
\* keys stand for: read through the request's own table after the forward
\* pass that wrote it (StoresOwnBytes).
THEOREM StoresSendOwnBytes == Spec => []StoresOwnBytes
<1> DEFINE I == TypeInv /\ StatusInv /\ TableInv /\ ProgressInv /\ FillInv /\ StoresOwnBytes
<1>1. Init => StoresOwnBytes
  <2>1. Init => \A r \in Requests : sent[r] = <<>> /\ 1 .. Len(sent[r]) = {}
    BY DEF Init
  <2> QED BY <2>1 DEF StoresOwnBytes
<1>2. Init => I
  BY <1>1, TypeInit, StatusInit, TableInit, ProgressInit, FillInit
<1>3. I /\ [Next]_vars => I'
  BY TypeStep, StatusStep, TableStep, ProgressStep, FillStep, BytesStep
<1> QED BY <1>2, <1>3, PTL DEF Spec

=============================================================================
