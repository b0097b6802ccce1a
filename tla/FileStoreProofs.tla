--------------------------- MODULE FileStoreProofs --------------------------
(***************************************************************************)
(* Proofs about ChunkKeys and FileStore, for any engines, prompts, chunk   *)
(* size, number of pages and number of restarts.                           *)
(*                                                                         *)
(* Shape, TaskInv, Known and LoadedIsWhole together are inductive: what    *)
(* the worker does depends on where it is in its task.  Own says whose     *)
(* chunk it is that an entry of L1, a file or a loaded slice holds: one    *)
(* that an engine has stored, in the slice of an engine whose model has    *)
(* the same file name.                                                     *)
(***************************************************************************)
EXTENDS FileStore, SequenceTheorems, FiniteSetTheorems, WellFoundedInduction, TLAPS

(***************************************************************************)
(* ChunkKeys: a hash of the chain of hasher.py identifies the whole token  *)
(* prefix it stands for.  Induction is by a least counterexample: the set  *)
(* of the numbers a claim fails for is a plain set, and LeastNat gives its *)
(* least element.                                                          *)
(***************************************************************************)

\* A set of numbers that is not empty has a least one.
LEMMA LeastNat ==
  ASSUME NEW T, T \subseteq Nat, T # {}
  PROVE  \E x \in T : \A y \in T : ~(y < x)
<1>1. IsWellFoundedOn(OpToRel(<, Nat), Nat)
  BY NatLessThanWellFounded
<1>2. PICK x \in T : \A y \in T : ~(<<y, x>> \in OpToRel(<, Nat))
  BY <1>1, WFMin
<1>3. \A y \in T : <<y, x>> \in OpToRel(<, Nat) <=> y < x
  BY DEF OpToRel
<1> QED BY <1>2, <1>3

\* g holds the hashes of the first n chunks of p, behind the seed.
IsChain(g, p, n) ==
  g = [i \in 0 .. n |->
         IF i = 0 THEN NONE_HASH ELSE hash_one(g[i - 1], ChunkTokens(p, i))]

\* The recursion of the hash chain has a solution.
LEMMA ChainExists ==
  ASSUME NEW p, NEW N \in Nat
  PROVE  \E g : IsChain(g, p, N)
<1> DEFINE T == {n \in Nat : ~ \E g : IsChain(g, p, n)}
<1> SUFFICES ASSUME T # {} PROVE FALSE
  OBVIOUS
<1>1. PICK n \in T : \A y \in T : ~(y < n)
  BY LeastNat
<1>2. n \in Nat /\ ~ \E g : IsChain(g, p, n)
  BY <1>1
<1>3. CASE n = 0
  <2> DEFINE g == [i \in 0 .. 0 |-> NONE_HASH]
  <2>1. g = [i \in 0 .. 0 |-> IF i = 0 THEN NONE_HASH ELSE hash_one(g[i - 1], ChunkTokens(p, i))]
    OBVIOUS
  <2>2. IsChain(g, p, 0)
    BY <2>1 DEF IsChain
  <2> QED BY <1>2, <1>3, <2>2
<1>4. CASE n # 0
  <2>1. n - 1 \in Nat /\ n - 1 < n
    BY <1>2, <1>4
  <2>2. PICK g : IsChain(g, p, n - 1)
    BY <1>1, <2>1
  <2> DEFINE f == [i \in 0 .. n |-> IF i = n THEN hash_one(g[n - 1], ChunkTokens(p, n)) ELSE g[i]]
  <2>3. \A i \in 0 .. (n - 1) :
          g[i] = IF i = 0 THEN NONE_HASH ELSE hash_one(g[i - 1], ChunkTokens(p, i))
    BY <2>2 DEF IsChain
  <2>4. \A i \in 0 .. n :
          f[i] = IF i = 0 THEN NONE_HASH ELSE hash_one(f[i - 1], ChunkTokens(p, i))
    <3> TAKE i \in 0 .. n
    <3>1. CASE i = n
      BY <1>2, <1>4, <3>1
    <3>2. CASE i # n
      <4>1. i \in 0 .. (n - 1) /\ f[i] = g[i] /\ (i # 0 => f[i - 1] = g[i - 1])
        BY <1>2, <1>4, <3>2
      <4> QED BY <2>3, <4>1
    <3> QED BY <3>1, <3>2
  <2>5. f = [i \in 0 .. n |-> f[i]]
    OBVIOUS
  <2> HIDE DEF f
  <2>6. f = [i \in 0 .. n |-> IF i = 0 THEN NONE_HASH ELSE hash_one(f[i - 1], ChunkTokens(p, i))]
    BY <2>4, <2>5
  <2>7. IsChain(f, p, n)
    BY <2>6 DEF IsChain
  <2> QED BY <1>2, <2>7
<1> QED BY <1>3, <1>4

\* chunk_hashes is the chain without its seed.
LEMMA HashesAreAChain ==
  ASSUME NEW p, NumChunks(p) \in Nat
  PROVE  \E g : /\ IsChain(g, p, NumChunks(p))
                /\ chunk_hashes(p) = [i \in 1 .. NumChunks(p) |-> g[i]]
<1> DEFINE N == NumChunks(p)
           h == CHOOSE h : h = [i \in 0 .. N |->
                  IF i = 0 THEN NONE_HASH ELSE hash_one(h[i - 1], ChunkTokens(p, i))]
<1>1. \E g : g = [i \in 0 .. N |->
                    IF i = 0 THEN NONE_HASH ELSE hash_one(g[i - 1], ChunkTokens(p, i))]
  BY ChainExists DEF IsChain
<1>2. h = [i \in 0 .. N |->
             IF i = 0 THEN NONE_HASH ELSE hash_one(h[i - 1], ChunkTokens(p, i))]
  BY <1>1
<1>3. chunk_hashes(p) = [i \in 1 .. N |-> h[i]]
  BY DEF chunk_hashes
<1> HIDE DEF h
<1> QED BY <1>2, <1>3 DEF IsChain

\* The first k chunks of p and the first l chunks of q are the same.
SameChunks(p, q, k, l) ==
  k = l /\ \A t \in 1 .. k : ChunkTokens(p, t) = ChunkTokens(q, t)

\* Two chains meet only at the same length and over the same chunks.
LEMMA ChainsAreInjective ==
  ASSUME NEW p, NEW q, NEW n \in Nat, NEW m \in Nat, NEW g, NEW h,
         IsChain(g, p, n), IsChain(h, q, m),
         NEW i \in 0 .. n, NEW j \in 0 .. m, g[i] = h[j]
  PROVE  SameChunks(p, q, i, j)
<1> DEFINE Same(k, l) == k = l /\ \A t \in 1 .. k : ChunkTokens(p, t) = ChunkTokens(q, t)
           T == {k \in 0 .. n : \E l \in 0 .. m : g[k] = h[l] /\ ~Same(k, l)}
<1> SUFFICES ASSUME T # {} PROVE FALSE
  BY DEF SameChunks
<1>1. T \subseteq Nat
  OBVIOUS
<1>2. PICK k \in T : \A y \in T : ~(y < k)
  BY <1>1, LeastNat
<1>3. PICK l \in 0 .. m : g[k] = h[l] /\ ~Same(k, l)
  BY <1>2
<1>4. k \in 0 .. n
  BY <1>2
<1>5. /\ \A x \in 0 .. n : g[x] = IF x = 0 THEN NONE_HASH ELSE hash_one(g[x - 1], ChunkTokens(p, x))
      /\ \A x \in 0 .. m : h[x] = IF x = 0 THEN NONE_HASH ELSE hash_one(h[x - 1], ChunkTokens(q, x))
  BY DEF IsChain
<1>6. k = 0 <=> l = 0
  <2>1. \A a, b : NONE_HASH # hash_one(a, b)
    BY DEF NONE_HASH, hash_one
  <2> QED BY <1>3, <1>4, <1>5, <2>1
<1>7. CASE k = 0
  BY <1>3, <1>6, <1>7
<1>8. CASE k # 0
  <2>1. k - 1 \in 0 .. n /\ l - 1 \in 0 .. m /\ k - 1 < k
    BY <1>3, <1>4, <1>6, <1>8
  <2>2. g[k - 1] = h[l - 1] /\ ChunkTokens(p, k) = ChunkTokens(q, l)
    <3>1. hash_one(g[k - 1], ChunkTokens(p, k)) = hash_one(h[l - 1], ChunkTokens(q, l))
      BY <1>3, <1>4, <1>5, <1>6, <1>8
    <3>2. \A a, b, c, d : hash_one(a, b) = hash_one(c, d) => a = c /\ b = d
      BY DEF hash_one
    <3> QED BY <3>1, <3>2
  <2>3. Same(k - 1, l - 1)
    BY <1>2, <2>1, <2>2
  <2>4. k = l
    BY <1>3, <1>4, <2>3
  <2>5. ASSUME NEW t \in 1 .. k PROVE ChunkTokens(p, t) = ChunkTokens(q, t)
    BY <1>4, <2>2, <2>3, <2>4
  <2> QED BY <1>3, <2>4, <2>5
<1> QED BY <1>7, <1>8

\* A chunk ends before the tokens do.
LEMMA ChunksFit ==
  ASSUME NEW L \in Nat, NEW i \in Nat, i <= L \div chunk_size
  PROVE  /\ L \div chunk_size \in Nat
         /\ i * chunk_size \in Nat /\ i * chunk_size <= L
         /\ i # 0 => (i - 1) * chunk_size \in Nat /\ (i - 1) * chunk_size + chunk_size = i * chunk_size
<1> DEFINE c == chunk_size
           d == L \div c
<1>1. c \in Nat /\ c > 0
  BY KeysAssumption
<1>2. d \in Nat /\ d * c <= L
  BY <1>1
<1>3. i * c \in Nat /\ (d - i) \in Nat /\ (d - i) * c \in Nat
  BY <1>1, <1>2
<1>4. (d - i) * c = d * c - i * c
  BY <1>1, <1>2
<1>5. i * c <= L
  <2>1. PICK x \in Nat, y \in Nat, z \in Nat : x = i * c /\ y = d * c /\ z = (d - i) * c
    BY <1>1, <1>2, <1>3
  <2>2. z = y - x /\ y <= L
    BY <1>2, <1>4, <2>1
  <2>3. x <= L
    BY <2>1, <2>2
  <2> QED BY <2>1, <2>3
<1>6. i # 0 => (i - 1) * c \in Nat /\ (i - 1) * c + c = i * c
  BY <1>1
<1> QED BY <1>2, <1>3, <1>5, <1>6

\* A prefix is the prefix before it and the last chunk.
LEMMA PrefixSplits ==
  ASSUME NEW S, NEW p \in Seq(S), NEW i \in 1 .. NumChunks(p)
  PROVE  Prefix(p, i) = Prefix(p, i - 1) \o ChunkTokens(p, i)
<1> DEFINE a == (i - 1) * chunk_size
           b == i * chunk_size
<1>1. a \in Nat /\ b \in Nat /\ a <= b /\ b <= Len(p) /\ Len(p) \in Nat
  BY ChunksFit, KeysAssumption, LenProperties DEF NumChunks
<1> HIDE DEF a, b
<1>2. SubSeq(p, 1, b) = SubSeq(p, 1, a) \o SubSeq(p, a + 1, b)
  <2> DEFINE u == SubSeq(p, 1, a)
             v == SubSeq(p, a + 1, b)
             w == SubSeq(p, 1, b)
  <2>1. /\ u \in Seq(S) /\ Len(u) = a
        /\ \A x \in 1 .. a : u[x] = p[x]
    BY <1>1
  <2>2. /\ v \in Seq(S) /\ Len(v) = b - a
        /\ \A x \in 1 .. (b - a) : v[x] = p[a + x]
    BY <1>1
  <2>3. /\ w \in Seq(S) /\ Len(w) = b
        /\ \A x \in 1 .. b : w[x] = p[x]
    BY <1>1
  <2> HIDE DEF u, v, w
  <2>4. /\ u \o v \in Seq(S) /\ Len(u \o v) = b
        /\ \A x \in 1 .. b : (u \o v)[x] = IF x <= a THEN u[x] ELSE v[x - a]
    <3>1. /\ u \o v \in Seq(S) /\ Len(u \o v) = Len(u) + Len(v)
          /\ \A x \in 1 .. (Len(u) + Len(v)) :
                (u \o v)[x] = IF x <= Len(u) THEN u[x] ELSE v[x - Len(u)]
      BY <2>1, <2>2, ConcatProperties
    <3>2. Len(u) + Len(v) = b
      BY <1>1, <2>1, <2>2
    <3> QED BY <2>1, <3>1, <3>2
  <2>5. \A x \in 1 .. b : (u \o v)[x] = w[x]
    <3> TAKE x \in 1 .. b
    <3>1. CASE x <= a
      BY <1>1, <2>1, <2>3, <2>4, <3>1
    <3>2. CASE ~(x <= a)
      <4>1. x - a \in 1 .. (b - a) /\ a + (x - a) = x
        BY <1>1, <3>2
      <4>2. v[x - a] = p[x]
        BY <2>2, <4>1
      <4> QED BY <2>3, <2>4, <3>2, <4>2
    <3> QED BY <3>1, <3>2
  <2>6. w = u \o v
    BY <2>3, <2>4, <2>5, SeqEqual
  <2> QED BY <2>6 DEF u, v, w
<1> QED BY <1>2 DEF a, b, Prefix, ChunkTokens

\* The same chunks make the same prefix.
LEMMA SamePrefix ==
  ASSUME NEW S, NEW p \in Seq(S), NEW q \in Seq(S), NEW n \in Nat,
         n <= NumChunks(p), n <= NumChunks(q),
         \A t \in 1 .. n : ChunkTokens(p, t) = ChunkTokens(q, t)
  PROVE  Prefix(p, n) = Prefix(q, n)
<1> DEFINE T == {k \in 0 .. n : Prefix(p, k) # Prefix(q, k)}
<1> SUFFICES ASSUME T # {} PROVE FALSE
  OBVIOUS
<1>1. T \subseteq Nat
  OBVIOUS
<1>2. PICK k \in T : \A y \in T : ~(y < k)
  BY <1>1, LeastNat
<1>3. k \in 0 .. n /\ Prefix(p, k) # Prefix(q, k)
  BY <1>2
<1>4. CASE k = 0
  <2>1. k * chunk_size = 0
    BY <1>4, KeysAssumption
  <2> QED BY <1>3, <2>1 DEF Prefix
<1>5. CASE k # 0
  <2>1. k - 1 \in 0 .. n /\ k - 1 < k /\ k \in 1 .. n
    BY <1>3, <1>5
  <2>2. Prefix(p, k - 1) = Prefix(q, k - 1)
    BY <1>2, <2>1
  <2>3. k \in 1 .. NumChunks(p) /\ k \in 1 .. NumChunks(q)
    BY <2>1, ChunksFit, LenProperties DEF NumChunks
  <2>4. ChunkTokens(p, k) = ChunkTokens(q, k)
    BY <2>1
  <2> QED BY <1>3, <2>2, <2>3, <2>4, PrefixSplits
<1> QED BY <1>4, <1>5

\* Equal hashes stand for equal token prefixes: a chunk of a prompt is never
\* taken for that of another prompt, nor for another chunk of its own prompt
\* (chunk_hashes chains each chunk to the hash before it).
THEOREM HashesIdentifyPrefixes ==
  ASSUME NEW S, NEW p \in Seq(S), NEW q \in Seq(S),
         NEW i \in DOMAIN chunk_hashes(p), NEW j \in DOMAIN chunk_hashes(q),
         chunk_hashes(p)[i] = chunk_hashes(q)[j]
  PROVE  i = j /\ Prefix(p, i) = Prefix(q, j)
<1>1. NumChunks(p) \in Nat /\ NumChunks(q) \in Nat
  <2>1. Len(p) \in Nat /\ Len(q) \in Nat /\ chunk_size \in Nat /\ chunk_size > 0
    BY LenProperties, KeysAssumption
  <2> QED BY <2>1 DEF NumChunks
<1>2. PICK g : IsChain(g, p, NumChunks(p)) /\ chunk_hashes(p) = [k \in 1 .. NumChunks(p) |-> g[k]]
  BY <1>1, HashesAreAChain
<1>3. PICK h : IsChain(h, q, NumChunks(q)) /\ chunk_hashes(q) = [k \in 1 .. NumChunks(q) |-> h[k]]
  BY <1>1, HashesAreAChain
<1>4. i \in 1 .. NumChunks(p) /\ j \in 1 .. NumChunks(q) /\ g[i] = h[j]
  BY <1>2, <1>3
<1> DEFINE n == NumChunks(p)
           m == NumChunks(q)
<1> HIDE DEF n, m
<1>5. SameChunks(p, q, i, j)
  <2>1. n \in Nat /\ m \in Nat /\ i \in 0 .. n /\ j \in 0 .. m
    BY <1>1, <1>4 DEF n, m
  <2>2. IsChain(g, p, n) /\ IsChain(h, q, m) /\ g[i] = h[j]
    BY <1>2, <1>3, <1>4 DEF n, m
  <2> QED BY <2>1, <2>2, ChainsAreInjective
<1>6. i \in Nat /\ i <= NumChunks(p) /\ i <= NumChunks(q)
  BY <1>1, <1>4, <1>5 DEF SameChunks
<1>7. Prefix(p, i) = Prefix(q, i)
  BY <1>5, <1>6, SamePrefix DEF SameChunks
<1> QED BY <1>5, <1>7 DEF SameChunks

-----------------------------------------------------------------------------

IsSeq(s) == s \in Seq(ToSet(s))
IsData(x) == x = Data(x.chunk, x.len)

\* d is the deployment of engine g, nbytes its chunk size.
Registered(d, nbytes, g) ==
  d = <<g.model, g.world_size>> /\ nbytes = g.chunk_nbytes

\* What L1 and the files consist of.
Shape ==
  /\ IsFiniteSet(DOMAIN l1)
  /\ \A k \in DOMAIN l1 : IsData(l1[k])
  /\ \A n \in DOMAIN tmp : IsData(tmp[n])
  /\ \A n \in DOMAIN final : IsData(final[n])

IsTask(t) ==
  t = [op |-> t.op, keys |-> t.keys, done |-> t.done, objs |-> t.objs,
       pc |-> t.pc, nbytes |-> t.nbytes]

\* The keys of a load belong to engine g, and the slices have its size.
LoadsFor(t, g) ==
  t.nbytes = g.chunk_nbytes /\ \A i \in DOMAIN t.keys : t.keys[i].model = g.model

\* Where the worker is: before the key done + 1, with what it has loaded.
TaskInv ==
  /\ IsTask(task)
  /\ IsSeq(task.keys) /\ IsSeq(task.objs)
  /\ task.done \in Nat
  /\ task.op # "none" => task.done < Len(task.keys)
  /\ Len(task.objs) = IF task.op = "load" THEN task.done ELSE 0
  /\ \A i \in DOMAIN task.objs : IsData(task.objs[i]) /\ task.objs[i].len = Pages
  /\ task.op = "store" => \A i \in DOMAIN task.keys : task.keys[i] \in DOMAIN l1
  /\ At("store", "write") => Name \in DOMAIN tmp

\* What the server knows comes from engines that have registered.
Known ==
  /\ seen \subseteq Engines
  /\ instances \subseteq seen
  /\ \A d \in DOMAIN deployments : \E g \in seen : Registered(d, deployments[d], g)
  /\ task.op = "load" => \E g \in seen : LoadsFor(task, g)

FileInv == Shape /\ TaskInv /\ Known /\ LoadedIsWhole

\* c is the chunk that engine f stores under a key with file name n, in a
\* slice of engine g, whose files have the same names.
OwnBy(n, c, f, g, q, j) ==
  /\ n = filename(ChunkKey(chunk_hashes(q)[j], f.model, f.rank))
  /\ SameFiles(f, g)
  /\ c = [Chunk(f, Prefix(q, j)) EXCEPT !.nbytes = g.chunk_nbytes]
Own(n, c, S) ==
  \E f, g \in S, q \in Prompts : \E j \in DOMAIN chunk_hashes(q) : OwnBy(n, c, f, g, q, j)

\* All that is kept is somebody's chunk under its own name.
OwnInv ==
  /\ \A k \in DOMAIN l1 : Own(filename(k), l1[k].chunk, seen)
  /\ \A n \in DOMAIN tmp : Own(n, tmp[n].chunk, seen)
  /\ \A n \in DOMAIN final : Own(n, final[n].chunk, seen)
  /\ \A i \in DOMAIN task.objs : Own(filename(task.keys[i]), task.objs[i].chunk, seen)

-----------------------------------------------------------------------------

(***************************************************************************)
(* The operators.                                                          *)
(***************************************************************************)

\* A sequence is one over its own elements.
LEMMA SeqIsSeq ==
  ASSUME NEW S, NEW s \in Seq(S)
  PROVE  IsSeq(s) /\ Len(s) \in Nat /\ DOMAIN s = 1 .. Len(s)
<1>1. Len(s) \in Nat /\ DOMAIN s = 1 .. Len(s) /\ s = [i \in 1 .. Len(s) |-> s[i]]
  OBVIOUS
<1>2. \A i \in 1 .. Len(s) : s[i] \in ToSet(s)
  BY <1>1 DEF ToSet
<1>3. s \in Seq(ToSet(s))
  BY <1>1, <1>2
<1> QED BY <1>1, <1>3 DEF IsSeq

\* The empty sequence is one.
LEMMA EmptyIsSeq == IsSeq(<<>>) /\ Len(<<>>) = 0 /\ DOMAIN <<>> = {}
<1>1. <<>> \in Seq({}) /\ Len(<<>>) = 0 /\ DOMAIN <<>> = {}
  OBVIOUS
<1>2. IsSeq(<<>>)
  BY <1>1, SeqIsSeq
<1> QED BY <1>1, <1>2

\* The length and the domain of a sequence.
LEMMA SeqFacts ==
  ASSUME NEW s, IsSeq(s)
  PROVE  Len(s) \in Nat /\ DOMAIN s = 1 .. Len(s)
BY SeqIsSeq DEF IsSeq

\* Putting an item into a mapping.
LEMMA PutItem ==
  ASSUME NEW f, NEW k, NEW v
  PROVE  /\ DOMAIN Put(f, [x \in {k} |-> v]) = DOMAIN f \cup {k}
         /\ Put(f, [x \in {k} |-> v])[k] = v
         /\ \A x \in DOMAIN f : x # k => Put(f, [y \in {k} |-> v])[x] = f[x]
BY DEF Put

\* Putting a mapping into a mapping.
LEMMA PutAll ==
  ASSUME NEW f, NEW g
  PROVE  /\ DOMAIN Put(f, g) = DOMAIN f \cup DOMAIN g
         /\ \A x \in DOMAIN g : Put(f, g)[x] = g[x]
         /\ \A x \in DOMAIN f \ DOMAIN g : Put(f, g)[x] = f[x]
BY DEF Put

\* The elements of Before are a prefix.
LEMMA BeforeIsPrefix ==
  ASSUME NEW S, NEW T, NEW s \in Seq(S)
  PROVE  Before(s, T) \in Seq(S) /\ Len(Before(s, T)) <= Len(s)
<1> DEFINE I == {i \in 1 .. Len(s) : s[i] \in T}
           n == IF I # {} THEN Min(I) ELSE 0
<1>1. Len(s) \in Nat /\ I \subseteq Nat
  OBVIOUS
<1>2. n \in 0 .. Len(s)
  <2>1. CASE I = {}
    BY <1>1, <2>1
  <2>2. CASE I # {}
    <3>1. \E x \in I : \A y \in I : ~(y < x)
      BY <1>1, <2>2, LeastNat
    <3>2. \E x \in I : \A y \in I : x =< y
      BY <1>1, <3>1
    <3>3. Min(I) \in I
      BY <3>2 DEF Min
    <3> QED BY <2>2, <3>3
  <2> QED BY <2>1, <2>2
<1>3. Before(s, T) = IF n = 0 THEN s ELSE SubSeq(s, 1, n - 1)
  BY DEF Before, SelectInSeq
<1> HIDE DEF n
<1>4. CASE n = 0
  BY <1>1, <1>3, <1>4
<1>5. CASE n # 0
  <2>1. n - 1 \in 0 .. Len(s)
    BY <1>1, <1>2, <1>5
  <2>2. SubSeq(s, 1, n - 1) \in Seq(S) /\ Len(SubSeq(s, 1, n - 1)) = n - 1
    BY <1>1, <2>1
  <2> QED BY <1>1, <1>3, <1>5, <2>1, <2>2
<1> QED BY <1>4, <1>5

\* What From returns is a sequence over the same elements.
LEMMA FromIsSuffix ==
  ASSUME NEW S, NEW T, NEW s \in Seq(S)
  PROVE  From(s, T) \in Seq(S)
<1>1. Before(s, T) \in Seq(S) /\ Len(Before(s, T)) <= Len(s)
  BY BeforeIsPrefix
<1>2. Len(Before(s, T)) \in Nat /\ Len(s) \in Nat
  BY <1>1
<1> QED BY <1>1, <1>2 DEF From

\* g holds what Selected has kept after each of the first n elements.
IsSelection(g, s, S, n) ==
  g = [i \in 0 .. n |->
         IF i = 0 THEN <<>>
         ELSE IF s[i] \in S THEN Append(g[i - 1], s[i]) ELSE g[i - 1]]

\* The recursion of Selected has a solution.
LEMMA SelectionExists ==
  ASSUME NEW s, NEW S, NEW N \in Nat
  PROVE  \E g : IsSelection(g, s, S, N)
<1> DEFINE T == {n \in Nat : ~ \E g : IsSelection(g, s, S, n)}
<1> SUFFICES ASSUME T # {} PROVE FALSE
  OBVIOUS
<1>1. PICK n \in T : \A y \in T : ~(y < n)
  BY LeastNat
<1>2. n \in Nat /\ ~ \E g : IsSelection(g, s, S, n)
  BY <1>1
<1>3. CASE n = 0
  <2> DEFINE g == [i \in 0 .. 0 |-> <<>>]
  <2>1. g = [i \in 0 .. 0 |->
               IF i = 0 THEN <<>>
               ELSE IF s[i] \in S THEN Append(g[i - 1], s[i]) ELSE g[i - 1]]
    OBVIOUS
  <2>2. IsSelection(g, s, S, 0)
    BY <2>1 DEF IsSelection
  <2> QED BY <1>2, <1>3, <2>2
<1>4. CASE n # 0
  <2>1. n - 1 \in Nat /\ n - 1 < n
    BY <1>2, <1>4
  <2>2. PICK g : IsSelection(g, s, S, n - 1)
    BY <1>1, <2>1
  <2> DEFINE last == IF s[n] \in S THEN Append(g[n - 1], s[n]) ELSE g[n - 1]
  <2> HIDE DEF last
  <2> DEFINE f == [i \in 0 .. n |-> IF i = n THEN last ELSE g[i]]
  <2>3. \A i \in 0 .. (n - 1) :
          g[i] = IF i = 0 THEN <<>>
                 ELSE IF s[i] \in S THEN Append(g[i - 1], s[i]) ELSE g[i - 1]
    BY <2>2 DEF IsSelection
  <2>4. \A i \in 0 .. n :
          f[i] = IF i = 0 THEN <<>>
                 ELSE IF s[i] \in S THEN Append(f[i - 1], s[i]) ELSE f[i - 1]
    <3> TAKE i \in 0 .. n
    <3>1. CASE i = n
      <4>1. f[i] = last /\ f[i - 1] = g[n - 1]
        BY <1>2, <1>4, <3>1
      <4> QED BY <1>4, <3>1, <4>1 DEF last
    <3>2. CASE i # n
      <4>1. i \in 0 .. (n - 1) /\ f[i] = g[i] /\ (i # 0 => f[i - 1] = g[i - 1])
        BY <1>2, <1>4, <3>2
      <4> HIDE DEF f
      <4> QED BY <2>3, <4>1
    <3> QED BY <3>1, <3>2
  <2>5. f = [i \in 0 .. n |-> f[i]]
    OBVIOUS
  <2> HIDE DEF f
  <2>6. f = [i \in 0 .. n |->
               IF i = 0 THEN <<>>
               ELSE IF s[i] \in S THEN Append(f[i - 1], s[i]) ELSE f[i - 1]]
    BY <2>4, <2>5
  <2>7. IsSelection(f, s, S, n)
    BY <2>6 DEF IsSelection
  <2> QED BY <1>2, <2>7
<1> QED BY <1>3, <1>4

\* Selected returns elements of the sequence that are in the set.
LEMMA SelectedKeeps ==
  ASSUME NEW U, NEW s \in Seq(U), NEW S
  PROVE  Selected(s, S) \in Seq(U \cap S)
<1> DEFINE N == Len(s)
           h == CHOOSE h : h = [i \in 0 .. N |->
                  IF i = 0 THEN <<>>
                  ELSE IF s[i] \in S THEN Append(h[i - 1], s[i]) ELSE h[i - 1]]
<1>1. N \in Nat /\ \A i \in 1 .. N : s[i] \in U
  OBVIOUS
<1>2. \E g : g = [i \in 0 .. N |->
                    IF i = 0 THEN <<>>
                    ELSE IF s[i] \in S THEN Append(g[i - 1], s[i]) ELSE g[i - 1]]
  <2>1. PICK g : IsSelection(g, s, S, N)
    BY <1>1, SelectionExists
  <2> QED BY <2>1, Zenon DEF IsSelection
<1>3. h = [i \in 0 .. N |->
             IF i = 0 THEN <<>>
             ELSE IF s[i] \in S THEN Append(h[i - 1], s[i]) ELSE h[i - 1]]
  BY <1>2
<1>4. Selected(s, S) = h[N]
  BY DEF Selected
<1> HIDE DEF h, N
<1>5. \A i \in 0 .. N : h[i] = IF i = 0 THEN <<>>
                               ELSE IF s[i] \in S THEN Append(h[i - 1], s[i]) ELSE h[i - 1]
  BY <1>3
<1> DEFINE T == {i \in 0 .. N : h[i] \notin Seq(U \cap S)}
<1> SUFFICES ASSUME T # {} PROVE FALSE
  BY <1>1, <1>4
<1>6. T \subseteq Nat
  BY <1>1
<1>7. PICK k \in T : \A y \in T : ~(y < k)
  BY <1>6, LeastNat
<1>8. k \in 0 .. N /\ h[k] \notin Seq(U \cap S)
  BY <1>7
<1>9. CASE k = 0
  <2>1. h[k] = <<>>
    BY <1>5, <1>8, <1>9
  <2> QED BY <1>8, <2>1
<1>10. CASE k # 0
  <2>1. k - 1 \in 0 .. N /\ k - 1 < k /\ k \in 1 .. N
    BY <1>1, <1>8, <1>10
  <2>2. h[k - 1] \in Seq(U \cap S)
    BY <1>7, <2>1
  <2>3. s[k] \in U
    BY <1>1, <2>1
  <2>4. h[k] = IF s[k] \in S THEN Append(h[k - 1], s[k]) ELSE h[k - 1]
    BY <1>5, <1>8, <1>10
  <2> QED BY <1>8, <2>2, <2>3, <2>4
<1> QED BY <1>9, <1>10

\* The hashes of a prompt are a sequence with one for each whole chunk.
LEMMA HashesOfPrompt ==
  ASSUME NEW p \in Prompts
  PROVE  /\ NumChunks(p) \in Nat
         /\ Len(chunk_hashes(p)) = NumChunks(p)
         /\ DOMAIN chunk_hashes(p) = 1 .. NumChunks(p)
<1>1. p \in Seq(Nat)
  BY FileAssumption
<1>2. NumChunks(p) \in Nat
  <2>1. Len(p) \in Nat /\ chunk_size \in Nat /\ chunk_size > 0
    BY <1>1, KeysAssumption
  <2> QED BY <2>1 DEF NumChunks
<1>3. PICK g : chunk_hashes(p) = [i \in 1 .. NumChunks(p) |-> g[i]]
  BY <1>2, HashesAreAChain
<1> DEFINE n == NumChunks(p)
<1> HIDE DEF n
<1>4. n \in Nat /\ chunk_hashes(p) = [i \in 1 .. n |-> g[i]]
  BY <1>2, <1>3 DEF n
<1>5. Len(chunk_hashes(p)) = n /\ DOMAIN chunk_hashes(p) = 1 .. n
  BY <1>4
<1> QED BY <1>4, <1>5 DEF n

\* The keys of an operation are those of the engine, from start on.
LEMMA KeysOfOp ==
  ASSUME NEW p \in Prompts, NEW e, NEW start \in Nat, start <= NumChunks(p)
  PROVE  /\ IsSeq(op_keys(p, start, e))
         /\ DOMAIN op_keys(p, start, e) = 1 .. (NumChunks(p) - start)
         /\ \A i \in DOMAIN op_keys(p, start, e) :
              /\ op_keys(p, start, e)[i] = ChunkKey(chunk_hashes(p)[start + i], e.model, e.rank)
              /\ start + i \in DOMAIN chunk_hashes(p)
<1> DEFINE n == NumChunks(p)
           H == chunk_hashes(p)
           K == op_keys(p, start, e)
<1>1. n \in Nat /\ Len(H) = n /\ DOMAIN H = 1 .. n
  BY HashesOfPrompt
<1>2. K = [i \in 1 .. (Len(H) - start) |-> ChunkKey(H[start + i], e.model, e.rank)]
  BY DEF op_keys
<1> HIDE DEF n, H, K
<1>3. n - start \in Nat /\ start <= n
  BY <1>1 DEF n
<1>4. K = [i \in 1 .. (n - start) |-> ChunkKey(H[start + i], e.model, e.rank)]
  BY <1>1, <1>2
<1>5. DOMAIN K = 1 .. (n - start)
  BY <1>4
<1>6. K \in Seq({ChunkKey(H[start + i], e.model, e.rank) : i \in 1 .. (n - start)})
  <2> DEFINE k(i) == ChunkKey(H[start + i], e.model, e.rank)
             w == n - start
  <2> HIDE DEF k, w
  <2>1. w \in Nat /\ K = [i \in 1 .. w |-> k(i)]
    BY <1>3, <1>4 DEF k, w
  <2>2. K \in Seq({k(i) : i \in 1 .. w})
    BY <2>1
  <2> QED BY <2>2 DEF k, w
<1>7. IsSeq(K)
  BY <1>6, SeqIsSeq
<1>8. \A i \in 1 .. (n - start) : start + i \in 1 .. n
  BY <1>1, <1>3
<1>9. \A i \in 1 .. (n - start) : K[i] = ChunkKey(H[start + i], e.model, e.rank)
  BY <1>4
<1>10. \A i \in DOMAIN K : /\ K[i] = ChunkKey(H[start + i], e.model, e.rank)
                           /\ start + i \in DOMAIN H
  BY <1>1, <1>5, <1>8, <1>9
<1> QED BY <1>5, <1>7, <1>10 DEF n, H, K

\* The keys of a deployment are a sequence, of its model.
LEMMA KeysOfDeployment ==
  ASSUME NEW p \in Prompts, NEW m, NEW n \in Nat
  PROVE  /\ IsSeq(keys_for(chunk_hashes(p), m, n))
         /\ \A i \in DOMAIN keys_for(chunk_hashes(p), m, n) :
              keys_for(chunk_hashes(p), m, n)[i].model = m
<1> DEFINE H == chunk_hashes(p)
           K == keys_for(H, m, n)
<1>1. Len(H) \in Nat
  BY HashesOfPrompt
<1>2. PICK w \in Nat : w = Len(H) * n
  BY <1>1
<1>3. K = [j \in 1 .. w |-> ChunkKey(H[(j - 1) \div n + 1], m, (j - 1) % n)]
  BY <1>2 DEF keys_for
<1> HIDE DEF H, K
<1>4. K \in Seq({ChunkKey(H[(j - 1) \div n + 1], m, (j - 1) % n) : j \in 1 .. w})
  <2> DEFINE k(j) == ChunkKey(H[(j - 1) \div n + 1], m, (j - 1) % n)
  <2> HIDE DEF k
  <2>1. K = [j \in 1 .. w |-> k(j)]
    BY <1>3 DEF k
  <2>2. K \in Seq({k(j) : j \in 1 .. w})
    BY <2>1
  <2> QED BY <2>2 DEF k
<1>5. IsSeq(K)
  BY <1>4, SeqIsSeq
<1>6. \A i \in DOMAIN K : K[i].model = m
  BY <1>3 DEF ChunkKey
<1> QED BY <1>5, <1>6 DEF H, K

-----------------------------------------------------------------------------

(***************************************************************************)
(* Files and entries are whole.                                            *)
(***************************************************************************)

\* What holds of every action holds of a step.
LEMMA NextCases ==
  ASSUME Next, NEW P,
         \A e \in Engines : register(e) => P,
         \A e \in Engines : unregister(e) => P,
         \A e \in Engines, p \in Prompts : \A start \in 0 .. (NumChunks(p) - 1) :
           (store(e, p, start) => P) /\ (Mirror(e, p, start) => P),
         \A k \in DOMAIN l1 : evict(k) => P,
         \A d \in DOMAIN deployments, p \in Prompts : Prefetch(d, p) => P,
         StoreSkip => P, StoreOpen => P, StoreWrite => P, StoreReplace => P,
         LoadKey => P, Crash => P, PowerFails => P
  PROVE  P
<1>1. CASE \E e \in Engines : register(e) \/ unregister(e)
  BY <1>1
<1>2. CASE \E e \in Engines, p \in Prompts :
             \E start \in 0 .. (NumChunks(p) - 1) : store(e, p, start) \/ Mirror(e, p, start)
  <2>1. PICK e \in Engines, p \in Prompts :
               \E start \in 0 .. (NumChunks(p) - 1) : store(e, p, start) \/ Mirror(e, p, start)
    BY <1>2
  <2>2. PICK start \in 0 .. (NumChunks(p) - 1) : store(e, p, start) \/ Mirror(e, p, start)
    BY <2>1
  <2> QED BY <2>2
<1>3. CASE \E k \in DOMAIN l1 : evict(k)
  BY <1>3
<1>4. CASE \E d \in DOMAIN deployments, p \in Prompts : Prefetch(d, p)
  BY <1>4
<1>5. CASE Worker
  BY <1>5 DEF Worker
<1>6. CASE Crash \/ PowerFails
  BY <1>6
<1> QED BY <1>1, <1>2, <1>3, <1>4, <1>5, <1>6 DEF Next

\* A prompt is stored from one of its chunks on.
LEMMA StartOfStore ==
  ASSUME NEW p \in Prompts, NEW start \in 0 .. (NumChunks(p) - 1)
  PROVE  start \in Nat /\ start <= NumChunks(p)
BY HashesOfPrompt

\* A final file is whole as long as the power has not failed: os.replace
\* comes after write_bytes (FSAdapter.store), wherever the process is killed.
THEOREM FilesAreWhole == Spec => []FinalIsWhole
<1>1. Init => FinalIsWhole
  BY DEF Init, FinalIsWhole
<1>2. FinalIsWhole /\ [Next]_vars => FinalIsWhole'
  <2> SUFFICES ASSUME FinalIsWhole, [Next]_vars PROVE FinalIsWhole'
    OBVIOUS
  <2>1. UNCHANGED <<final, powerLost>> => FinalIsWhole'
    BY DEF FinalIsWhole
  <2>2. StoreReplace => FinalIsWhole'
    <3> SUFFICES ASSUME StoreReplace PROVE FinalIsWhole'
      OBVIOUS
    <3>1. /\ final' = Put(final, [n \in {Name} |-> tmp[Name]])
          /\ tmp[Name].len = Pages
          /\ powerLost' = powerLost
      BY DEF StoreReplace, Written
    <3>2. \A n \in DOMAIN final' : final'[n] = tmp[Name] \/ (n \in DOMAIN final /\ final'[n] = final[n])
      BY <3>1 DEF Put
    <3> QED BY <3>1, <3>2 DEF FinalIsWhole
  <2>3. PowerFails => FinalIsWhole'
    BY DEF PowerFails, FinalIsWhole
  <2>4. CASE Next
    <3>1. \A e \in Engines : register(e) => FinalIsWhole'
      BY <2>1 DEF register, fileVars
    <3>2. \A e \in Engines : unregister(e) => FinalIsWhole'
      BY <2>1 DEF unregister, fileVars
    <3>3. \A e \in Engines, p \in Prompts : \A start \in 0 .. (NumChunks(p) - 1) :
            (store(e, p, start) => FinalIsWhole') /\ (Mirror(e, p, start) => FinalIsWhole')
      BY <2>1 DEF store, Mirror, fileVars
    <3>4. \A k \in DOMAIN l1 : evict(k) => FinalIsWhole'
      BY <2>1 DEF evict, fileVars
    <3>5. \A d \in DOMAIN deployments, p \in Prompts : Prefetch(d, p) => FinalIsWhole'
      BY <2>1 DEF Prefetch, fileVars
    <3>6. /\ StoreSkip => FinalIsWhole'
          /\ StoreOpen => FinalIsWhole'
          /\ StoreWrite => FinalIsWhole'
          /\ LoadKey => FinalIsWhole'
          /\ Crash => FinalIsWhole'
      BY <2>1 DEF StoreSkip, StoreOpen, StoreWrite, LoadKey, Crash, fileVars
    <3> QED BY <2>2, <2>3, <2>4, <3>1, <3>2, <3>3, <3>4, <3>5, <3>6, NextCases
  <2>5. CASE UNCHANGED vars
    BY <2>1, <2>5 DEF vars, fileVars
  <2> QED BY <2>4, <2>5
<1> QED BY <1>1, <1>2, PTL DEF Spec

-----------------------------------------------------------------------------

\* No task is a task.
LEMMA NoTaskFits == task = NoTask => TaskInv
<1> SUFFICES ASSUME task = NoTask PROVE TaskInv
  OBVIOUS
<1>1. /\ task = [op |-> "none", keys |-> <<>>, done |-> 0, objs |-> <<>>, pc |-> "key", nbytes |-> 0]
  BY DEF NoTask, Task
<1>2. IsTask(task)
  BY <1>1 DEF IsTask
<1>3. IsSeq(<<>>) /\ Len(<<>>) = 0 /\ DOMAIN <<>> = {}
  BY EmptyIsSeq
<1> QED BY <1>1, <1>2, <1>3 DEF TaskInv, At

\* A task is where it was while the entries of its keys and its file stay.
LEMMA TaskFrame ==
  ASSUME TaskInv, UNCHANGED task, DOMAIN tmp \subseteq DOMAIN tmp',
         \A k \in ToSet(task.keys) : k \in DOMAIN l1 => k \in DOMAIN l1'
  PROVE  TaskInv'
<1>1. \A i \in DOMAIN task.keys : task.keys[i] \in ToSet(task.keys)
  BY DEF ToSet
<1>2. task.op = "store" => \A i \in DOMAIN task.keys : task.keys[i] \in DOMAIN l1'
  BY <1>1 DEF TaskInv
<1>3. At("store", "write") => Name \in DOMAIN tmp'
  BY DEF TaskInv
<1>4. At("store", "write")' => At("store", "write") /\ Name' = Name
  BY DEF At, Name, Key
<1>5. At("store", "write")' => (Name \in DOMAIN tmp)'
  BY <1>3, <1>4
<1>6. task' = task
  OBVIOUS
<1>7. task'.op = "store" => \A i \in DOMAIN task'.keys : task'.keys[i] \in DOMAIN l1'
  BY <1>2, <1>6
<1> QED BY <1>5, <1>6, <1>7 DEF TaskInv

\* The worker is through with a key of a store.
LEMMA StoredKeyTask ==
  ASSUME TaskInv, task.op = "store", StoredKey, UNCHANGED l1
  PROVE  TaskInv'
<1>1. CASE LastKey
  <2>1. (task = NoTask)'
    BY <1>1 DEF StoredKey, NoTask, Task
  <2> QED BY <2>1, NoTaskFits, PTL
<1>2. CASE ~LastKey
  <2>1. task' = [task EXCEPT !.done = @ + 1, !.pc = "key"]
    BY <1>2 DEF StoredKey
  <2>2. IsTask(task)
    BY DEF TaskInv
  <2>3. task' = [op |-> task.op, keys |-> task.keys, done |-> task.done + 1, objs |-> task.objs,
                 pc |-> "key", nbytes |-> task.nbytes]
    BY <2>1, <2>2 DEF IsTask
  <2>4. IsTask(task')
    BY <2>3 DEF IsTask
  <2>5. task.done \in Nat /\ task.done < Len(task.keys) /\ Len(task.keys) \in Nat
    BY SeqFacts DEF TaskInv
  <2>6. task.done + 1 \in Nat /\ task.done + 1 < Len(task.keys)
    BY <1>2, <2>5 DEF LastKey
  <2>7. ~At("store", "write")'
    BY <2>3 DEF At
  <2> QED BY <2>3, <2>4, <2>6, <2>7 DEF TaskInv
<1> QED BY <1>1, <1>2

-----------------------------------------------------------------------------

\* The task of a store controller that has taken keys from L1.
LEMMA MirrorTask ==
  ASSUME Shape, NEW e \in Engines, NEW p \in Prompts, NEW start \in 0 .. (NumChunks(p) - 1),
         Mirror(e, p, start)
  PROVE  TaskInv'
<1> DEFINE K == op_keys(p, start, e)
           keys == Selected(K, DOMAIN l1)
<1>1. task' = Task("store", keys, 0) /\ keys # <<>> /\ l1' = l1
  BY DEF Mirror, serverVars
<1>2. IsSeq(K)
  BY StartOfStore, KeysOfOp
<1>3. keys \in Seq(ToSet(K) \cap DOMAIN l1)
  BY <1>2, SelectedKeeps DEF IsSeq
<1> HIDE DEF keys
<1>4. /\ IsSeq(keys) /\ Len(keys) \in Nat /\ Len(keys) > 0
      /\ \A i \in DOMAIN keys : keys[i] \in DOMAIN l1
  BY <1>1, <1>3, SeqIsSeq
<1>5. IsSeq(<<>>) /\ Len(<<>>) = 0 /\ DOMAIN <<>> = {}
  BY EmptyIsSeq
<1>6. task' = [op |-> "store", keys |-> keys, done |-> 0, objs |-> <<>>, pc |-> "key", nbytes |-> 0]
  BY <1>1 DEF Task
<1>7. IsTask(task')
  BY <1>6 DEF IsTask
<1>8. ~At("store", "write")'
  BY <1>6 DEF At
<1> QED BY <1>1, <1>4, <1>5, <1>6, <1>7, <1>8 DEF TaskInv

\* A function maps a finite set to a finite set.
LEMMA ImageFinite ==
  ASSUME NEW s, NEW D, IsFiniteSet(D)
  PROVE  IsFiniteSet({s[i] : i \in D})
<1> DEFINE T == {s[i] : i \in D}
           f == [i \in D |-> s[i]]
<1>1. f \in [D -> T] /\ \A t \in T : \E i \in D : f[i] = t
  OBVIOUS
<1>2. f \in Surjection(D, T)
  BY <1>1 DEF Surjection
<1> HIDE DEF f, T
<1>3. IsFiniteSet(T)
  BY <1>2, FS_Surjection
<1> QED BY <1>3 DEF T

\* A sequence has finitely many elements.
LEMMA ElementsFinite ==
  ASSUME NEW s, IsSeq(s)
  PROVE  IsFiniteSet(ToSet(s))
<1>1. Len(s) \in Nat /\ DOMAIN s = 1 .. Len(s)
  BY SeqFacts
<1>2. IsFiniteSet(1 .. Len(s))
  BY <1>1, FS_Interval
<1>3. ToSet(s) = {s[i] : i \in 1 .. Len(s)}
  BY <1>1 DEF ToSet
<1>4. IsFiniteSet({s[i] : i \in 1 .. Len(s)})
  BY <1>2, ImageFinite
<1> QED BY <1>3, <1>4

\* The room in L1 is a number.
LEMMA RoomIsInt ==
  ASSUME Shape, TaskInv
  PROVE  Room \in Int
<1>1. IsFiniteSet(Reserved)
  <2>1. IsFiniteSet(ToSet(task.keys))
    BY ElementsFinite DEF TaskInv
  <2>2. IsFiniteSet({})
    BY FS_EmptySet
  <2> QED BY <2>1, <2>2 DEF Reserved
<1>2. IsFiniteSet(DOMAIN l1 \cup Reserved)
  BY <1>1, FS_Union DEF Shape
<1>3. Cardinality(DOMAIN l1 \cup Reserved) \in Nat
  BY <1>2, FS_CardinalityType
<1>4. L1Chunks \in Nat
  BY FileAssumption
<1> QED BY <1>3, <1>4 DEF Room

\* The first keys of a sequence.
LEMMA FirstKeys ==
  ASSUME NEW S, NEW s \in Seq(S), NEW room \in Int
  PROVE  SubSeq(s, 1, Min({Len(s), room})) \in Seq(S)
<1>1. Len(s) \in Nat
  OBVIOUS
<1> DEFINE m == Min({Len(s), room})
<1>2. m \in Int /\ m <= Len(s)
  <2>1. \E x \in {Len(s), room} : \A y \in {Len(s), room} : x =< y
    BY <1>1
  <2>2. m \in {Len(s), room} /\ \A y \in {Len(s), room} : m =< y
    BY <2>1 DEF Min
  <2> HIDE DEF m
  <2> QED BY <1>1, <2>2
<1> HIDE DEF m
<1>3. SubSeq(s, 1, m) \in Seq(S)
  BY <1>1, <1>2
<1> QED BY <1>3 DEF m

\* A load is for the engine that registered the deployment.
LEMMA PrefetchTask ==
  ASSUME Shape, TaskInv, NEW d \in DOMAIN deployments, NEW p \in Prompts, Prefetch(d, p),
         NEW g \in Engines, Registered(d, deployments[d], g)
  PROVE  TaskInv' /\ LoadsFor(task', g)
<1> DEFINE keys == keys_for(chunk_hashes(p), d[1], d[2])
           missing == From(keys, ToSet(keys) \ DOMAIN l1)
           wanted == Before(lookup(missing), DOMAIN l1)
           load == SubSeq(wanted, 1, Min({Len(wanted), Room}))
<1>1. task' = Task("load", load, deployments[d]) /\ load # <<>>
  BY DEF Prefetch
<1>3. d[1] = g.model /\ d[2] \in Nat /\ deployments[d] = g.chunk_nbytes
  BY FileAssumption DEF Registered
<1>4. IsSeq(keys) /\ \A i \in DOMAIN keys : keys[i].model = g.model
  BY <1>3, KeysOfDeployment
<1>5. \A k \in ToSet(keys) : k.model = g.model
  BY <1>4 DEF ToSet
<1> DEFINE S == ToSet(keys)
<1> HIDE DEF keys
<1>6. keys \in Seq(S)
  BY <1>4 DEF IsSeq
<1> HIDE DEF S
<1>7. missing \in Seq(S)
  BY <1>6, FromIsSuffix
<1> HIDE DEF missing
<1>8. lookup(missing) \in Seq(S)
  BY <1>7, BeforeIsPrefix DEF lookup
<1>9. wanted \in Seq(S)
  BY <1>8, BeforeIsPrefix
<1> HIDE DEF wanted
<1>10. load \in Seq(S)
  BY <1>9, RoomIsInt, FirstKeys
<1> HIDE DEF load
<1>11. IsSeq(load) /\ Len(load) \in Nat /\ Len(load) > 0
  BY <1>1, <1>10, SeqIsSeq
<1>12. \A i \in DOMAIN load : load[i] \in S
  BY <1>10
<1>13. \A i \in DOMAIN load : load[i].model = g.model
  BY <1>5, <1>12 DEF S
<1>14. IsSeq(<<>>) /\ Len(<<>>) = 0 /\ DOMAIN <<>> = {}
  BY EmptyIsSeq
<1>15. task' = [op |-> "load", keys |-> load, done |-> 0, objs |-> <<>>, pc |-> "key",
                nbytes |-> g.chunk_nbytes]
  BY <1>1, <1>3 DEF Task
<1>16. IsTask(task')
  BY <1>15 DEF IsTask
<1>17. ~At("store", "write")'
  BY <1>15 DEF At
<1>18. LoadsFor(task', g)
  BY <1>13, <1>15 DEF LoadsFor
<1> QED BY <1>11, <1>14, <1>15, <1>16, <1>17, <1>18 DEF TaskInv

-----------------------------------------------------------------------------

\* Nothing that Shape is about changes.
LEMMA ShapeFrame ==
  ASSUME Shape, UNCHANGED <<serverVars, fileVars>>
  PROVE  Shape'
BY DEF Shape, serverVars, fileVars

\* What Known is about stays, and no load begins.
LEMMA KnownKept ==
  ASSUME Known, UNCHANGED <<deployments, instances, seen>>,
         task'.op = "load" =>
           task.op = "load" /\ task'.keys = task.keys /\ task'.nbytes = task.nbytes
  PROVE  Known'
<1>1. task'.op = "load" => \E g \in seen : LoadsFor(task', g)
  BY DEF Known, LoadsFor
<1> QED BY <1>1 DEF Known

\* An engine registers.
LEMMA RegisterKnown ==
  ASSUME Known, NEW e \in Engines, register(e)
  PROVE  Known'
<1> DEFINE D == <<e.model, e.world_size>>
<1>1. /\ deployments' = Put(deployments, [d \in {D} |-> e.chunk_nbytes])
      /\ instances' = instances \cup {e}
      /\ seen' = seen \cup {e}
      /\ task' = task
  BY DEF register
<1>2. Registered(D, e.chunk_nbytes, e)
  BY DEF Registered
<1> HIDE DEF D
<1>3. \A d \in DOMAIN deployments' :
        \/ d = D /\ deployments'[d] = e.chunk_nbytes
        \/ d \in DOMAIN deployments /\ deployments'[d] = deployments[d]
  BY <1>1 DEF Put
<1>4. \A d \in DOMAIN deployments' : \E g \in seen' : Registered(d, deployments'[d], g)
  BY <1>1, <1>2, <1>3 DEF Known
<1> QED BY <1>1, <1>4 DEF Known

\* A load begins for the engine that registered the deployment.
LEMMA PrefetchKnown ==
  ASSUME FileInv, NEW d \in DOMAIN deployments, NEW p \in Prompts, Prefetch(d, p)
  PROVE  TaskInv' /\ Known'
<1>1. Shape /\ TaskInv /\ Known
  BY DEF FileInv
<1>2. PICK g \in seen : Registered(d, deployments[d], g)
  BY <1>1 DEF Known
<1>3. g \in Engines
  BY <1>1 DEF Known
<1>4. TaskInv' /\ LoadsFor(task', g)
  BY <1>1, <1>2, <1>3, PrefetchTask
<1>5. UNCHANGED <<deployments, instances, seen>>
  BY DEF Prefetch, serverVars
<1> QED BY <1>1, <1>4, <1>5 DEF Known

\* The worker goes on with its task or is through with it.
LEMMA WorkerKnown ==
  ASSUME TaskInv, Known, StoreSkip \/ StoreOpen \/ StoreWrite \/ StoreReplace \/ LoadKey
  PROVE  Known'
<1>1. UNCHANGED <<deployments, instances, seen>>
  BY DEF StoreSkip, StoreOpen, StoreWrite, StoreReplace, LoadKey, serverVars
<1>2. IsTask(task)
  BY DEF TaskInv
<1>3. NoTask.op # "load"
  BY DEF NoTask, Task
<1>4. StoredKey => task' = NoTask \/ (task'.op = task.op /\ task'.keys = task.keys /\ task'.nbytes = task.nbytes)
  BY <1>2 DEF StoredKey, IsTask
<1>5. StoreOpen => task'.op = task.op /\ task'.keys = task.keys /\ task'.nbytes = task.nbytes
  BY <1>2 DEF StoreOpen, IsTask
<1>6. StoreWrite => task' = task
  BY DEF StoreWrite
<1>7. LoadKey => \/ task' = NoTask
                 \/ task'.op = task.op /\ task'.keys = task.keys /\ task'.nbytes = task.nbytes
  <2> SUFFICES ASSUME LoadKey
               PROVE  \/ task' = NoTask
                      \/ task'.op = task.op /\ task'.keys = task.keys /\ task'.nbytes = task.nbytes
    OBVIOUS
  <2>1. \/ task' = NoTask
        \/ \E objs : task' = [task EXCEPT !.done = @ + 1, !.objs = objs]
    BY DEF LoadKey, Publish
  <2> QED BY <1>2, <2>1 DEF IsTask
<1> QED BY <1>1, <1>3, <1>4, <1>5, <1>6, <1>7, KnownKept DEF StoreSkip, StoreReplace

\* Entries are added: finitely many, and whole ones.
LEMMA EntriesAdded ==
  ASSUME Shape, LoadedIsWhole, NEW new, l1' = Put(l1, new),
         IsFiniteSet(DOMAIN new),
         \A k \in DOMAIN new : IsData(new[k]) /\ new[k].len = Pages,
         UNCHANGED <<deployments, instances, fileVars>>
  PROVE  Shape' /\ LoadedIsWhole'
<1>1. /\ DOMAIN l1' = DOMAIN l1 \cup DOMAIN new
      /\ \A k \in DOMAIN l1' : \/ k \in DOMAIN new /\ l1'[k] = new[k]
                               \/ k \in DOMAIN l1 /\ l1'[k] = l1[k]
  BY DEF Put
<1>2. IsFiniteSet(DOMAIN l1')
  BY <1>1, FS_Union DEF Shape
<1>3. \A k \in DOMAIN l1' : IsData(l1'[k]) /\ l1'[k].len = Pages
  BY <1>1 DEF Shape, LoadedIsWhole
<1> QED BY <1>2, <1>3 DEF Shape, LoadedIsWhole, fileVars

\* STORE adds whole chunks.
LEMMA StoreShape ==
  ASSUME Shape, LoadedIsWhole, NEW e \in Engines, NEW p \in Prompts,
         NEW start \in 0 .. (NumChunks(p) - 1), store(e, p, start)
  PROVE  Shape' /\ LoadedIsWhole'
<1> DEFINE keys == op_keys(p, start, e)
           New == {i \in DOMAIN keys : keys[i] \notin DOMAIN l1 \cup Reserved}
           Stored(i) == Data(Chunk(e, Prefix(p, start + i)), Pages)
           new == [k \in {keys[i] : i \in New} |-> Stored(CHOOSE i \in New : keys[i] = k)]
<1>1. l1' = Put(l1, new) /\ UNCHANGED <<deployments, instances, fileVars>>
  BY DEF store
<1>2. IsFiniteSet(DOMAIN new)
  <2>1. IsSeq(keys)
    BY StartOfStore, KeysOfOp
  <2> HIDE DEF keys
  <2>2. Len(keys) \in Nat /\ DOMAIN keys = 1 .. Len(keys)
    BY <2>1, SeqFacts
  <2>3. IsFiniteSet(DOMAIN keys)
    BY <2>2, FS_Interval
  <2>4. IsFiniteSet(New)
    BY <2>3, FS_Subset
  <2> HIDE DEF New
  <2>5. IsFiniteSet({keys[i] : i \in New})
    BY <2>4, ImageFinite
  <2>6. DOMAIN new = {keys[i] : i \in New}
    OBVIOUS
  <2> QED BY <2>5, <2>6
<1>3. \A k \in DOMAIN new : IsData(new[k]) /\ new[k].len = Pages
  <2> HIDE DEF New, keys
  <2>1. \A k \in DOMAIN new : \E c : new[k] = [chunk |-> c, len |-> Pages]
    BY DEF Data
  <2> HIDE DEF new
  <2> QED BY <2>1 DEF IsData, Data
<1> HIDE DEF new
<1> QED BY <1>1, <1>2, <1>3, EntriesAdded

\* The evictor removes an entry.
LEMMA EvictShape ==
  ASSUME Shape, LoadedIsWhole, NEW k \in DOMAIN l1, evict(k)
  PROVE  Shape' /\ LoadedIsWhole'
<1>1. /\ DOMAIN l1' = DOMAIN l1 \ {k}
      /\ \A x \in DOMAIN l1' : l1'[x] = l1[x]
      /\ UNCHANGED <<deployments, instances, tmp, final>>
  BY DEF evict, Restrict, fileVars
<1>2. IsFiniteSet(DOMAIN l1')
  BY <1>1, FS_Subset DEF Shape
<1> QED BY <1>1, <1>2 DEF Shape, LoadedIsWhole

\* The key the worker is at is one of its keys.
LEMMA KeyOfTask ==
  ASSUME TaskInv, task.op # "none"
  PROVE  /\ task.done + 1 \in DOMAIN task.keys
         /\ task.op = "store" => Key \in DOMAIN l1
<1>1. task.done \in Nat /\ task.done < Len(task.keys)
  BY DEF TaskInv
<1>2. Len(task.keys) \in Nat /\ DOMAIN task.keys = 1 .. Len(task.keys)
  BY SeqFacts DEF TaskInv
<1>3. task.done + 1 \in DOMAIN task.keys
  BY <1>1, <1>2
<1> QED BY <1>3 DEF TaskInv, Key

\* Every action on a file leaves it a file.
LEMMA WorkerShape ==
  ASSUME Shape, TaskInv, StoreSkip \/ StoreOpen \/ StoreWrite \/ StoreReplace
  PROVE  Shape' /\ (LoadedIsWhole => LoadedIsWhole')
<1>0. UNCHANGED serverVars
  BY DEF StoreSkip, StoreOpen, StoreWrite, StoreReplace
<1>1. \A n \in DOMAIN tmp' : IsData(tmp'[n])
  <2>1. CASE StoreSkip
    BY <2>1 DEF StoreSkip, Shape, fileVars
  <2>2. CASE StoreOpen
    <3>1. tmp' = Put(tmp, [n \in {Name} |-> Data(l1[Key].chunk, 0)])
      BY <2>2 DEF StoreOpen
    <3>2. \A n \in DOMAIN tmp' : \/ tmp'[n] = Data(l1[Key].chunk, 0)
                                 \/ n \in DOMAIN tmp /\ tmp'[n] = tmp[n]
      BY <3>1 DEF Put
    <3>3. IsData(Data(l1[Key].chunk, 0))
      BY DEF IsData, Data
    <3> QED BY <3>2, <3>3 DEF Shape
  <2>3. CASE StoreWrite
    <3>1. tmp' = [tmp EXCEPT ![Name].len = @ + 1]
      BY <2>3 DEF StoreWrite
    <3>2. \A n \in DOMAIN tmp' : n \in DOMAIN tmp /\ (tmp'[n] = tmp[n] \/ tmp'[n] = [tmp[n] EXCEPT !.len = @ + 1])
      BY <3>1
    <3>3. \A x : IsData(x) => IsData([x EXCEPT !.len = @ + 1])
      BY DEF IsData, Data
    <3> QED BY <3>2, <3>3 DEF Shape
  <2>4. CASE StoreReplace
    BY <2>4 DEF StoreReplace, Restrict, Shape
  <2> QED BY <2>1, <2>2, <2>3, <2>4
<1>2. \A n \in DOMAIN final' : IsData(final'[n])
  <2>1. CASE final' = final
    BY <2>1 DEF Shape
  <2>2. CASE StoreReplace
    <3>1. final' = Put(final, [n \in {Name} |-> tmp[Name]]) /\ At("store", "write")
      BY <2>2 DEF StoreReplace
    <3>2. \A n \in DOMAIN final' : final'[n] = tmp[Name] \/ (n \in DOMAIN final /\ final'[n] = final[n])
      BY <3>1 DEF Put
    <3>3. Name \in DOMAIN tmp
      BY <3>1 DEF TaskInv
    <3> QED BY <3>2, <3>3 DEF Shape
  <2> QED BY <2>1, <2>2 DEF StoreSkip, StoreOpen, StoreWrite, fileVars
<1> QED BY <1>0, <1>1, <1>2 DEF Shape, LoadedIsWhole, serverVars

\* What a power failure leaves of files are files.
LEMMA SurvivorsAreFiles ==
  ASSUME NEW files, NEW left \in Survivors(files)
  PROVE  /\ DOMAIN left = DOMAIN files
         /\ \A n \in DOMAIN files : IsData(left[n]) /\ left[n].chunk = files[n].chunk
<1>1. PICK len : left = [n \in DOMAIN files |-> Data(files[n].chunk, len[n])]
  BY DEF Survivors
<1>2. \A c, l : IsData(Data(c, l)) /\ Data(c, l).chunk = c
  BY DEF IsData, Data
<1> QED BY <1>1, <1>2

\* A restart keeps the files as files.
LEMMA RestartShape ==
  ASSUME Shape, Restart,
         \/ UNCHANGED fileVars
         \/ tmp' \in Survivors(tmp) /\ final' \in Survivors(final)
  PROVE  Shape' /\ TaskInv' /\ LoadedIsWhole'
<1>1. DOMAIN l1' = {} /\ (task = NoTask)'
  BY DEF Restart, NoTask, Task
<1>2. TaskInv'
  BY <1>1, NoTaskFits, PTL
<1>3. \A n \in DOMAIN tmp' : IsData(tmp'[n])
  BY SurvivorsAreFiles DEF Shape, fileVars
<1>4. \A n \in DOMAIN final' : IsData(final'[n])
  BY SurvivorsAreFiles DEF Shape, fileVars
<1>5. IsFiniteSet(DOMAIN l1')
  BY <1>1, FS_EmptySet
<1> QED BY <1>1, <1>2, <1>3, <1>4, <1>5 DEF Shape, LoadedIsWhole

-----------------------------------------------------------------------------

\* The slices of a load.
Loaded(objs) ==
  IsSeq(objs) /\ \A i \in DOMAIN objs : IsData(objs[i]) /\ objs[i].len = Pages

\* What is read from the file of the current key, and what is loaded then.
Obj == [final[Name] EXCEPT !.chunk.nbytes = task.nbytes]
Objs == Append(task.objs, Obj)

\* One more object is loaded.
LEMMA ObjLoaded ==
  ASSUME Shape, TaskInv, At("load", "key"), exists(Key), Fills(final[Name])
  PROVE  /\ Loaded(Objs)
         /\ DOMAIN Objs = 1 .. (task.done + 1)
         /\ \A i \in 1 .. task.done : Objs[i] = task.objs[i]
         /\ Objs[task.done + 1] = Obj
<1>1. Name \in DOMAIN final /\ final[Name].len = Pages
  BY DEF exists, Name, Fills
<1>2. IsData(final[Name])
  BY <1>1 DEF Shape
<1>3. \A x, v : IsData(x) => IsData([x EXCEPT !.chunk.nbytes = v]) /\ [x EXCEPT !.chunk.nbytes = v].len = x.len
  BY DEF IsData, Data
<1>4. IsData(Obj) /\ Obj.len = Pages
  BY <1>1, <1>2, <1>3 DEF Obj
<1>5. task.objs \in Seq(ToSet(task.objs)) /\ Len(task.objs) = task.done /\ task.done \in Nat
  BY DEF TaskInv, IsSeq, At
<1>6. \A i \in 1 .. task.done : IsData(task.objs[i]) /\ task.objs[i].len = Pages
  <2>1. DOMAIN task.objs = 1 .. task.done
    BY <1>5, SeqIsSeq
  <2> QED BY <2>1 DEF TaskInv
<1> DEFINE o == task.objs
           S == ToSet(task.objs)
           n == task.done
<1> HIDE DEF o, S, n
<1>7. o \in Seq(S) /\ Len(o) = n /\ n \in Nat
  BY <1>5 DEF o, S, n
<1>8. /\ Append(o, Obj) \in Seq(S \cup {Obj})
      /\ Len(Append(o, Obj)) = n + 1
      /\ \A i \in 1 .. n : Append(o, Obj)[i] = o[i]
      /\ Append(o, Obj)[n + 1] = Obj
  <2>1. o \in Seq(S \cup {Obj})
    BY <1>7
  <2> QED BY <1>7, <2>1
<1>9. IsSeq(Append(o, Obj)) /\ DOMAIN Append(o, Obj) = 1 .. (n + 1)
  BY <1>8, SeqIsSeq
<1>10. \A i \in 1 .. (n + 1) : i \in 1 .. n \/ i = n + 1
  BY <1>7
<1>11. \A i \in 1 .. (n + 1) : IsData(Append(o, Obj)[i]) /\ Append(o, Obj)[i].len = Pages
  BY <1>4, <1>6, <1>8, <1>10 DEF o, n
<1> QED BY <1>8, <1>9, <1>11 DEF Loaded, Objs, o, n

\* A load is over.
LEMMA PublishInv ==
  ASSUME Shape, LoadedIsWhole, NEW objs, Loaded(objs), Publish(objs),
         UNCHANGED <<deployments, instances, fileVars>>
  PROVE  Shape' /\ TaskInv' /\ LoadedIsWhole'
<1> DEFINE new == [k \in {task.keys[i] : i \in DOMAIN objs} |->
                     objs[CHOOSE i \in DOMAIN objs : task.keys[i] = k]]
<1>1. l1' = Put(l1, new) /\ (task = NoTask)'
  BY DEF Publish, NoTask, Task
<1>2. TaskInv'
  BY <1>1, NoTaskFits, PTL
<1>3. IsFiniteSet(DOMAIN new)
  <2>1. Len(objs) \in Nat /\ DOMAIN objs = 1 .. Len(objs)
    BY SeqFacts DEF Loaded
  <2>2. IsFiniteSet(DOMAIN objs)
    BY <2>1, FS_Interval
  <2>3. IsFiniteSet({task.keys[i] : i \in DOMAIN objs})
    <3> DEFINE K == task.keys
    <3> HIDE DEF K
    <3>1. IsFiniteSet({K[i] : i \in DOMAIN objs})
      BY <2>2, ImageFinite
    <3> QED BY <3>1 DEF K
  <2>4. DOMAIN new = {task.keys[i] : i \in DOMAIN objs}
    OBVIOUS
  <2> QED BY <2>3, <2>4
<1>4. \A k \in DOMAIN new : \E i \in DOMAIN objs : task.keys[i] = k /\ new[k] = objs[i]
  OBVIOUS
<1> HIDE DEF new
<1>5. \A k \in DOMAIN new : IsData(new[k]) /\ new[k].len = Pages
  BY <1>4 DEF Loaded
<1> QED BY <1>1, <1>2, <1>3, <1>5, EntriesAdded

\* The worker loads a key, or its load is over.
LEMMA LoadKeyInv ==
  ASSUME Shape, TaskInv, LoadedIsWhole, LoadKey
  PROVE  Shape' /\ TaskInv' /\ LoadedIsWhole'
<1>1. At("load", "key") /\ UNCHANGED <<deployments, instances, fileVars>>
  BY DEF LoadKey
<1>2. CASE ~(exists(Key) /\ Fills(final[Name]))
  <2>1. Publish(task.objs)
    BY <1>2 DEF LoadKey
  <2>2. Loaded(task.objs)
    BY DEF TaskInv, Loaded
  <2> QED BY <1>1, <2>1, <2>2, PublishInv
<1>3. CASE exists(Key) /\ Fills(final[Name]) /\ LastKey
  <2>1. Publish(Objs)
    BY <1>3 DEF LoadKey, Objs, Obj
  <2> QED BY <1>1, <1>3, <2>1, ObjLoaded, PublishInv
<1>4. CASE exists(Key) /\ Fills(final[Name]) /\ ~LastKey
  <2>1. task' = [task EXCEPT !.done = @ + 1, !.objs = Objs] /\ UNCHANGED l1
    BY <1>4 DEF LoadKey, Objs, Obj
  <2>2. IsTask(task) /\ task.op = "load" /\ task.pc = "key"
    BY <1>1 DEF TaskInv, At
  <2>3. task' = [op |-> "load", keys |-> task.keys, done |-> task.done + 1, objs |-> Objs,
                 pc |-> "key", nbytes |-> task.nbytes]
    BY <2>1, <2>2 DEF IsTask
  <2>4. IsTask(task')
    BY <2>3 DEF IsTask
  <2>5. Loaded(Objs) /\ DOMAIN Objs = 1 .. (task.done + 1)
    BY <1>1, <1>4, ObjLoaded
  <2>6. task.done \in Nat /\ task.done < Len(task.keys) /\ Len(task.keys) \in Nat
    BY <2>2, SeqFacts DEF TaskInv
  <2>7. task.done + 1 \in Nat /\ task.done + 1 < Len(task.keys)
    BY <1>4, <2>6 DEF LastKey
  <2>8. Len(Objs) = task.done + 1
    BY <2>5, <2>6, SeqFacts DEF Loaded
  <2>9. ~At("store", "write")'
    BY <2>3 DEF At
  <2>12. IsSeq(task.keys)
    BY DEF TaskInv
  <2>13. TaskInv'
    BY <2>3, <2>4, <2>5, <2>7, <2>8, <2>9, <2>12 DEF TaskInv, Loaded
  <2>14. Shape' /\ LoadedIsWhole'
    BY <1>1, <2>1 DEF Shape, LoadedIsWhole, fileVars
  <2> QED BY <2>13, <2>14
<1> QED BY <1>2, <1>3, <1>4

\* The worker stores a key.
LEMMA WorkerTask ==
  ASSUME Shape, TaskInv, StoreSkip \/ StoreOpen \/ StoreWrite \/ StoreReplace
  PROVE  TaskInv'
<1>1. CASE StoreSkip
  BY <1>1, StoredKeyTask DEF StoreSkip, At, serverVars
<1>2. CASE StoreOpen
  <2>1. /\ task' = [task EXCEPT !.pc = "write"] /\ l1' = l1
        /\ tmp' = Put(tmp, [n \in {Name} |-> Data(l1[Key].chunk, 0)])
    BY <1>2 DEF StoreOpen, serverVars
  <2>2. IsTask(task) /\ task.op = "store"
    BY <1>2 DEF TaskInv, StoreOpen, At
  <2>3. task' = [op |-> "store", keys |-> task.keys, done |-> task.done, objs |-> task.objs,
                 pc |-> "write", nbytes |-> task.nbytes]
    BY <2>1, <2>2 DEF IsTask
  <2>4. IsTask(task')
    BY <2>3 DEF IsTask
  <2>5. Name' = Name
    BY <2>3 DEF Name, Key
  <2>6. (Name \in DOMAIN tmp)'
    BY <2>1, <2>5 DEF Put
  <2>7. /\ IsSeq(task.keys) /\ IsSeq(task.objs) /\ task.done \in Nat
        /\ task.done < Len(task.keys) /\ Len(task.objs) = 0
        /\ \A i \in DOMAIN task.objs : IsData(task.objs[i]) /\ task.objs[i].len = Pages
        /\ \A i \in DOMAIN task.keys : task.keys[i] \in DOMAIN l1
    BY <2>2 DEF TaskInv
  <2> QED BY <2>1, <2>3, <2>4, <2>6, <2>7 DEF TaskInv
<1>3. CASE StoreWrite
  <2>1. tmp' = [tmp EXCEPT ![Name].len = @ + 1] /\ task' = task /\ l1' = l1
    BY <1>3 DEF StoreWrite, serverVars
  <2>2. DOMAIN tmp' = DOMAIN tmp
    BY <2>1
  <2> QED BY <2>1, <2>2, TaskFrame
<1>4. CASE StoreReplace
  BY <1>4, StoredKeyTask DEF StoreReplace, At, serverVars
<1> QED BY <1>1, <1>2, <1>3, <1>4

\* The server comes up knowing nothing.
LEMMA RestartKnown ==
  ASSUME Known, Restart, UNCHANGED seen
  PROVE  Known'
<1>1. DOMAIN deployments' = {} /\ instances' = {} /\ task'.op # "load"
  BY DEF Restart, NoTask, Task
<1> QED BY <1>1 DEF Known

\* Every step keeps the shape of things.
LEMMA NextFile == FileInv /\ [Next]_vars => FileInv'
<1> SUFFICES ASSUME FileInv, [Next]_vars PROVE FileInv'
  OBVIOUS
<1>1. Shape /\ TaskInv /\ Known /\ LoadedIsWhole
  BY DEF FileInv
<1>2. UNCHANGED vars => FileInv'
  <2> SUFFICES ASSUME UNCHANGED vars PROVE FileInv'
    OBVIOUS
  <2>1. UNCHANGED <<serverVars, fileVars, task, seen>>
    BY DEF vars
  <2>2. Shape' /\ LoadedIsWhole'
    BY <1>1, <2>1, ShapeFrame DEF LoadedIsWhole, serverVars
  <2>3. TaskInv'
    BY <1>1, <2>1, TaskFrame DEF serverVars, fileVars
  <2>4. Known'
    BY <1>1, <2>1, KnownKept DEF serverVars
  <2> QED BY <2>2, <2>3, <2>4 DEF FileInv
<1>3. \A e \in Engines : register(e) => FileInv'
  <2> SUFFICES ASSUME NEW e \in Engines, register(e) PROVE FileInv'
    OBVIOUS
  <2>1. UNCHANGED <<l1, fileVars, task>>
    BY DEF register
  <2>2. Shape'
    BY <1>1, <2>1 DEF Shape, fileVars
  <2>3. TaskInv'
    BY <1>1, <2>1, TaskFrame DEF fileVars
  <2> QED BY <1>1, <2>1, <2>2, <2>3, RegisterKnown DEF FileInv, LoadedIsWhole
<1>4. \A e \in Engines : unregister(e) => FileInv'
  <2> SUFFICES ASSUME NEW e \in Engines, unregister(e) PROVE FileInv'
    OBVIOUS
  <2>1. UNCHANGED <<l1, fileVars, task, deployments, seen>> /\ instances' \subseteq instances
    BY DEF unregister
  <2>2. Shape'
    BY <1>1, <2>1 DEF Shape, fileVars
  <2>3. TaskInv'
    BY <1>1, <2>1, TaskFrame DEF fileVars
  <2>4. Known'
    BY <1>1, <2>1 DEF Known
  <2> QED BY <1>1, <2>1, <2>2, <2>3, <2>4 DEF FileInv, LoadedIsWhole
<1>5. \A e \in Engines, p \in Prompts : \A start \in 0 .. (NumChunks(p) - 1) :
        (store(e, p, start) => FileInv') /\ (Mirror(e, p, start) => FileInv')
  <2> SUFFICES ASSUME NEW e \in Engines, NEW p \in Prompts, NEW start \in 0 .. (NumChunks(p) - 1)
               PROVE  (store(e, p, start) => FileInv') /\ (Mirror(e, p, start) => FileInv')
    OBVIOUS
  <2>1. CASE store(e, p, start)
    <3>1. UNCHANGED <<deployments, instances, fileVars, task, seen>> /\ \E new : l1' = Put(l1, new)
      BY <2>1 DEF store
    <3>2. DOMAIN l1 \subseteq DOMAIN l1'
      BY <3>1 DEF Put
    <3>3. TaskInv'
      BY <1>1, <3>1, <3>2, TaskFrame DEF fileVars
    <3>4. Known'
      BY <1>1, <3>1, KnownKept
    <3> QED BY <1>1, <2>1, <3>3, <3>4, StoreShape DEF FileInv
  <2>2. CASE Mirror(e, p, start)
    <3>1. UNCHANGED <<serverVars, fileVars, seen>> /\ task'.op # "load"
      BY <2>2 DEF Mirror, Task
    <3>2. Known'
      BY <1>1, <3>1, KnownKept DEF serverVars
    <3> QED BY <1>1, <2>2, <3>1, <3>2, ShapeFrame, MirrorTask DEF FileInv, LoadedIsWhole, serverVars
  <2> QED BY <2>1, <2>2
<1>6. \A k \in DOMAIN l1 : evict(k) => FileInv'
  <2> SUFFICES ASSUME NEW k \in DOMAIN l1, evict(k) PROVE FileInv'
    OBVIOUS
  <2>1. UNCHANGED <<deployments, instances, fileVars, task, seen>> /\ k \notin ToSet(task.keys) /\ DOMAIN l1' = DOMAIN l1 \ {k}
    BY DEF evict, Restrict
  <2>2. TaskInv'
    BY <1>1, <2>1, TaskFrame DEF fileVars
  <2>3. Known'
    BY <1>1, <2>1, KnownKept
  <2> QED BY <1>1, <2>2, <2>3, EvictShape DEF FileInv
<1>7. \A d \in DOMAIN deployments, p \in Prompts : Prefetch(d, p) => FileInv'
  <2> SUFFICES ASSUME NEW d \in DOMAIN deployments, NEW p \in Prompts, Prefetch(d, p) PROVE FileInv'
    OBVIOUS
  <2>1. UNCHANGED <<serverVars, fileVars>>
    BY DEF Prefetch
  <2> QED BY <1>1, <2>1, ShapeFrame, PrefetchKnown DEF FileInv, LoadedIsWhole, serverVars
<1>8. StoreSkip \/ StoreOpen \/ StoreWrite \/ StoreReplace => FileInv'
  BY <1>1, WorkerShape, WorkerTask, WorkerKnown DEF FileInv
<1>9. LoadKey => FileInv'
  BY <1>1, LoadKeyInv, WorkerKnown DEF FileInv
<1>10. Crash \/ PowerFails => FileInv'
  BY <1>1, RestartShape, RestartKnown DEF FileInv, Crash, PowerFails
<1>11. CASE Next
  BY <1>3, <1>4, <1>5, <1>6, <1>7, <1>8, <1>9, <1>10, <1>11, NextCases
<1> QED BY <1>2, <1>11

\* Nothing is there at the start.
LEMMA InitFile == Init => FileInv
<1> SUFFICES ASSUME Init PROVE FileInv
  OBVIOUS
<1>1. TaskInv
  BY NoTaskFits DEF Init
<1>2. DOMAIN l1 = {} /\ DOMAIN tmp = {} /\ DOMAIN final = {}
  BY DEF Init
<1>3. IsFiniteSet(DOMAIN l1)
  BY <1>2, FS_EmptySet
<1>4. Known
  BY DEF Init, Known, NoTask, Task
<1> QED BY <1>1, <1>2, <1>3, <1>4 DEF FileInv, Shape, LoadedIsWhole

\* FileInv is an invariant.
LEMMA FileInvHolds == Spec => []FileInv
BY InitFile, NextFile, PTL DEF Spec

\* An entry of L1 is whole, even when a power failure has cut files: load
\* counts a chunk only when readinto has filled its slice (FSAdapter.load).
THEOREM EntriesAreWhole == Spec => []LoadedIsWhole
<1>1. FileInv => LoadedIsWhole
  BY DEF FileInv
<1> QED BY <1>1, FileInvHolds, PTL

-----------------------------------------------------------------------------

(***************************************************************************)
(* Entries and files hold the chunks their names stand for.                *)
(***************************************************************************)

\* What two keys with one file name have in common.
LEMMA FileNames ==
  ASSUME NEW k, NEW h, NEW m, NEW r, filename(k) = filename(ChunkKey(h, m, r))
  PROVE  /\ filename(ChunkKey(NONE_HASH, k.model, 0)) = filename(ChunkKey(NONE_HASH, m, 0))
         /\ k.rank = r /\ k.chunk_hash = h
<1> DEFINE Mangled(x) == [i \in DOMAIN x |-> IF x[i] = "/" THEN "-" ELSE x[i]]
<1>1. \A x, y, z : ChunkKey(x, y, z).model = y /\ ChunkKey(x, y, z).rank = z /\ ChunkKey(x, y, z).chunk_hash = x
  BY DEF ChunkKey
<1>2. \A x : filename(x) = <<Mangled(x.model), x.rank, x.chunk_hash>>
  BY DEF filename
<1> HIDE DEF Mangled
<1>3. <<Mangled(k.model), k.rank, k.chunk_hash>> = <<Mangled(m), r, h>>
  BY <1>1, <1>2
<1>4. Mangled(k.model) = Mangled(m) /\ k.rank = r /\ k.chunk_hash = h
  BY <1>3
<1>5. /\ filename(ChunkKey(NONE_HASH, k.model, 0)) = <<Mangled(k.model), 0, NONE_HASH>>
      /\ filename(ChunkKey(NONE_HASH, m, 0)) = <<Mangled(m), 0, NONE_HASH>>
  BY <1>1, <1>2
<1> QED BY <1>4, <1>5

\* A chunk under the file name of a key has the key's rank and hash.
LEMMA Storer ==
  ASSUME NEW S, NEW k, NEW c, Own(filename(k), c, S)
  PROVE  \E f, g \in S, q \in Prompts : \E j \in DOMAIN chunk_hashes(q) :
           /\ OwnBy(filename(k), c, f, g, q, j)
           /\ filename(ChunkKey(NONE_HASH, k.model, 0)) = filename(ChunkKey(NONE_HASH, f.model, 0))
           /\ k.rank = f.rank /\ k.chunk_hash = chunk_hashes(q)[j]
<1>1. PICK f \in S, g \in S, q \in Prompts : \E j \in DOMAIN chunk_hashes(q) :
        OwnBy(filename(k), c, f, g, q, j)
  BY DEF Own
<1>2. PICK j \in DOMAIN chunk_hashes(q) : OwnBy(filename(k), c, f, g, q, j)
  BY <1>1
<1>3. filename(k) = filename(ChunkKey(chunk_hashes(q)[j], f.model, f.rank))
  BY <1>2 DEF OwnBy
<1>4. /\ filename(ChunkKey(NONE_HASH, k.model, 0)) = filename(ChunkKey(NONE_HASH, f.model, 0))
      /\ k.rank = f.rank /\ k.chunk_hash = chunk_hashes(q)[j]
  BY <1>3, FileNames
<1> QED BY <1>2, <1>4

\* More engines own what fewer own.
LEMMA OwnGrows ==
  ASSUME NEW S, NEW T, S \subseteq T, NEW n, NEW c, Own(n, c, S)
  PROVE  Own(n, c, T)
BY DEF Own

\* What OwnInv is about stays.
LEMMA OwnFrame ==
  ASSUME OwnInv, UNCHANGED <<tmp, final>>, UNCHANGED task \/ DOMAIN task'.objs = {},
         \A k \in DOMAIN l1' : k \in DOMAIN l1 /\ l1'[k] = l1[k],
         seen \subseteq seen'
  PROVE  OwnInv'
<1>1. \A n, c : Own(n, c, seen) => Own(n, c, seen')
  BY OwnGrows
<1> QED BY <1>1 DEF OwnInv

\* STORE puts an engine's chunks under its keys.
LEMMA StoreOwn ==
  ASSUME Known, OwnInv, NEW e \in Engines, NEW p \in Prompts,
         NEW start \in 0 .. (NumChunks(p) - 1), store(e, p, start)
  PROVE  OwnInv'
<1> DEFINE keys == op_keys(p, start, e)
           New == {i \in DOMAIN keys : keys[i] \notin DOMAIN l1 \cup Reserved}
           Stored(i) == Data(Chunk(e, Prefix(p, start + i)), Pages)
           new == [k \in {keys[i] : i \in New} |-> Stored(CHOOSE i \in New : keys[i] = k)]
<1>1. l1' = Put(l1, new) /\ UNCHANGED <<fileVars, task, seen>> /\ e \in seen
  BY DEF store, Known
<1>2. \A i \in DOMAIN keys : /\ keys[i] = ChunkKey(chunk_hashes(p)[start + i], e.model, e.rank)
                             /\ start + i \in DOMAIN chunk_hashes(p)
  BY StartOfStore, KeysOfOp
<1> HIDE DEF keys
<1>3. \A k \in DOMAIN new : \E i \in DOMAIN keys : keys[i] = k /\ new[k] = Stored(i)
  OBVIOUS
<1> HIDE DEF New, new
<1>4. \A i : Stored(i).chunk = Chunk(e, Prefix(p, start + i))
  BY DEF Data
<1> HIDE DEF Stored
<1>5. \A k \in DOMAIN new : Own(filename(k), new[k].chunk, seen)
  <2> TAKE k \in DOMAIN new
  <2>1. PICK i \in DOMAIN keys : keys[i] = k /\ new[k] = Stored(i)
    BY <1>3
  <2>2. SameFiles(e, e)
    BY DEF SameFiles
  <2>3. Chunk(e, Prefix(p, start + i)) = [Chunk(e, Prefix(p, start + i)) EXCEPT !.nbytes = e.chunk_nbytes]
    BY DEF Chunk
  <2>4. OwnBy(filename(k), new[k].chunk, e, e, p, start + i)
    BY <1>2, <1>4, <2>1, <2>2, <2>3 DEF OwnBy
  <2> QED BY <1>1, <1>2, <2>4 DEF Own
<1>6. \A k \in DOMAIN l1' : \/ k \in DOMAIN new /\ l1'[k] = new[k]
                            \/ k \in DOMAIN l1 /\ l1'[k] = l1[k]
  BY <1>1 DEF Put
<1>7. \A k \in DOMAIN l1' : Own(filename(k), l1'[k].chunk, seen)
  BY <1>5, <1>6 DEF OwnInv
<1> QED BY <1>1, <1>7 DEF OwnInv, fileVars

\* The object read is the chunk of its key, in a slice of the engine loaded for.
LEMMA ObjIsOwn ==
  ASSUME FileInv, OwnInv, At("load", "key"), exists(Key)
  PROVE  Own(filename(Key), Obj.chunk, seen)
<1>1. TaskInv /\ Shape /\ Known /\ task.op = "load"
  BY DEF FileInv, At
<1>2. PICK e \in seen : LoadsFor(task, e)
  BY <1>1 DEF Known
<1>3. task.done + 1 \in DOMAIN task.keys
  BY <1>1, KeyOfTask
<1>4. Key.model = e.model /\ task.nbytes = e.chunk_nbytes
  BY <1>2, <1>3 DEF LoadsFor, Key
<1>5. Name = filename(Key) /\ Name \in DOMAIN final
  BY DEF Name, exists
<1>6. Own(filename(Key), final[Name].chunk, seen) /\ IsData(final[Name])
  BY <1>1, <1>5 DEF OwnInv, Shape
<1> DEFINE Sees(f, g, q, j) ==
      /\ OwnBy(filename(Key), final[Name].chunk, f, g, q, j)
      /\ filename(ChunkKey(NONE_HASH, Key.model, 0)) = filename(ChunkKey(NONE_HASH, f.model, 0))
<1>7. PICK f \in seen, g \in seen, q \in Prompts : \E j \in DOMAIN chunk_hashes(q) : Sees(f, g, q, j)
  BY <1>6, Storer
<1>8. PICK j \in DOMAIN chunk_hashes(q) : Sees(f, g, q, j)
  BY <1>7
<1>9. SameFiles(f, e)
  BY <1>4, <1>8 DEF SameFiles
<1>10. Obj.chunk = [Chunk(f, Prefix(q, j)) EXCEPT !.nbytes = e.chunk_nbytes]
  <2>1. final[Name].chunk = [Chunk(f, Prefix(q, j)) EXCEPT !.nbytes = g.chunk_nbytes]
    BY <1>8 DEF OwnBy
  <2>2. [[Chunk(f, Prefix(q, j)) EXCEPT !.nbytes = g.chunk_nbytes] EXCEPT !.nbytes = e.chunk_nbytes]
          = [Chunk(f, Prefix(q, j)) EXCEPT !.nbytes = e.chunk_nbytes]
    BY DEF Chunk
  <2>3. \A x, v : IsData(x) => [x EXCEPT !.chunk.nbytes = v].chunk = [x.chunk EXCEPT !.nbytes = v]
    BY DEF IsData, Data
  <2>4. Obj.chunk = [final[Name].chunk EXCEPT !.nbytes = task.nbytes]
    BY <1>6, <2>3 DEF Obj
  <2> QED BY <1>4, <2>1, <2>2, <2>4
<1>11. OwnBy(filename(Key), Obj.chunk, f, e, q, j)
  BY <1>8, <1>9, <1>10 DEF OwnBy
<1> QED BY <1>2, <1>8, <1>11 DEF Own

\* What is published is what was loaded under the same keys.
LEMMA PublishOwn ==
  ASSUME OwnInv, NEW objs, Publish(objs), UNCHANGED <<fileVars, seen>>,
         \A i \in DOMAIN objs : Own(filename(task.keys[i]), objs[i].chunk, seen)
  PROVE  OwnInv'
<1> DEFINE new == [k \in {task.keys[i] : i \in DOMAIN objs} |->
                     objs[CHOOSE i \in DOMAIN objs : task.keys[i] = k]]
<1>1. l1' = Put(l1, new) /\ task' = NoTask
  BY DEF Publish
<1>2. \A k \in DOMAIN new : \E i \in DOMAIN objs : task.keys[i] = k /\ new[k] = objs[i]
  OBVIOUS
<1> HIDE DEF new
<1>3. \A k \in DOMAIN new : Own(filename(k), new[k].chunk, seen)
  BY <1>2
<1>4. \A k \in DOMAIN l1' : \/ k \in DOMAIN new /\ l1'[k] = new[k]
                            \/ k \in DOMAIN l1 /\ l1'[k] = l1[k]
  BY <1>1 DEF Put
<1>5. \A k \in DOMAIN l1' : Own(filename(k), l1'[k].chunk, seen)
  BY <1>3, <1>4 DEF OwnInv
<1>6. DOMAIN task'.objs = {}
  BY <1>1 DEF NoTask, Task
<1> QED BY <1>5, <1>6 DEF OwnInv, fileVars

\* The worker loads a key, or its load is over.
LEMMA LoadKeyOwn ==
  ASSUME FileInv, OwnInv, LoadKey
  PROVE  OwnInv'
<1>1. At("load", "key") /\ UNCHANGED <<fileVars, seen>> /\ Shape /\ TaskInv
  BY DEF LoadKey, FileInv
<1>2. CASE ~(exists(Key) /\ Fills(final[Name]))
  <2>1. Publish(task.objs)
    BY <1>2 DEF LoadKey
  <2> QED BY <1>1, <2>1, PublishOwn DEF OwnInv
<1>3. CASE exists(Key) /\ Fills(final[Name])
  <2>1. \A i \in DOMAIN Objs : Own(filename(task.keys[i]), Objs[i].chunk, seen)
    <3>1. /\ DOMAIN Objs = 1 .. (task.done + 1)
          /\ \A i \in 1 .. task.done : Objs[i] = task.objs[i]
          /\ Objs[task.done + 1] = Obj
      BY <1>1, <1>3, ObjLoaded
    <3>2. task.done \in Nat /\ DOMAIN task.objs = 1 .. task.done
      BY <1>1, SeqFacts DEF TaskInv, At
    <3>3. \A i \in DOMAIN Objs : i \in DOMAIN task.objs \/ i = task.done + 1
      BY <3>1, <3>2
    <3>4. Own(filename(task.keys[task.done + 1]), Obj.chunk, seen)
      BY <1>1, <1>3, ObjIsOwn DEF Key
    <3> QED BY <3>1, <3>2, <3>3, <3>4 DEF OwnInv
  <2>2. CASE LastKey
    <3>1. Publish(Objs)
      BY <1>3, <2>2 DEF LoadKey, Objs, Obj
    <3> QED BY <1>1, <2>1, <3>1, PublishOwn
  <2>3. CASE ~LastKey
    <3>1. task' = [task EXCEPT !.done = @ + 1, !.objs = Objs] /\ UNCHANGED l1
      BY <1>3, <2>3 DEF LoadKey, Objs, Obj
    <3>2. IsTask(task)
      BY <1>1 DEF TaskInv
    <3>3. task'.objs = Objs /\ task'.keys = task.keys
      BY <3>1, <3>2 DEF IsTask
    <3> QED BY <1>1, <2>1, <3>1, <3>3 DEF OwnInv, fileVars
  <2> QED BY <2>2, <2>3
<1> QED BY <1>2, <1>3

\* What the worker writes is the chunk of the key it is at.
LEMMA WorkerOwn ==
  ASSUME FileInv, OwnInv, StoreSkip \/ StoreOpen \/ StoreWrite \/ StoreReplace
  PROVE  OwnInv'
<1>1. Shape /\ TaskInv /\ IsTask(task) /\ task.op = "store" /\ UNCHANGED <<l1, seen>>
  BY DEF FileInv, TaskInv, StoreSkip, StoreOpen, StoreWrite, StoreReplace, At, serverVars
<1>2. \A i \in DOMAIN task'.objs : Own(filename(task'.keys[i]), task'.objs[i].chunk, seen)
  <2>1. StoredKey => DOMAIN task'.objs = {} \/ (task'.objs = task.objs /\ task'.keys = task.keys)
    BY <1>1 DEF StoredKey, NoTask, Task, IsTask
  <2>2. StoreOpen => task'.objs = task.objs /\ task'.keys = task.keys
    BY <1>1 DEF StoreOpen, IsTask
  <2>3. StoreWrite => task' = task
    BY DEF StoreWrite
  <2> QED BY <2>1, <2>2, <2>3 DEF OwnInv, StoreSkip, StoreReplace
<1>3. \A n \in DOMAIN tmp' : Own(n, tmp'[n].chunk, seen)
  <2>1. CASE StoreSkip
    BY <2>1 DEF StoreSkip, OwnInv, fileVars
  <2>2. CASE StoreOpen
    <3>1. tmp' = Put(tmp, [n \in {Name} |-> Data(l1[Key].chunk, 0)])
      BY <2>2 DEF StoreOpen
    <3>2. \A n \in DOMAIN tmp' : \/ n = Name /\ tmp'[n] = Data(l1[Key].chunk, 0)
                                 \/ n \in DOMAIN tmp /\ tmp'[n] = tmp[n]
      BY <3>1 DEF Put
    <3>3. Key \in DOMAIN l1
      BY <1>1, KeyOfTask
    <3>4. Own(Name, l1[Key].chunk, seen)
      BY <3>3 DEF OwnInv, Name
    <3>5. Data(l1[Key].chunk, 0).chunk = l1[Key].chunk
      BY DEF Data
    <3> QED BY <3>2, <3>4, <3>5 DEF OwnInv
  <2>3. CASE StoreWrite
    <3>1. tmp' = [tmp EXCEPT ![Name].len = @ + 1]
      BY <2>3 DEF StoreWrite
    <3>2. \A n \in DOMAIN tmp' : n \in DOMAIN tmp /\ (tmp'[n] = tmp[n] \/ tmp'[n] = [tmp[n] EXCEPT !.len = @ + 1])
      BY <3>1
    <3>3. \A x : IsData(x) => [x EXCEPT !.len = @ + 1].chunk = x.chunk
      BY DEF IsData, Data
    <3>4. \A n \in DOMAIN tmp' : n \in DOMAIN tmp /\ tmp'[n].chunk = tmp[n].chunk
      BY <1>1, <3>2, <3>3 DEF Shape
    <3> QED BY <3>4 DEF OwnInv
  <2>4. CASE StoreReplace
    BY <2>4 DEF StoreReplace, Restrict, OwnInv
  <2> QED BY <2>1, <2>2, <2>3, <2>4
<1>4. \A n \in DOMAIN final' : Own(n, final'[n].chunk, seen)
  <2>1. CASE final' = final
    BY <2>1 DEF OwnInv
  <2>2. CASE StoreReplace
    <3>1. final' = Put(final, [n \in {Name} |-> tmp[Name]]) /\ At("store", "write")
      BY <2>2 DEF StoreReplace
    <3>2. \A n \in DOMAIN final' : \/ n = Name /\ final'[n] = tmp[Name]
                                   \/ n \in DOMAIN final /\ final'[n] = final[n]
      BY <3>1 DEF Put
    <3>3. Name \in DOMAIN tmp
      BY <1>1, <3>1 DEF TaskInv
    <3> QED BY <3>2, <3>3 DEF OwnInv
  <2> QED BY <2>1, <2>2 DEF StoreSkip, StoreOpen, StoreWrite, fileVars
<1> QED BY <1>1, <1>2, <1>3, <1>4 DEF OwnInv

\* Files keep their chunks over a restart.
LEMMA RestartOwn ==
  ASSUME OwnInv, Restart, UNCHANGED seen,
         \/ UNCHANGED fileVars
         \/ tmp' \in Survivors(tmp) /\ final' \in Survivors(final)
  PROVE  OwnInv'
<1>1. DOMAIN l1' = {} /\ DOMAIN task'.objs = {}
  BY DEF Restart, NoTask, Task
<1>2. \A n \in DOMAIN tmp' : Own(n, tmp'[n].chunk, seen)
  BY SurvivorsAreFiles DEF OwnInv, fileVars
<1>3. \A n \in DOMAIN final' : Own(n, final'[n].chunk, seen)
  BY SurvivorsAreFiles DEF OwnInv, fileVars
<1> QED BY <1>1, <1>2, <1>3 DEF OwnInv

\* Every step keeps chunks under their names.
LEMMA NextOwn == FileInv /\ OwnInv /\ [Next]_vars => OwnInv'
<1> SUFFICES ASSUME FileInv, OwnInv, [Next]_vars PROVE OwnInv'
  OBVIOUS
<1>1. UNCHANGED vars => OwnInv'
  BY OwnFrame DEF vars, serverVars, fileVars
<1>2. \A e \in Engines : register(e) => OwnInv'
  BY OwnFrame DEF register, fileVars
<1>3. \A e \in Engines : unregister(e) => OwnInv'
  BY OwnFrame DEF unregister, fileVars
<1>4. \A e \in Engines, p \in Prompts : \A start \in 0 .. (NumChunks(p) - 1) :
        (store(e, p, start) => OwnInv') /\ (Mirror(e, p, start) => OwnInv')
  <2> SUFFICES ASSUME NEW e \in Engines, NEW p \in Prompts, NEW start \in 0 .. (NumChunks(p) - 1)
               PROVE  (store(e, p, start) => OwnInv') /\ (Mirror(e, p, start) => OwnInv')
    OBVIOUS
  <2>1. store(e, p, start) => OwnInv'
    BY StoreOwn DEF FileInv
  <2>2. Mirror(e, p, start) => UNCHANGED <<l1, tmp, final, seen>> /\ DOMAIN task'.objs = {}
    BY DEF Mirror, serverVars, fileVars, Task
  <2> QED BY <2>1, <2>2, OwnFrame
<1>5. \A k \in DOMAIN l1 : evict(k) => OwnInv'
  BY OwnFrame DEF evict, Restrict, fileVars
<1>6. \A d \in DOMAIN deployments, p \in Prompts : Prefetch(d, p) => OwnInv'
  <2> SUFFICES ASSUME NEW d \in DOMAIN deployments, NEW p \in Prompts, Prefetch(d, p) PROVE OwnInv'
    OBVIOUS
  <2>1. UNCHANGED <<l1, tmp, final, seen>> /\ DOMAIN task'.objs = {}
    BY DEF Prefetch, serverVars, fileVars, Task
  <2> QED BY <2>1, OwnFrame
<1>7. StoreSkip \/ StoreOpen \/ StoreWrite \/ StoreReplace => OwnInv'
  BY WorkerOwn
<1>8. LoadKey => OwnInv'
  BY LoadKeyOwn
<1>9. Crash \/ PowerFails => OwnInv'
  BY RestartOwn DEF Crash, PowerFails
<1>10. CASE Next
  BY <1>2, <1>3, <1>4, <1>5, <1>6, <1>7, <1>8, <1>9, <1>10, NextCases
<1> QED BY <1>1, <1>10

\* What RETRIEVE finds under an engine's key.
LEMMA OwnIsRetrieved == FileInv /\ OwnInv => RetrievesOwnChunks
<1> SUFFICES ASSUME FileInv, OwnInv, NEW e \in instances, NEW p \in Prompts,
                    NEW i \in DOMAIN op_keys(p, 0, e), op_keys(p, 0, e)[i] \in DOMAIN l1
             PROVE  LET chunk == l1[op_keys(p, 0, e)[i]].chunk
                    IN  /\ chunk.tokens = Prefix(p, i)
                        /\ chunk.rank = e.rank /\ SameFiles(chunk, e)
                        /\ OneDeployment(e) => chunk = Chunk(e, Prefix(p, i))
  BY DEF RetrievesOwnChunks
<1> DEFINE k == op_keys(p, 0, e)[i]
<1>2. i \in DOMAIN chunk_hashes(p) /\ k = ChunkKey(chunk_hashes(p)[i], e.model, e.rank)
  <2>1. 0 \in Nat /\ 0 <= NumChunks(p) /\ NumChunks(p) \in Nat
    BY HashesOfPrompt
  <2>2. /\ DOMAIN op_keys(p, 0, e) = 1 .. (NumChunks(p) - 0)
        /\ k = ChunkKey(chunk_hashes(p)[0 + i], e.model, e.rank)
        /\ 0 + i \in DOMAIN chunk_hashes(p)
    BY <2>1, KeysOfOp
  <2>3. 0 + i = i
    BY <2>1, <2>2
  <2> QED BY <2>2, <2>3
<1> HIDE DEF k
<1>3. k.model = e.model /\ k.rank = e.rank /\ k.chunk_hash = chunk_hashes(p)[i]
  BY <1>2 DEF ChunkKey
<1>4. Own(filename(k), l1[k].chunk, seen)
  BY DEF OwnInv, k
<1> DEFINE Sees(f, g, q, j) ==
      /\ OwnBy(filename(k), l1[k].chunk, f, g, q, j)
      /\ filename(ChunkKey(NONE_HASH, k.model, 0)) = filename(ChunkKey(NONE_HASH, f.model, 0))
      /\ k.rank = f.rank /\ k.chunk_hash = chunk_hashes(q)[j]
<1>5. PICK f \in seen, g \in seen, q \in Prompts : \E j \in DOMAIN chunk_hashes(q) : Sees(f, g, q, j)
  BY <1>4, Storer
<1>6. PICK j \in DOMAIN chunk_hashes(q) : Sees(f, g, q, j)
  BY <1>5
<1>7. p \in Seq(Nat) /\ q \in Seq(Nat) /\ chunk_hashes(p)[i] = chunk_hashes(q)[j]
  BY <1>3, <1>6, FileAssumption
<1>8. Prefix(q, j) = Prefix(p, i)
  BY <1>2, <1>7, HashesIdentifyPrefixes
<1>9. l1[k].chunk = [tokens |-> Prefix(p, i), model |-> f.model, world_size |-> f.world_size,
                     rank |-> e.rank, nbytes |-> g.chunk_nbytes]
  BY <1>3, <1>6, <1>8 DEF OwnBy, Chunk
<1>10. SameFiles(e, f) /\ SameFiles(f, g)
  BY <1>3, <1>6 DEF OwnBy, SameFiles
<1>11. SameFiles(l1[k].chunk, e)
  BY <1>9, <1>10 DEF SameFiles
<1>12. ASSUME OneDeployment(e) PROVE l1[k].chunk = Chunk(e, Prefix(p, i))
  <2>1. SameFiles(e, g)
    BY <1>10 DEF SameFiles
  <2>2. f.model = e.model /\ f.world_size = e.world_size /\ g.chunk_nbytes = e.chunk_nbytes
    BY <1>10, <1>12, <2>1 DEF OneDeployment, SameDeployment
  <2> QED BY <1>9, <2>2 DEF Chunk
<1> QED BY <1>9, <1>11, <1>12 DEF k

\* What an engine retrieves under a key, whoever stored it and over any
\* restarts, is a chunk of its rank for the whole prefix (a hash stands for a
\* prefix, a file name for a hash and a rank).  It is of the engine's model,
\* world size and chunk size as long as no other deployment whose keys have
\* the same file names ever registered: keys_for of server.py leaves the
\* world size out of a key and _filename maps "/" and "-" to one character.
THEOREM ChunksAreOwn == Spec => []RetrievesOwnChunks
<1>1. Init => OwnInv
  BY DEF Init, OwnInv, NoTask, Task
<1>2. FileInv /\ OwnInv /\ [Next]_vars => OwnInv'
  BY NextOwn
<1>3. FileInv /\ OwnInv => RetrievesOwnChunks
  BY OwnIsRetrieved
<1> QED BY <1>1, <1>2, <1>3, FileInvHolds, PTL DEF Spec

=============================================================================
