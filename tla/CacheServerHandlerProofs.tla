---------------------- MODULE CacheServerHandlerProofs ----------------------
(***************************************************************************)
(* The invariant with which CacheServer implements L1Contract, and the     *)
(* steps of the connectors and the handlers: each is a step of a lawful    *)
(* client of L1 and keeps the invariant's part about the protocol.         *)
(* CacheServerProofs has the background threads, the bytes and the         *)
(* theorems.                                                               *)
(***************************************************************************)
EXTENDS CacheServer, FiniteSetTheorems, SequenceTheorems, WellFoundedInduction, TLAPS

L1 == INSTANCE L1ContractProofs WITH
  Clients <- L1Clients,
  KeyLists <- {LookupKeys(r) : r \in Requests} \cup {<<>>},
  writing <- Writing,
  holds <- Holds

-----------------------------------------------------------------------------

(***************************************************************************)
(* Types.                                                                  *)
(***************************************************************************)
HandlerRec ==
  [kind : {"LOOKUP", "FREE", "END", "RETRIEVE", "STORE"}, rid : Requests,
   pc : {"start", "release", "finish", "pop", "send", "promote", "copy"},
   rank : Ranks, start : Nat, keys : Seq(Keys), objs : Seq(MemoryObj), n : Nat]

PfRec ==
  [pc : {"get", "lookup", "lookups", "reserve", "load", "loading", "discard", "resolve",
         "unhold", "dead"},
   rid : Requests \cup {NoRequest}, missing : Seq(Keys), hit : Seq(Keys), l1 : Nat,
   load : Seq(Keys), objs : Seq(MemoryObj), loaded : Nat, l2_hits : [Adapters -> Nat],
   tried : SUBSET Adapters]

StRec == [pc : {"get", "submit", "wait", "dead"}, keys : Seq(Keys), objs : Seq(MemoryObj)]

EvRec == [pc : {"sleep", "scan", "delete"}, victims : SUBSET Keys]

JobRec == [rid : Requests, keys : Seq(Keys)]
HitRec == [state : {"absent", "pending", "resolved"}, l1 : Nat, l2 : Nat]
TrackerRec ==
  [pc : {"new", "looking", "resolved", "load", "loading", "running", "finished"},
   lm : Nat, vllm : Nat, stored : Nat]

TaskRec ==
  [who : Submitters, op : {"store", "lookup", "load"}, keys : Seq(Keys),
   objs : Seq(MemoryObj), done : Nat]
FutureRec == [state : {"none", "pending", "done", "failed"}, result : Nat]

ThreadType ==
  /\ order \in Seq(Keys)
  /\ jobs \in Seq(JobRec)
  /\ hits \in [Requests -> HitRec]
  /\ held \in [Requests -> Seq(Keys)]
  /\ pf \in PfRec
  /\ pf.l1 <= Len(pf.hit)
  /\ pending \in Seq(Seq(Keys))
  /\ st \in StRec
  /\ ev \in EvRec

AdapterType ==
  /\ DOMAIN stored = Adapters
  /\ tasks \in [Adapters -> Seq(TaskRec)]
  /\ futures \in [Adapters -> [Submitters -> FutureRec]]

ServerType ==
  /\ handlers \subseteq HandlerRec
  /\ cl \in [Requests -> TrackerRec]
  /\ lost \in [Requests -> SUBSET Keys]

TypeInv == ThreadType /\ AdapterType /\ ServerType

-----------------------------------------------------------------------------

(***************************************************************************)
(* A request is looked up once.  The lookup is ahead, in a handler, in the *)
(* queue or in the prefetch thread, or it is over; before that the session *)
(* holds nothing.                                                          *)
(***************************************************************************)
Queued(r) == \E i \in 1 .. Len(jobs) : jobs[i].rid = r
LookedUp(r) == Handler("LOOKUP", r, 0) \in handlers

Ahead(r) == cl[r].pc = "new" \/ LookedUp(r) \/ Queued(r) \/ pf.rid = r

OnceInv ==
  /\ \A r \in Requests : cl[r].pc = "new" =>
       pf.rid # r /\ ~Queued(r) /\ \A h \in handlers : h.rid # r
  /\ \A h \in handlers : h.kind = "LOOKUP" =>
       h = Handler("LOOKUP", h.rid, 0) /\ pf.rid # h.rid /\ ~Queued(h.rid)
  /\ \A i, j \in 1 .. Len(jobs) : jobs[i].rid = jobs[j].rid => i = j
  /\ \A i \in 1 .. Len(jobs) :
       jobs[i].rid # pf.rid /\ jobs[i].keys \in {LookupKeys(jobs[i].rid), <<>>}

AheadOf(r) ==
  /\ held[r] = <<>> /\ lost[r] = {}
  /\ hits[r].state # "resolved"
  /\ cl[r].lm = 0
  /\ \A h \in handlers : h.rid = r =>
       h.kind \in {"LOOKUP", "STORE"} \/ (h.kind = "END" /\ h.keys = <<>>)

AheadInv ==
  /\ \A r \in Requests : Ahead(r) => AheadOf(r)
  /\ \A r \in Requests : cl[r].pc \in {"load", "loading"} => cl[r].lm > cl[r].vllm

(***************************************************************************)
(* A hold of a session is in one place, and so is a chunk that is written. *)
(***************************************************************************)
Drops(h) == h.kind # "STORE" /\ h.pc = "finish"
Writes(h) == h.kind = "STORE" /\ h.pc \in {"copy", "finish"}

HoldInv ==
  /\ \A r \in Requests : IsInjective(held[r]) /\ Range(held[r]) \cap lost[r] = {}
  /\ \A h \in handlers : IsInjective(h.keys)
  /\ \A h \in handlers : Drops(h) =>
       Range(h.keys) \cap (Range(held[h.rid]) \cup lost[h.rid]) = {}
  /\ \A h, g \in handlers : Drops(h) /\ Drops(g) /\ h.rid = g.rid /\ h # g =>
       Range(h.keys) \cap Range(g.keys) = {}

WriteInv ==
  /\ \A h \in handlers : Writes(h) => Range(h.keys) \cap Range(pf.load) = {}
  /\ \A h, g \in handlers : Writes(h) /\ Writes(g) /\ h # g =>
       Range(h.keys) \cap Range(g.keys) = {}

(***************************************************************************)
(* The threads.                                                            *)
(***************************************************************************)
PfInv ==
  /\ IsInjective(pf.hit) /\ IsInjective(pf.load)
  /\ pf.pc = "get" => pf = PfIdle
  /\ pf.pc # "get" => pf.rid \in Requests
  /\ pf.pc \in {"lookup", "lookups", "resolve", "unhold"} => pf.load = <<>>
  /\ pf.pc \in {"lookup", "lookups"} => pf.objs = <<>>
  /\ pf.pc \in {"lookup", "lookups", "reserve"} => pf.loaded = 0
  /\ pf.pc = "reserve" =>
       /\ \A a \in Adapters : pf.l2_hits[a] <= Len(pf.missing)
       /\ \E a \in Adapters : Len(pf.load) < pf.l2_hits[a]

\* The prefetch thread works along the keys of its request.
Begins(s, t) == Len(s) <= Len(t) /\ \A i \in 1 .. Len(s) : s[i] = t[i]

PrefixInv ==
  /\ pf.pc # "get" => Begins(pf.hit, LookupKeys(pf.rid))
  /\ pf.pc \in {"lookup", "lookups", "reserve", "load", "loading", "dead"} =>
       /\ Len(pf.hit) + Len(pf.missing) <= Len(LookupKeys(pf.rid))
       /\ \A i \in 1 .. Len(pf.missing) : pf.missing[i] = LookupKeys(pf.rid)[Len(pf.hit) + i]
       /\ Begins(pf.load, pf.missing)
  /\ \A r \in Requests : hits[r].l1 + hits[r].l2 <= Len(LookupKeys(r))
  /\ \A r \in Requests : cl[r].lm <= Len(Prompt[r])

StInv ==
  /\ IsInjective(st.keys)
  /\ \A i \in 1 .. Len(pending) : IsInjective(pending[i])
  /\ st.pc = "get" => st = StIdle
  /\ st.pc # "get" => st.keys # <<>>

\* Where a task belongs to.
TaskOf(a, t) ==
  /\ futures[a][t.who].state = "pending"
  /\ t.who = "store" =>
       t.op = "store" /\ st.pc \in {"wait", "dead"} /\ t.keys = st.keys /\ t.objs = st.objs
  /\ t.who = "prefetch" => t.op \in {"lookup", "load"}
  /\ t.op = "lookup" => pf.pc \in {"lookups", "dead"} /\ t.keys = pf.missing
  /\ t.op = "load" =>
       /\ pf.pc \in {"loading", "dead"}
       /\ t.keys = After(pf.loaded, pf.load) /\ t.objs = After(pf.loaded, pf.objs)
  /\ t.op # "lookup" => t.done < Len(t.keys)

TaskInv ==
  /\ \A a \in Adapters : \A i \in 1 .. Len(tasks[a]) : TaskOf(a, tasks[a][i])
  /\ \A a \in Adapters : \A i, j \in 1 .. Len(tasks[a]) :
       tasks[a][i].who = tasks[a][j].who => i = j

FutureInv ==
  /\ st.pc \in {"get", "submit"} => \A a \in Adapters : futures[a]["store"].state = "none"
  /\ pf.pc \notin {"lookups", "loading", "dead"} =>
       \A a \in Adapters : futures[a]["prefetch"].state = "none"
  /\ pf.pc = "lookups" => \A a \in Adapters :
       futures[a]["prefetch"].state = "done" => futures[a]["prefetch"].result <= Len(pf.missing)
  /\ pf.pc = "loading" => \E a \in Adapters : \A b \in Adapters :
       b # a => futures[b]["prefetch"].state = "none"

(***************************************************************************)
(* Slices and bytes.                                                       *)
(***************************************************************************)

\* The slices of a list of keys are those of their entries.
Slices(objs, keys) ==
  /\ Len(objs) = Len(keys)
  /\ \A i \in 1 .. Len(keys) : keys[i] \in DOMAIN entries /\ objs[i] = entries[keys[i]].obj

\* The first n of them are filled.
FilledTo(objs, keys, n) == n <= Len(keys) /\ \A i \in 1 .. n : HasBytes(objs[i], keys[i])

StoreData(h) ==
  /\ h.pc = "start" => h.n = 0 /\ h.objs = <<>>
  /\ h.pc = "copy" => h.n < Len(h.keys)
  /\ h.pc = "finish" => h.n = Len(h.keys)
  /\ Writes(h) =>
       /\ Slices(h.objs, h.keys) /\ FilledTo(h.objs, h.keys, h.n)
       /\ \A k \in Range(h.keys) : ~entries[k].is_temporary

PfData ==
  pf.pc \in {"reserve", "load", "loading", "dead"} =>
    Slices(pf.objs, pf.load) /\ FilledTo(pf.objs, pf.load, pf.loaded)

LoadData ==
  /\ \A a \in Adapters : \A i \in 1 .. Len(tasks[a]) : tasks[a][i].op = "load" =>
       FilledTo(pf.objs, pf.load, pf.loaded + tasks[a][i].done)
  /\ pf.pc = "loading" => \A a \in Adapters : futures[a]["prefetch"].state = "done" =>
       FilledTo(pf.objs, pf.load, pf.loaded + futures[a]["prefetch"].result)

DataInv ==
  /\ \A h \in handlers : h.kind = "STORE" => StoreData(h)
  /\ PfData
  /\ Slices(st.objs, st.keys)
  /\ LoadData
  /\ L2Integrity

ProtoInv == TypeInv /\ OnceInv /\ AheadInv /\ HoldInv /\ WriteInv /\ PfInv /\ PrefixInv /\ StInv /\ TaskInv /\ FutureInv
Inv == ProtoInv /\ L1!IInv /\ DataInv

-----------------------------------------------------------------------------

(***************************************************************************)
(* The operations of L1, here and in the contract, are the same.           *)
(***************************************************************************)

\* finish_write is the contract's.
LEMMA SameFinishWrite ==
  ASSUME NEW keys PROVE L1!finish_write(keys) <=> finish_write(keys)
BY DEF finish_write, L1!finish_write, poolVars, L1!poolVars

\* finish_write_and_reserve_read is the contract's.
LEMMA SamePublish ==
  ASSUME NEW keys PROVE L1!finish_write_and_reserve_read(keys) <=> finish_write_and_reserve_read(keys)
BY DEF finish_write_and_reserve_read, L1!finish_write_and_reserve_read, poolVars, L1!poolVars

\* reserve_read is the contract's.
LEMMA SameReserveRead ==
  ASSUME NEW keys PROVE L1!reserve_read(keys) <=> reserve_read(keys)
BY DEF reserve_read, L1!reserve_read, poolVars, L1!poolVars, Reservable, L1!Reservable,
       readable, L1!readable

\* The readable prefix of a list is the contract's.
LEMMA SamePrefixKeys ==
  ASSUME NEW keys PROVE L1!PrefixKeys(keys) = PrefixKeys(keys)
BY DEF PrefixKeys, L1!PrefixKeys, PrefixIndices, L1!PrefixIndices, readable, L1!readable

\* free is the contract's.
LEMMA SameFree ==
  ASSUME NEW objs PROVE L1!free(objs) <=> free(objs)
BY DEF free, L1!free, MapThenSumSet, L1!MapThenSumSet, MapThenFoldSet, L1!MapThenFoldSet

\* finish_read is the contract's.
LEMMA SameFinishRead ==
  ASSUME NEW keys PROVE L1!finish_read(keys) <=> finish_read(keys)
BY SameFree DEF finish_read, L1!finish_read, LastHold, L1!LastHold

\* promote is the contract's.
LEMMA SamePromote ==
  ASSUME NEW keys PROVE L1!promote(keys) <=> promote(keys)
BY DEF promote, L1!promote, poolVars, L1!poolVars

\* delete is the contract's.
LEMMA SameDelete ==
  ASSUME NEW keys, NEW force PROVE L1!delete(keys, force) <=> delete(keys, force)
BY SameFree DEF delete, L1!delete, RemoveEntries, L1!RemoveEntries, Deletable, L1!Deletable,
                unlocked, L1!unlocked, Restrict, L1!Restrict

\* reserve_write is the contract's.
LEMMA SameReserveWrite ==
  ASSUME NEW keys, NEW nbytes, NEW is_temporary
  PROVE  L1!reserve_write(keys, nbytes, is_temporary) <=> reserve_write(keys, nbytes, is_temporary)
BY DEF reserve_write, L1!reserve_write, Missing, L1!Missing, Allocations, L1!Allocations,
       allocate, L1!allocate, Reused, L1!Reused, Bumped, L1!Bumped, kSubset, L1!kSubset,
       Cardinality, L1!Cardinality, Bijection, L1!Bijection, NewEntry, L1!NewEntry,
       Satisfiable, L1!Satisfiable, Room, L1!Room, Injection, L1!Injection, Surjection, L1!Surjection,
       IsInjective, L1!IsInjective, IsFiniteSet, L1!IsFiniteSet, ExistsBijection, L1!ExistsBijection

\* A refused reserve_write is the contract's.
LEMMA SameReserveWriteNone ==
  ASSUME NEW keys, NEW nbytes
  PROVE  L1!reserve_write_none(keys, nbytes) <=> reserve_write_none(keys, nbytes)
BY DEF reserve_write_none, L1!reserve_write_none, Missing, L1!Missing,
       allocate_none, L1!allocate_none, Reused, L1!Reused, Bumped, L1!Bumped,
       Cardinality, L1!Cardinality, Satisfiable, L1!Satisfiable, Room, L1!Room

-----------------------------------------------------------------------------

(***************************************************************************)
(* Lists of keys.                                                          *)
(***************************************************************************)

\* The elements of a list.
LEMMA RangeOf ==
  ASSUME NEW U, NEW s \in Seq(U)
  PROVE  /\ \A x : x \in Range(s) <=> \E i \in 1 .. Len(s) : s[i] = x
         /\ Range(s) \subseteq U
BY DEF Range

\* A list has no duplicates.
LEMMA InjectiveIs ==
  ASSUME NEW U, NEW s \in Seq(U)
  PROVE  IsInjective(s) <=> \A i, j \in 1 .. Len(s) : s[i] = s[j] => i = j
BY DEF IsInjective

\* The empty list.
LEMMA EmptyList == Range(<<>>) = {} /\ IsInjective(<<>>)
BY DEF Range, IsInjective

\* A list without elements is empty.
LEMMA NoElements ==
  ASSUME NEW U, NEW s \in Seq(U), Range(s) = {}
  PROVE  s = <<>>
<1>1. Len(s) \in Nat
  OBVIOUS
<1>2. Len(s) = 0
  <2>1. CASE Len(s) > 0
    <3>1. 1 \in 1 .. Len(s)
      BY <1>1, <2>1
    <3>2. s[1] \in Range(s)
      BY <3>1, RangeOf
    <3> QED BY <3>2
  <2> QED BY <1>1, <2>1
<1> QED BY <1>2, EmptySeq

\* A key is added.
LEMMA Appended ==
  ASSUME NEW U, NEW s \in Seq(U), NEW x \in U
  PROVE  /\ Append(s, x) \in Seq(U) /\ Len(Append(s, x)) = Len(s) + 1
         /\ Range(Append(s, x)) = Range(s) \cup {x}
         /\ IsInjective(s) /\ x \notin Range(s) => IsInjective(Append(s, x))
<1> DEFINE t == Append(s, x)
<1>1. /\ t \in Seq(U) /\ Len(t) = Len(s) + 1 /\ Len(s) \in Nat
      /\ \A i \in 1 .. Len(s) : t[i] = s[i]
      /\ t[Len(s) + 1] = x
  BY AppendProperties
<1> HIDE DEF t
<1>2. \A y : y \in Range(t) <=> \E i \in 1 .. Len(t) : t[i] = y
  BY <1>1, RangeOf
<1>3. \A y : y \in Range(s) <=> \E i \in 1 .. Len(s) : s[i] = y
  BY RangeOf
<1>4. Range(t) = Range(s) \cup {x}
  <2>1. \A y : y \in Range(t) => y \in Range(s) \cup {x}
    <3> TAKE y
    <3> HAVE y \in Range(t)
    <3>1. PICK i \in 1 .. Len(t) : t[i] = y
      BY <1>2
    <3>2. i \in 1 .. Len(s) \/ i = Len(s) + 1
      BY <1>1
    <3> QED BY <1>1, <1>3, <3>1, <3>2
  <2>2. \A y : y \in Range(s) => y \in Range(t)
    <3> TAKE y
    <3> HAVE y \in Range(s)
    <3>1. PICK i \in 1 .. Len(s) : s[i] = y
      BY <1>3
    <3>2. i \in 1 .. Len(t)
      BY <1>1
    <3> QED BY <1>1, <1>2, <3>1, <3>2
  <2>3. Len(s) + 1 \in 1 .. Len(t)
    BY <1>1
  <2> QED BY <1>1, <1>2, <2>1, <2>2, <2>3
<1>5. ASSUME IsInjective(s), x \notin Range(s) PROVE IsInjective(t)
  <2>1. \A i, j \in 1 .. Len(s) : s[i] = s[j] => i = j
    BY <1>5, InjectiveIs
  <2>2. ASSUME NEW i \in 1 .. Len(t), NEW j \in 1 .. Len(t), t[i] = t[j] PROVE i = j
    <3>1. (i \in 1 .. Len(s) \/ i = Len(s) + 1) /\ (j \in 1 .. Len(s) \/ j = Len(s) + 1)
      BY <1>1
    <3> QED BY <1>1, <1>3, <1>5, <2>1, <2>2, <3>1
  <2> QED BY <1>1, <2>2, InjectiveIs
<1> QED BY <1>1, <1>4, <1>5 DEF t

\* Two lists behind each other.
LEMMA Joined ==
  ASSUME NEW U, NEW s \in Seq(U), NEW t \in Seq(U)
  PROVE  /\ s \o t \in Seq(U) /\ Len(s \o t) = Len(s) + Len(t)
         /\ Range(s \o t) = Range(s) \cup Range(t)
         /\ IsInjective(s) /\ IsInjective(t) /\ Range(s) \cap Range(t) = {} => IsInjective(s \o t)
<1> DEFINE u == s \o t
<1>1. /\ u \in Seq(U) /\ Len(u) = Len(s) + Len(t) /\ Len(s) \in Nat /\ Len(t) \in Nat
      /\ \A i \in 1 .. Len(u) : u[i] = IF i <= Len(s) THEN s[i] ELSE t[i - Len(s)]
  BY ConcatProperties
<1> HIDE DEF u
<1>2. \A y : y \in Range(u) <=> \E i \in 1 .. Len(u) : u[i] = y
  BY <1>1, RangeOf
<1>3. \A y : y \in Range(s) <=> \E i \in 1 .. Len(s) : s[i] = y
  BY RangeOf
<1>4. \A y : y \in Range(t) <=> \E i \in 1 .. Len(t) : t[i] = y
  BY RangeOf
<1>5. \A i \in 1 .. Len(u) :
        \/ i \in 1 .. Len(s) /\ u[i] = s[i]
        \/ i - Len(s) \in 1 .. Len(t) /\ u[i] = t[i - Len(s)]
  BY <1>1
<1>6. \A i \in 1 .. Len(s) : i \in 1 .. Len(u) /\ u[i] = s[i]
  BY <1>1
<1>7. \A i \in 1 .. Len(t) : i + Len(s) \in 1 .. Len(u) /\ u[i + Len(s)] = t[i]
  <2> DEFINE n == Len(s)
             m == Len(t)
             c == Len(u)
  <2>1. n \in Nat /\ m \in Nat /\ c = n + m
    BY <1>1
  <2>2. \A i \in 1 .. c : u[i] = IF i <= n THEN s[i] ELSE t[i - n]
    BY <1>1
  <2> HIDE DEF n, m, c
  <2>3. ASSUME NEW i \in 1 .. m PROVE i + n \in 1 .. c /\ u[i + n] = t[i]
    <3>1. i \in Int /\ i + n \in 1 .. c /\ ~(i + n <= n) /\ (i + n) - n = i
      BY <2>1
    <3>2. u[i + n] = t[(i + n) - n]
      BY <2>2, <3>1
    <3> QED BY <3>1, <3>2
  <2> QED BY <2>3 DEF n, m, c
<1>8. Range(u) = Range(s) \cup Range(t)
  <2>1. \A y : y \in Range(u) => y \in Range(s) \cup Range(t)
    BY <1>2, <1>3, <1>4, <1>5
  <2>2. \A y : y \in Range(s) => y \in Range(u)
    BY <1>2, <1>3, <1>6
  <2>3. \A y : y \in Range(t) => y \in Range(u)
    BY <1>2, <1>4, <1>7
  <2> QED BY <2>1, <2>2, <2>3
<1>9. ASSUME IsInjective(s), IsInjective(t), Range(s) \cap Range(t) = {} PROVE IsInjective(u)
  <2>1. \A i, j \in 1 .. Len(s) : s[i] = s[j] => i = j
    BY <1>9, InjectiveIs
  <2>2. \A i, j \in 1 .. Len(t) : t[i] = t[j] => i = j
    BY <1>9, InjectiveIs
  <2>3. ASSUME NEW i \in 1 .. Len(u), NEW j \in 1 .. Len(u), u[i] = u[j] PROVE i = j
    <3>0. i \in Int /\ j \in Int
      BY <1>1
    <3>1. CASE i \in 1 .. Len(s) /\ u[i] = s[i]
      <4>1. ~(j - Len(s) \in 1 .. Len(t) /\ u[j] = t[j - Len(s)])
        BY <1>3, <1>4, <1>9, <2>3, <3>1
      <4> QED BY <1>5, <2>1, <2>3, <3>1, <4>1
    <3>2. CASE i - Len(s) \in 1 .. Len(t) /\ u[i] = t[i - Len(s)]
      <4>1. ~(j \in 1 .. Len(s) /\ u[j] = s[j])
        BY <1>3, <1>4, <1>9, <2>3, <3>2
      <4>2. j - Len(s) \in 1 .. Len(t) /\ u[j] = t[j - Len(s)]
        BY <1>5, <4>1
      <4>3. i - Len(s) = j - Len(s)
        BY <2>2, <2>3, <3>2, <4>2
      <4> QED BY <1>1, <3>0, <4>3
    <3> QED BY <1>5, <3>1, <3>2
  <2> QED BY <1>1, <2>3, InjectiveIs
<1> QED BY <1>1, <1>8, <1>9 DEF u

\* A list in reverse.
LEMMA Reversed ==
  ASSUME NEW U, NEW s \in Seq(U)
  PROVE  /\ Reverse(s) \in Seq(U) /\ Range(Reverse(s)) = Range(s)
         /\ IsInjective(s) => IsInjective(Reverse(s))
<1> DEFINE t == Reverse(s)
<1>1. Len(s) \in Nat /\ \A i \in 1 .. Len(s) : Len(s) - i + 1 \in 1 .. Len(s) /\ s[Len(s) - i + 1] \in U
  OBVIOUS
<1>2. /\ t \in Seq(U) /\ Len(t) = Len(s)
      /\ \A i \in 1 .. Len(s) : t[i] = s[Len(s) - i + 1]
  BY <1>1 DEF Reverse
<1> HIDE DEF t
<1>3. \A y : y \in Range(t) <=> \E i \in 1 .. Len(s) : t[i] = y
  BY <1>2, RangeOf
<1>4. \A y : y \in Range(s) <=> \E i \in 1 .. Len(s) : s[i] = y
  BY RangeOf
<1>5. \A i \in 1 .. Len(s) : \E j \in 1 .. Len(s) : t[j] = s[i]
  <2> TAKE i \in 1 .. Len(s)
  <2>1. Len(s) - i + 1 \in 1 .. Len(s) /\ Len(s) - (Len(s) - i + 1) + 1 = i
    BY <1>1
  <2>2. t[Len(s) - i + 1] = s[Len(s) - (Len(s) - i + 1) + 1]
    BY <1>2, <2>1
  <2> QED BY <2>1, <2>2
<1>6. Range(t) = Range(s)
  <2>1. \A y : y \in Range(t) => y \in Range(s)
    BY <1>1, <1>2, <1>3, <1>4
  <2>2. \A y : y \in Range(s) => y \in Range(t)
    BY <1>3, <1>4, <1>5
  <2> QED BY <2>1, <2>2
<1>7. ASSUME IsInjective(s) PROVE IsInjective(t)
  <2>1. \A i, j \in 1 .. Len(s) : s[i] = s[j] => i = j
    BY <1>7, InjectiveIs
  <2>2. ASSUME NEW i \in 1 .. Len(s), NEW j \in 1 .. Len(s), t[i] = t[j] PROVE i = j
    <3>1. s[Len(s) - i + 1] = s[Len(s) - j + 1]
      BY <1>2, <2>2
    <3>2. Len(s) - i + 1 = Len(s) - j + 1
      BY <1>1, <2>1, <3>1
    <3> QED BY <1>1, <3>2
  <2> QED BY <1>2, <2>2, InjectiveIs
<1> QED BY <1>2, <1>6, <1>7 DEF t

\* A part of a list.
LEMMA PartOf ==
  ASSUME NEW U, NEW s \in Seq(U), NEW m \in Nat, NEW n \in Nat, n <= Len(s), m <= n
  PROVE  /\ SubSeq(s, m + 1, n) \in Seq(U) /\ Len(SubSeq(s, m + 1, n)) = n - m
         /\ \A i \in 1 .. (n - m) : SubSeq(s, m + 1, n)[i] = s[m + i]
         /\ \A x : x \in Range(SubSeq(s, m + 1, n)) <=> \E i \in (m + 1) .. n : s[i] = x
         /\ IsInjective(s) => IsInjective(SubSeq(s, m + 1, n))
<1> DEFINE t == SubSeq(s, m + 1, n)
<1>1. /\ t \in Seq(U) /\ Len(t) = n - m
      /\ \A i \in 1 .. (n - m) : t[i] = s[m + i]
  <2>1. \A i \in (m + 1) .. n : i \in 1 .. Len(s)
    OBVIOUS
  <2> QED BY <2>1, SubSeqProperties
<1> HIDE DEF t
<1>2. \A i \in (m + 1) .. n : i - m \in 1 .. (n - m) /\ t[i - m] = s[i]
  BY <1>1
<1>3. \A i \in 1 .. (n - m) : m + i \in (m + 1) .. n /\ m + i \in 1 .. Len(s)
  OBVIOUS
<1>4. \A x : x \in Range(t) <=> \E i \in 1 .. (n - m) : t[i] = x
  BY <1>1, RangeOf
<1>5. \A x : x \in Range(t) <=> \E i \in (m + 1) .. n : s[i] = x
  <2> TAKE x
  <2>1. x \in Range(t) => \E i \in (m + 1) .. n : s[i] = x
    BY <1>1, <1>3, <1>4
  <2>2. (\E i \in (m + 1) .. n : s[i] = x) => x \in Range(t)
    BY <1>2, <1>4
  <2> QED BY <2>1, <2>2
<1>6. ASSUME IsInjective(s) PROVE IsInjective(t)
  <2>1. \A i, j \in 1 .. Len(s) : s[i] = s[j] => i = j
    BY <1>6, InjectiveIs
  <2>2. \A i, j \in 1 .. Len(t) : t[i] = t[j] => i = j
    BY <1>1, <1>3, <2>1
  <2> QED BY <1>1, <2>2, InjectiveIs
<1> QED BY <1>1, <1>5, <1>6 DEF t

\* The first n elements of a list.
LEMMA FirstOf ==
  ASSUME NEW U, NEW s \in Seq(U), NEW n \in Nat, n <= Len(s)
  PROVE  /\ First(n, s) \in Seq(U) /\ Len(First(n, s)) = n
         /\ \A i \in 1 .. n : First(n, s)[i] = s[i]
         /\ \A x : x \in Range(First(n, s)) <=> \E i \in 1 .. n : s[i] = x
         /\ IsInjective(s) => IsInjective(First(n, s))
<1> DEFINE t == SubSeq(s, 0 + 1, n)
<1>1. 0 \in Nat /\ 0 <= n /\ n - 0 = n /\ 0 + 1 = 1 /\ \A i \in 1 .. n : 0 + i = i
  OBVIOUS
<1>2. /\ t \in Seq(U) /\ Len(t) = n - 0
      /\ \A i \in 1 .. (n - 0) : t[i] = s[0 + i]
      /\ \A x : x \in Range(t) <=> \E i \in (0 + 1) .. n : s[i] = x
      /\ IsInjective(s) => IsInjective(t)
  BY <1>1, PartOf
<1>3. First(n, s) = t
  BY <1>1 DEF First
<1> HIDE DEF t
<1>4. \A i \in 1 .. n : t[i] = s[i]
  BY <1>1, <1>2
<1>5. \A x : x \in Range(t) <=> \E i \in 1 .. n : s[i] = x
  BY <1>1, <1>2
<1> QED BY <1>1, <1>2, <1>3, <1>4, <1>5

\* The rest.
LEMMA RestOf ==
  ASSUME NEW U, NEW s \in Seq(U), NEW n \in Nat, n <= Len(s)
  PROVE  /\ After(n, s) \in Seq(U) /\ Len(After(n, s)) = Len(s) - n
         /\ IsInjective(s) => IsInjective(After(n, s))
<1> DEFINE m == Len(s)
           t == SubSeq(s, n + 1, m)
<1>1. m \in Nat /\ m <= Len(s) /\ n <= m
  OBVIOUS
<1>2. After(n, s) = t
  BY DEF After
<1> HIDE DEF m
<1>3. t \in Seq(U) /\ Len(t) = m - n /\ (IsInjective(s) => IsInjective(t))
  BY <1>1, PartOf
<1> HIDE DEF t
<1> QED BY <1>2, <1>3 DEF m

\* The rest of a list, element by element.
LEMMA RestAt ==
  ASSUME NEW U, NEW s \in Seq(U), NEW n \in Nat, n <= Len(s)
  PROVE  /\ \A i \in 1 .. (Len(s) - n) : After(n, s)[i] = s[n + i]
         /\ \A x : x \in Range(After(n, s)) <=> \E i \in (n + 1) .. Len(s) : s[i] = x
<1> DEFINE m == Len(s)
           t == SubSeq(s, n + 1, m)
<1>1. m \in Nat /\ m <= Len(s) /\ n <= m
  OBVIOUS
<1>2. After(n, s) = t
  BY DEF After
<1> HIDE DEF m
<1>3. /\ \A i \in 1 .. (m - n) : t[i] = s[n + i]
      /\ \A x : x \in Range(t) <=> \E i \in (n + 1) .. m : s[i] = x
  <2>1. \A i \in 1 .. (m - n) : t[i] = s[n + i]
    BY <1>1, PartOf
  <2>2. \A x : x \in Range(t) <=> \E i \in (n + 1) .. m : s[i] = x
    BY <1>1, PartOf
  <2> QED BY <2>1, <2>2
<1> HIDE DEF t
<1> QED BY <1>2, <1>3 DEF m

\* Both together.
LEMMA SplitList ==
  ASSUME NEW U, NEW s \in Seq(U), NEW n \in Nat, n <= Len(s), IsInjective(s)
  PROVE  /\ Range(After(n, s)) = Range(s) \ Range(First(n, s))
         /\ Range(First(n, s)) \subseteq Range(s)
<1> DEFINE F == First(n, s)
           E == After(n, s)
<1>0. Len(s) \in Nat
  OBVIOUS
<1>1. \A x : x \in Range(F) <=> \E i \in 1 .. n : s[i] = x
  BY FirstOf
<1>2. \A x : x \in Range(E) <=> \E i \in (n + 1) .. Len(s) : s[i] = x
  BY RestAt
<1> HIDE DEF F, E
<1>3. \A x : x \in Range(s) <=> \E i \in 1 .. Len(s) : s[i] = x
  BY RangeOf
<1>4. \A i, j \in 1 .. Len(s) : s[i] = s[j] => i = j
  BY InjectiveIs
<1>5. /\ \A i \in 1 .. Len(s) : i \in 1 .. n \/ i \in (n + 1) .. Len(s)
      /\ \A i \in 1 .. n : i \in 1 .. Len(s)
      /\ \A i \in (n + 1) .. Len(s) : i \in 1 .. Len(s) /\ i \notin 1 .. n
  BY <1>0
<1>6. \A x : x \in Range(E) => x \notin Range(F)
  <2> SUFFICES ASSUME NEW x, x \in Range(E), x \in Range(F) PROVE FALSE
    OBVIOUS
  <2>1. PICK i \in (n + 1) .. Len(s) : s[i] = x
    BY <1>2
  <2>2. PICK j \in 1 .. n : s[j] = x
    BY <1>1
  <2>3. i \in 1 .. Len(s) /\ j \in 1 .. Len(s) /\ i \notin 1 .. n
    BY <1>5
  <2> QED BY <1>4, <2>1, <2>2, <2>3
<1>7. \A x : x \in Range(s) <=> x \in Range(E) \/ x \in Range(F)
  BY <1>1, <1>2, <1>3, <1>5
<1> QED BY <1>6, <1>7 DEF F, E

\* A set of numbers that is not empty has a least one.
LEMMA LeastNat ==
  ASSUME NEW T, T \subseteq Nat, T # {}
  PROVE  \E x \in T : \A y \in T : ~(y < x)
<1>1. IsWellFoundedOn(OpToRel(<, Nat), Nat)
  BY NatLessThanWellFounded
<1>2. PICK x \in T : \A y \in T : ~(<<y, x>> \in OpToRel(<, Nat))
  BY <1>1, WFMin
<1>3. \A y \in T : <<y, x>> \in OpToRel(<, Nat) <=> y < x
  BY DEF OpToRel
<1> QED BY <1>2, <1>3

\* g holds what Selected has kept after each of the first n elements.
IsSelection(g, s, S, n) ==
  g = [i \in 0 .. n |->
         IF i = 0 THEN <<>>
         ELSE IF s[i] \in S THEN Append(g[i - 1], s[i]) ELSE g[i - 1]]

\* The recursion of Selected has a solution.
LEMMA SelectionExists ==
  ASSUME NEW s, NEW S, NEW N \in Nat
  PROVE  \E g : IsSelection(g, s, S, N)
<1> DEFINE T == {n \in Nat : ~ \E g : IsSelection(g, s, S, n)}
<1> SUFFICES ASSUME T # {} PROVE FALSE
  OBVIOUS
<1>1. PICK n \in T : \A y \in T : ~(y < n)
  BY LeastNat
<1>2. n \in Nat /\ ~ \E g : IsSelection(g, s, S, n)
  BY <1>1
<1>3. CASE n = 0
  <2> DEFINE g == [i \in 0 .. 0 |-> <<>>]
  <2>1. g = [i \in 0 .. 0 |->
               IF i = 0 THEN <<>>
               ELSE IF s[i] \in S THEN Append(g[i - 1], s[i]) ELSE g[i - 1]]
    OBVIOUS
  <2>2. IsSelection(g, s, S, 0)
    BY <2>1 DEF IsSelection
  <2> QED BY <1>2, <1>3, <2>2
<1>4. CASE n # 0
  <2>1. n - 1 \in Nat /\ n - 1 < n
    BY <1>2, <1>4
  <2>2. PICK g : IsSelection(g, s, S, n - 1)
    BY <1>1, <2>1
  <2> DEFINE last == IF s[n] \in S THEN Append(g[n - 1], s[n]) ELSE g[n - 1]
  <2> HIDE DEF last
  <2> DEFINE f == [i \in 0 .. n |-> IF i = n THEN last ELSE g[i]]
  <2>3. \A i \in 0 .. (n - 1) :
          g[i] = IF i = 0 THEN <<>>
                 ELSE IF s[i] \in S THEN Append(g[i - 1], s[i]) ELSE g[i - 1]
    BY <2>2 DEF IsSelection
  <2>4. \A i \in 0 .. n :
          f[i] = IF i = 0 THEN <<>>
                 ELSE IF s[i] \in S THEN Append(f[i - 1], s[i]) ELSE f[i - 1]
    <3> TAKE i \in 0 .. n
    <3>1. CASE i = n
      <4>1. f[i] = last /\ f[i - 1] = g[n - 1]
        BY <1>2, <1>4, <3>1
      <4> QED BY <1>4, <3>1, <4>1 DEF last
    <3>2. CASE i # n
      <4>1. i \in 0 .. (n - 1) /\ f[i] = g[i] /\ (i # 0 => f[i - 1] = g[i - 1])
        BY <1>2, <1>4, <3>2
      <4> HIDE DEF f
      <4> QED BY <2>3, <4>1
    <3> QED BY <3>1, <3>2
  <2>5. f = [i \in 0 .. n |-> f[i]]
    OBVIOUS
  <2> HIDE DEF f
  <2>6. f = [i \in 0 .. n |->
               IF i = 0 THEN <<>>
               ELSE IF s[i] \in S THEN Append(f[i - 1], s[i]) ELSE f[i - 1]]
    BY <2>4, <2>5
  <2>7. IsSelection(f, s, S, n)
    BY <2>6 DEF IsSelection
  <2> QED BY <1>2, <2>7
<1> QED BY <1>3, <1>4

\* Selected is the end of that recursion.
Selecting(h, s, S) ==
  /\ Selected(s, S) = h[Len(s)]
  /\ h[0] = <<>>
  /\ \A i \in 1 .. Len(s) :
       h[i] = IF s[i] \in S THEN Append(h[i - 1], s[i]) ELSE h[i - 1]

\* The recursion behind Selected has a solution.
LEMMA SelectedRecursion ==
  ASSUME NEW U, NEW s \in Seq(U), NEW S
  PROVE  \E h : Selecting(h, s, S)
<1> DEFINE N == Len(s)
           h == CHOOSE h : h = [i \in 0 .. N |->
                  IF i = 0 THEN <<>>
                  ELSE IF s[i] \in S THEN Append(h[i - 1], s[i]) ELSE h[i - 1]]
<1>1. N \in Nat
  OBVIOUS
<1>2. \E g : g = [i \in 0 .. N |->
                    IF i = 0 THEN <<>>
                    ELSE IF s[i] \in S THEN Append(g[i - 1], s[i]) ELSE g[i - 1]]
  <2>1. PICK g : IsSelection(g, s, S, N)
    BY <1>1, SelectionExists
  <2> QED BY <2>1, Zenon DEF IsSelection
<1>3. h = [i \in 0 .. N |->
             IF i = 0 THEN <<>>
             ELSE IF s[i] \in S THEN Append(h[i - 1], s[i]) ELSE h[i - 1]]
  BY <1>2
<1>4. Selected(s, S) = h[N]
  BY DEF Selected
<1> HIDE DEF h
<1>5. \A i \in 0 .. N : h[i] = IF i = 0 THEN <<>>
                               ELSE IF s[i] \in S THEN Append(h[i - 1], s[i]) ELSE h[i - 1]
  BY <1>3
<1>6. h[0] = <<>>
  BY <1>1, <1>5
<1>7. \A i \in 1 .. N : i \in 0 .. N /\ i # 0
  BY <1>1
<1>8. Selecting(h, s, S)
  BY <1>4, <1>5, <1>6, <1>7 DEF Selecting
<1> QED BY <1>8

\* What Selected keeps: the elements that are in the set, in their order.
LEMMA SelectedKeeps ==
  ASSUME NEW U, NEW s \in Seq(U), NEW S
  PROVE  /\ Selected(s, S) \in Seq(U)
         /\ Range(Selected(s, S)) = Range(s) \cap S
         /\ IsInjective(s) => IsInjective(Selected(s, S))
<1>0. PICK h : Selecting(h, s, S)
  BY SelectedRecursion
<1>1. /\ Selected(s, S) = h[Len(s)]
      /\ h[0] = <<>>
      /\ \A i \in 1 .. Len(s) :
           h[i] = IF s[i] \in S THEN Append(h[i - 1], s[i]) ELSE h[i - 1]
  BY <1>0 DEF Selecting
<1> DEFINE Ok(i) ==
      /\ h[i] \in Seq(U)
      /\ \A x : x \in Range(h[i]) <=> x \in S /\ \E j \in 1 .. i : s[j] = x
      /\ IsInjective(s) => IsInjective(h[i])
    T == {i \in 0 .. Len(s) : ~Ok(i)}
<1>2. Len(s) \in Nat /\ \A i \in 1 .. Len(s) : s[i] \in U
  OBVIOUS
<1>3. T = {}
  <2> SUFFICES ASSUME T # {} PROVE FALSE
    OBVIOUS
  <2>1. T \subseteq Nat
    BY <1>2
  <2>2. PICK k \in T : \A y \in T : ~(y < k)
    BY <2>1, LeastNat
  <2>3. k \in 0 .. Len(s) /\ ~Ok(k)
    BY <2>2
  <2>4. CASE k = 0
    <3>1. \A j : j \notin 1 .. 0
      OBVIOUS
    <3>2. h[k] = <<>>
      BY <1>1, <2>4
    <3>3. h[k] \in Seq(U) /\ Range(h[k]) = {} /\ IsInjective(h[k])
      BY <3>2, EmptyList
    <3> QED BY <2>3, <2>4, <3>1, <3>3
  <2>5. CASE k # 0
    <3>1. k - 1 \in 0 .. Len(s) /\ k - 1 < k /\ k \in 1 .. Len(s)
      BY <1>2, <2>3, <2>5
    <3>2. Ok(k - 1)
      BY <2>2, <3>1
    <3>3. h[k] = IF s[k] \in S THEN Append(h[k - 1], s[k]) ELSE h[k - 1]
      BY <1>1, <3>1
    <3>4. s[k] \in U /\ \A x : (\E j \in 1 .. k : s[j] = x) <=> x = s[k] \/ \E j \in 1 .. (k - 1) : s[j] = x
      BY <1>2, <3>1
    <3>5. CASE s[k] \notin S
      <4>1. h[k] = h[k - 1]
        BY <3>3, <3>5
      <4>2. \A x : x \in Range(h[k]) <=> x \in S /\ \E j \in 1 .. k : s[j] = x
        BY <3>2, <3>4, <3>5, <4>1
      <4> QED BY <2>3, <3>2, <4>1, <4>2
    <3>6. CASE s[k] \in S
      <4>1. h[k] = Append(h[k - 1], s[k])
        BY <3>3, <3>6
      <4>2. /\ h[k] \in Seq(U) /\ Range(h[k]) = Range(h[k - 1]) \cup {s[k]}
            /\ IsInjective(h[k - 1]) /\ s[k] \notin Range(h[k - 1]) => IsInjective(h[k])
        BY <3>2, <3>4, <4>1, Appended
      <4>3. \A x : x \in Range(h[k]) <=> x \in S /\ \E j \in 1 .. k : s[j] = x
        BY <3>2, <3>4, <3>6, <4>2
      <4>4. ASSUME IsInjective(s) PROVE s[k] \notin Range(h[k - 1])
        <5>1. \A j \in 1 .. (k - 1) : j \in 1 .. Len(s) /\ j # k
          BY <1>2, <3>1
        <5>2. \A j \in 1 .. (k - 1) : s[j] # s[k]
          BY <3>1, <4>4, <5>1, InjectiveIs
        <5> QED BY <3>2, <5>2
      <4> QED BY <2>3, <3>2, <4>2, <4>3, <4>4
    <3> QED BY <3>5, <3>6
  <2> QED BY <2>4, <2>5
<1>4. Ok(Len(s))
  <2>1. Len(s) \in 0 .. Len(s)
    BY <1>2
  <2> HIDE DEF Ok
  <2> QED BY <1>3, <2>1
<1>5. Range(Selected(s, S)) = Range(s) \cap S
  BY <1>1, <1>4, RangeOf
<1> QED BY <1>1, <1>4, <1>5

\* What Without keeps.
LEMMA WithoutKeeps ==
  ASSUME NEW U, NEW s \in Seq(U), NEW S
  PROVE  /\ Without(s, S) \in Seq(U)
         /\ Range(Without(s, S)) = Range(s) \ S
         /\ IsInjective(s) => IsInjective(Without(s, S))
<1>1. Range(s) \cap (Range(s) \ S) = Range(s) \ S
  OBVIOUS
<1> QED BY <1>1, SelectedKeeps DEF Without

-----------------------------------------------------------------------------

(***************************************************************************)
(* The keys of a request.                                                  *)
(***************************************************************************)
LEMMA Division ==
  ASSUME NEW n \in Nat, NEW w \in Nat \ {0}
  PROVE  /\ n \div w \in Nat /\ n % w \in 0 .. (w - 1)
         /\ n = w * (n \div w) + (n % w)
OBVIOUS

\* The quotient stays below a factor.
LEMMA QuotientBound ==
  ASSUME NEW n \in Nat, NEW w \in Nat \ {0}, NEW l \in Nat, n < l * w
  PROVE  n \div w < l
<1>1. n \div w \in Nat /\ n % w >= 0 /\ n = w * (n \div w) + (n % w)
  BY Division
<1> DEFINE q == n \div w
<1>2. q \in Nat /\ w * q <= n
  BY <1>1
<1> HIDE DEF q
<1>3. ASSUME q >= l PROVE FALSE
  <2>1. w * q >= w * l
    BY <1>2, <1>3
  <2> QED BY <1>2, <2>1
<1>4. q < l
  BY <1>2, <1>3
<1> QED BY <1>4 DEF q

\* The i-th key of a lookup: the hash of a chunk and a rank.
LEMMA LookupKey ==
  ASSUME NEW r \in Requests
  PROVE  /\ Len(Prompt[r]) \in Nat
         /\ Len(LookupKeys(r)) = Len(Prompt[r]) * WorldSize
         /\ LookupKeys(r) \in Seq(Keys)
         /\ \A i \in 1 .. (Len(Prompt[r]) * WorldSize) :
              /\ (i - 1) \div WorldSize \in Nat /\ (i - 1) \div WorldSize < Len(Prompt[r])
              /\ LookupKeys(r)[i] = <<Prompt[r][(i - 1) \div WorldSize + 1], (i - 1) % WorldSize>>
<1> DEFINE p == Prompt[r]
           L == Len(p) * WorldSize
<1>1. p \in Seq(Range(p)) /\ Range(p) \X (0 .. (WorldSize - 1)) \subseteq Keys
  BY ServerAssumption
<1>2. WorldSize \in Nat \ {0}
  BY ServerAssumption
<1>3. Len(p) \in Nat /\ \A i \in 1 .. Len(p) : p[i] \in Range(p)
  BY <1>1
<1>4. Len(AllRanks) = WorldSize /\ \A i \in 1 .. WorldSize : AllRanks[i] = i - 1
  <2>1. \A i \in 1 .. WorldSize : i - 1 \in Int
    BY <1>2
  <2>2. AllRanks \in Seq(Int)
    BY <1>2, <2>1 DEF AllRanks
  <2>3. DOMAIN AllRanks = 1 .. WorldSize
    BY DEF AllRanks
  <2> QED BY <1>2, <2>2, <2>3 DEF AllRanks
<1>5. L \in Nat
  BY <1>2, <1>3
<1>6. \A i \in 1 .. L :
        /\ (i - 1) \div WorldSize \in Nat /\ (i - 1) \div WorldSize < Len(p)
        /\ (i - 1) % WorldSize \in 0 .. (WorldSize - 1)
  <2> TAKE i \in 1 .. L
  <2>1. i - 1 \in Nat /\ i - 1 < Len(p) * WorldSize
    BY <1>5
  <2> QED BY <1>2, <1>3, <2>1, Division, QuotientBound
<1>7. LookupKeys(r) = [i \in 1 .. L |->
        <<p[((i - 1) \div WorldSize) + 1], AllRanks[((i - 1) % WorldSize) + 1]>>]
  BY <1>4 DEF LookupKeys, keys_for
<1> HIDE DEF L
<1>8. \A i \in 1 .. L : LookupKeys(r)[i] = <<p[((i - 1) \div WorldSize) + 1], (i - 1) % WorldSize>>
  <2> TAKE i \in 1 .. L
  <2>1. ((i - 1) % WorldSize) + 1 \in 1 .. WorldSize
    BY <1>2, <1>6
  <2>2. AllRanks[((i - 1) % WorldSize) + 1] = (i - 1) % WorldSize
    BY <1>2, <1>4, <1>6, <2>1
  <2> QED BY <1>7, <2>2
<1>9. \A i \in 1 .. L : LookupKeys(r)[i] \in Keys
  <2> TAKE i \in 1 .. L
  <2>1. ((i - 1) \div WorldSize) + 1 \in 1 .. Len(p)
    BY <1>3, <1>6
  <2>2. p[((i - 1) \div WorldSize) + 1] \in Range(p)
    BY <1>3, <2>1
  <2> QED BY <1>1, <1>6, <1>8, <2>2
<1>10. LookupKeys(r) \in Seq(Keys) /\ Len(LookupKeys(r)) = L
  <2>1. LookupKeys(r) = [i \in 1 .. L |-> LookupKeys(r)[i]]
    BY <1>7
  <2> QED BY <1>5, <1>9, <2>1
<1> QED BY <1>3, <1>6, <1>8, <1>10 DEF L

\* The keys of a lookup are distinct.
LEMMA LookupKeysDiffer ==
  ASSUME NEW r \in Requests
  PROVE  IsInjective(LookupKeys(r))
<1> DEFINE L == Len(Prompt[r]) * WorldSize
           K == LookupKeys(r)
<1>1. WorldSize \in Nat \ {0} /\ IsInjective(Prompt[r]) /\ Prompt[r] \in Seq(Range(Prompt[r]))
  BY ServerAssumption
<1>2. /\ K \in Seq(Keys) /\ Len(K) = L /\ Len(Prompt[r]) \in Nat
      /\ \A i \in 1 .. L :
           /\ (i - 1) \div WorldSize \in Nat /\ (i - 1) \div WorldSize < Len(Prompt[r])
           /\ K[i] = <<Prompt[r][(i - 1) \div WorldSize + 1], (i - 1) % WorldSize>>
  BY LookupKey
<1>3. L \in Nat
  BY <1>1, <1>2
<1> HIDE DEF L, K
<1>4. ASSUME NEW i \in 1 .. L, NEW j \in 1 .. L, K[i] = K[j] PROVE i = j
  <2>1. /\ Prompt[r][(i - 1) \div WorldSize + 1] = Prompt[r][(j - 1) \div WorldSize + 1]
        /\ (i - 1) % WorldSize = (j - 1) % WorldSize
    BY <1>2, <1>4
  <2>2. /\ (i - 1) \div WorldSize + 1 \in 1 .. Len(Prompt[r])
        /\ (j - 1) \div WorldSize + 1 \in 1 .. Len(Prompt[r])
    BY <1>2
  <2>3. (i - 1) \div WorldSize + 1 = (j - 1) \div WorldSize + 1
    BY <1>1, <2>1, <2>2, InjectiveIs
  <2>4. (i - 1) \div WorldSize = (j - 1) \div WorldSize
    BY <1>2, <2>3
  <2>5. i - 1 \in Nat /\ j - 1 \in Nat
    BY <1>3
  <2>6. /\ i - 1 = WorldSize * ((i - 1) \div WorldSize) + ((i - 1) % WorldSize)
        /\ j - 1 = WorldSize * ((j - 1) \div WorldSize) + ((j - 1) % WorldSize)
    BY <1>1, <2>5, Division
  <2>7. i - 1 = j - 1
    BY <2>1, <2>4, <2>6
  <2> QED BY <1>3, <2>7
<1>5. IsInjective(K)
  BY <1>2, <1>4, InjectiveIs
<1> QED BY <1>5 DEF K

\* The keys of a transfer: chunks start + 1 to end of one rank.
LEMMA OpKeys ==
  ASSUME NEW r \in Requests, NEW rank \in Ranks, NEW start \in Nat, NEW end \in Nat,
         start <= end, end <= Len(Prompt[r])
  PROVE  /\ op_keys(r, rank, start, end) \in Seq(Keys)
         /\ Len(op_keys(r, rank, start, end)) = end - start
         /\ \A i \in 1 .. (end - start) :
              op_keys(r, rank, start, end)[i] = <<Prompt[r][start + i], rank>>
         /\ IsInjective(op_keys(r, rank, start, end))
<1> DEFINE p == Prompt[r]
           s == SubSeq(p, start + 1, end)
           n == end - start
           K == op_keys(r, rank, start, end)
<1>1. p \in Seq(Range(p)) /\ Range(p) \X (0 .. (WorldSize - 1)) \subseteq Keys /\ IsInjective(p)
  BY ServerAssumption
<1>2. /\ s \in Seq(Range(p)) /\ Len(s) = n /\ IsInjective(s)
      /\ \A i \in 1 .. n : s[i] = p[start + i]
  BY <1>1, PartOf
<1>3. n \in Nat /\ n * 1 = n /\ \A i \in 1 .. n : ((i - 1) \div 1) + 1 = i /\ ((i - 1) % 1) + 1 = 1
  OBVIOUS
<1>4. Len(<<rank>>) = 1 /\ <<rank>>[1] = rank
  OBVIOUS
<1>5. K = [i \in 1 .. (n * 1) |-> <<s[((i - 1) \div 1) + 1], <<rank>>[((i - 1) % 1) + 1]>>]
  BY <1>2, <1>4 DEF op_keys, keys_for
<1> HIDE DEF K, s, n, p
<1>6. K = [i \in 1 .. n |-> <<s[i], rank>>]
  BY <1>3, <1>4, <1>5
<1>7. \A i \in 1 .. n : s[i] \in Range(p) /\ <<s[i], rank>> \in Keys
  BY <1>1, <1>2 DEF Ranks
<1>8. K \in Seq(Keys) /\ Len(K) = n
  BY <1>3, <1>6, <1>7
<1>9. \A i, j \in 1 .. n : K[i] = K[j] => i = j
  <2>1. \A i, j \in 1 .. n : s[i] = s[j] => i = j
    BY <1>2, InjectiveIs
  <2> QED BY <1>6, <2>1
<1>10. IsInjective(K)
  BY <1>8, <1>9, InjectiveIs
<1> QED BY <1>2, <1>6, <1>8, <1>10 DEF K, n, p

-----------------------------------------------------------------------------

(***************************************************************************)
(* What the contract gives.                                                *)
(***************************************************************************)

\* The assumptions of the contract hold for the server's clients.
LEMMA ContractAssumptions ==
  /\ L1!IsFiniteSet(Keys) /\ L1!IsFiniteSet(L1Clients)
  /\ {LookupKeys(r) : r \in Requests} \cup {<<>>} \subseteq Seq(Keys)
<1>1. IsFiniteSet(Keys)
  BY PoolAssumption
<1>2. IsFiniteSet(L1Clients)
  <2>1. IsFiniteSet(Requests)
    BY ServerAssumption
  <2> QED BY <2>1, FS_AddElement DEF L1Clients
<1>3. ASSUME NEW S, IsFiniteSet(S) PROVE L1!IsFiniteSet(S)
  BY <1>3 DEF IsFiniteSet, L1!IsFiniteSet
<1>4. \A r \in Requests : LookupKeys(r) \in Seq(Keys)
  BY LookupKey
<1>5. <<>> \in Seq(Keys)
  OBVIOUS
<1>6. {LookupKeys(r) : r \in Requests} \cup {<<>>} \subseteq Seq(Keys)
  BY <1>4, <1>5
<1> QED BY <1>1, <1>2, <1>3, <1>6

\* A step of the contract keeps its invariant, and the slice of an entry
\* that stays.
LEMMA ContractStep ==
  ASSUME L1!IInv, [L1!Next]_(L1!vars)
  PROVE  /\ L1!IInv'
         /\ \A k \in DOMAIN entries : k \in DOMAIN entries' => entries'[k].obj = entries[k].obj
<1>1. L1!IInv'
  BY ContractAssumptions, PoolAssumption, L1!NextPreserves
<1>2. ASSUME NEW k \in DOMAIN entries, k \in DOMAIN entries' PROVE entries'[k].obj = entries[k].obj
  BY <1>2, ContractAssumptions, PoolAssumption, L1!SliceKept
<1> QED BY <1>1, <1>2

\* What the invariant of the contract says of the entries.
LEMMA ContractFacts ==
  ASSUME L1!IInv
  PROVE  /\ pool \in [0 .. (Capacity - 1) -> Keys \cup {Junk}]
         /\ entries \in [DOMAIN entries -> Entry] /\ DOMAIN entries \subseteq Keys
         /\ \A k \in DOMAIN entries :
              /\ entries[k].obj \in MemoryObj
              /\ Slice(entries[k].obj) \subseteq DOMAIN pool /\ Slice(entries[k].obj) # {}
         /\ \A k, l \in DOMAIN entries :
              k # l => Slice(entries[k].obj) \cap Slice(entries[l].obj) = {}
         /\ \A c \in L1Clients : \A k \in Holds[c] : readable(k)
         /\ \A c \in L1Clients : \A k \in Writing[c] :
              k \in DOMAIN entries /\ entries[k].write_locked
         /\ \A c, d \in L1Clients : \A k \in Writing[c] : k \in Writing[d] => d = c
         /\ \A k \in DOMAIN entries : readable(k) => HasBytes(entries[k].obj, k)
<1>1. L1!TypeOK /\ L1!SlicesDisjoint /\ L1!CountsMatchHolds /\ L1!WriterExclusive /\ L1!ReadableIsComplete
  BY DEF L1!IInv
<1>2. /\ pool \in [0 .. (Capacity - 1) -> Keys \cup {Junk}]
      /\ brk \in 0 .. Capacity
      /\ entries \in [DOMAIN entries -> Entry] /\ DOMAIN entries \subseteq Keys
  BY <1>1 DEF L1!TypeOK, L1!Entry, Entry, L1!MemoryObj, MemoryObj
<1>3. \A k \in DOMAIN entries :
        /\ entries[k].obj \in MemoryObj
        /\ entries[k].obj.offset \in Nat /\ entries[k].obj.nbytes \in Nat \ {0}
  BY <1>2, PoolAssumption DEF Entry, MemoryObj
<1>4. \A k \in DOMAIN entries : entries[k].obj.offset + entries[k].obj.nbytes <= brk
  BY <1>1 DEF L1!SlicesDisjoint, L1!Live
<1>5. \A k \in DOMAIN entries :
        Slice(entries[k].obj) \subseteq DOMAIN pool /\ Slice(entries[k].obj) # {}
  <2> TAKE k \in DOMAIN entries
  <2> DEFINE o == entries[k].obj.offset
             n == entries[k].obj.nbytes
  <2>1. o \in Nat /\ n \in Nat \ {0} /\ o + n <= Capacity /\ Capacity \in Nat
    BY <1>2, <1>3, <1>4, PoolAssumption
  <2>2. Slice(entries[k].obj) = o .. (o + n - 1)
    BY DEF Slice
  <2> HIDE DEF o, n
  <2>3. \A b \in o .. (o + n - 1) : b \in 0 .. (Capacity - 1)
    BY <2>1
  <2>4. o \in o .. (o + n - 1)
    BY <2>1
  <2> QED BY <1>2, <2>2, <2>3, <2>4
<1>6. \A k, l \in DOMAIN entries :
        k # l => Slice(entries[k].obj) \cap Slice(entries[l].obj) = {}
  <2> TAKE k, l \in DOMAIN entries
  <2> HAVE k # l
  <2>1. L1!Apart(entries[k].obj, entries[l].obj)
    BY <1>1 DEF L1!SlicesDisjoint
  <2> QED BY <1>3, <2>1 DEF L1!Apart, Slice
<1>7. /\ \A c \in L1Clients : \A k \in Holds[c] : readable(k)
      /\ \A c \in L1Clients : \A k \in Writing[c] :
           k \in DOMAIN entries /\ entries[k].write_locked
      /\ \A c, d \in L1Clients : \A k \in Writing[c] : k \in Writing[d] => d = c
  BY <1>1 DEF L1!CountsMatchHolds, L1!WriterExclusive, readable, L1!readable
<1>8. \A k \in DOMAIN entries : readable(k) => HasBytes(entries[k].obj, k)
  BY <1>1 DEF L1!ReadableIsComplete, readable, L1!readable, HasBytes, L1!HasBytes, Slice, L1!Slice
<1> QED BY <1>2, <1>3, <1>5, <1>6, <1>7, <1>8

\* The entries stay well formed.
LEMMA EntriesTyped ==
  ASSUME L1!IInv, [L1!Next]_(L1!vars)
  PROVE  entries' \in [DOMAIN entries' -> Entry]
<1>1. L1!IInv'
  BY ContractStep
<1>2. L1!TypeOK'
  BY <1>1 DEF L1!IInv
<1> QED BY <1>2 DEF L1!TypeOK, L1!Entry, Entry, L1!MemoryObj, MemoryObj

\* A chunk that is complete and stays is complete: nobody writes other bytes
\* to its slice.
LEMMA BytesStay ==
  ASSUME L1!IInv, [L1!Next]_(L1!vars), NEW k \in DOMAIN entries, k \in DOMAIN entries',
         HasBytes(entries[k].obj, k)
  PROVE  HasBytes(entries[k].obj, k)'
<1>1. entries'[k].obj = entries[k].obj
  BY ContractStep
<1>2. CASE pool' = pool
  BY <1>1, <1>2 DEF HasBytes
<1>3. CASE \E c \in L1Clients, l \in Keys : L1!Fill(c, l)
  <2>1. PICK c \in L1Clients, l \in Keys : L1!Fill(c, l)
    BY <1>3
  <2>2. /\ l \in Writing[c]
        /\ pool' = [b \in DOMAIN pool |-> IF b \in L1!Slice(entries[l].obj) THEN l ELSE pool[b]]
    BY <2>1 DEF L1!Fill, L1!write_bytes
  <2>3. L1!Slice(entries[l].obj) = Slice(entries[l].obj)
    BY DEF L1!Slice, Slice
  <2>4. /\ l \in DOMAIN entries /\ Slice(entries[k].obj) \subseteq DOMAIN pool
        /\ k # l => Slice(entries[k].obj) \cap Slice(entries[l].obj) = {}
    BY <2>2, ContractFacts
  <2>5. \A b \in Slice(entries[k].obj) : pool[b] = k
    BY DEF HasBytes
  <2>6. \A b \in Slice(entries[k].obj) : pool'[b] = k
    BY <2>2, <2>3, <2>4, <2>5
  <2> QED BY <1>1, <2>6 DEF HasBytes
<1>4. pool' = pool \/ \E c \in L1Clients, l \in Keys : L1!Fill(c, l)
  BY ContractAssumptions, PoolAssumption, L1!OnlyFillWrites
<1> QED BY <1>2, <1>3, <1>4

-----------------------------------------------------------------------------

(***************************************************************************)
(* Who owns a chunk.                                                       *)
(***************************************************************************)
HandlerWrites(r, k) == \E h \in handlers : h.rid = r /\ Writes(h) /\ k \in Range(h.keys)
HandlerDrops(r, k) == \E h \in handlers : h.rid = r /\ Drops(h) /\ k \in Range(h.keys)

\* The keys of some handlers.
LEMMA InKeysOf ==
  ASSUME NEW H, NEW k
  PROVE  k \in KeysOf(H) <=> \E h \in H : k \in Range(h.keys)
BY DEF KeysOf

\* What is being written for a request: by a handler, or by the prefetch.
LEMMA WritingIs ==
  ASSUME NEW r
  PROVE  \A k : k \in WritingFor(r) <=>
                  HandlerWrites(r, k) \/ (pf.rid = r /\ k \in Range(pf.load))
<1> DEFINE H == {h \in handlers : h.rid = r /\ h.kind = "STORE" /\ h.pc \in {"copy", "finish"}}
<1>1. \A k : k \in KeysOf(H) <=> HandlerWrites(r, k)
  BY InKeysOf DEF HandlerWrites, Writes
<1>2. WritingFor(r) = KeysOf(H) \cup (IF pf.rid = r THEN Range(pf.load) ELSE {})
  BY DEF WritingFor, KeysOf
<1> HIDE DEF H
<1> QED BY <1>1, <1>2

\* The same after a step.
LEMMA WritingIsNext ==
  ASSUME NEW r
  PROVE  \A k : k \in WritingFor(r)' <=>
                  HandlerWrites(r, k)' \/ (pf'.rid = r /\ k \in Range(pf'.load))
<1> DEFINE H == {h \in handlers' : h.rid = r /\ h.kind = "STORE" /\ h.pc \in {"copy", "finish"}}
<1>1. \A k : k \in KeysOf(H) <=> HandlerWrites(r, k)'
  BY InKeysOf DEF HandlerWrites, Writes
<1>2. WritingFor(r)' = KeysOf(H) \cup (IF pf'.rid = r THEN Range(pf'.load) ELSE {})
  BY DEF WritingFor, KeysOf
<1> HIDE DEF H
<1> QED BY <1>1, <1>2

\* What is held for a request: by its session, the prefetch, a handler or nobody.
LEMMA HeldIs ==
  ASSUME NEW r
  PROVE  \A k : k \in HeldFor(r) <=>
                  \/ k \in Range(held[r]) \/ k \in lost[r]
                  \/ pf.rid = r /\ k \in Range(pf.hit)
                  \/ HandlerDrops(r, k)
<1> DEFINE H == {h \in handlers : h.rid = r /\ h.kind # "STORE" /\ h.pc = "finish"}
<1>1. \A k : k \in KeysOf(H) <=> HandlerDrops(r, k)
  BY InKeysOf DEF HandlerDrops, Drops
<1>2. HeldFor(r) = Range(held[r]) \cup (IF pf.rid = r THEN Range(pf.hit) ELSE {})
                     \cup KeysOf(H) \cup lost[r]
  BY DEF HeldFor, KeysOf
<1> HIDE DEF H
<1> QED BY <1>1, <1>2

\* The same after a step.
LEMMA HeldIsNext ==
  ASSUME NEW r
  PROVE  \A k : k \in HeldFor(r)' <=>
                  \/ k \in Range(held'[r]) \/ k \in lost'[r]
                  \/ pf'.rid = r /\ k \in Range(pf'.hit)
                  \/ HandlerDrops(r, k)'
<1> DEFINE H == {h \in handlers' : h.rid = r /\ h.kind # "STORE" /\ h.pc = "finish"}
<1>1. \A k : k \in KeysOf(H) <=> HandlerDrops(r, k)'
  BY InKeysOf DEF HandlerDrops, Drops
<1>2. HeldFor(r)' = Range(held'[r]) \cup (IF pf'.rid = r THEN Range(pf'.hit) ELSE {})
                     \cup KeysOf(H) \cup lost'[r]
  BY DEF HeldFor, KeysOf
<1> HIDE DEF H
<1> QED BY <1>1, <1>2

\* The owners, as the contract sees them.
LEMMA Owners ==
  /\ Writing = [c \in L1Clients |-> IF c = StoreThread THEN {} ELSE WritingFor(c)]
  /\ Holds = [c \in L1Clients |-> IF c = StoreThread THEN Range(st.keys) ELSE HeldFor(c)]
  /\ Writing' = [c \in L1Clients |-> IF c = StoreThread THEN {} ELSE WritingFor(c)']
  /\ Holds' = [c \in L1Clients |-> IF c = StoreThread THEN Range(st'.keys) ELSE HeldFor(c)']
  /\ L1Clients = Requests \cup {StoreThread}
  /\ StoreThread \notin Requests
BY ServerAssumption DEF Writing, Holds, L1Clients

\* No request's writes change.
LEMMA SameWriting ==
  ASSUME \A r \in Requests : WritingFor(r)' = WritingFor(r)
  PROVE  Writing' = Writing
<1>1. \A c \in L1Clients : (IF c = StoreThread THEN {} ELSE WritingFor(c)') =
                           (IF c = StoreThread THEN {} ELSE WritingFor(c))
  BY Owners
<1> QED BY <1>1, Owners

\* Nobody's holds change.
LEMMA SameHolds ==
  ASSUME \A r \in Requests : HeldFor(r)' = HeldFor(r), st' = st
  PROVE  Holds' = Holds
<1>1. \A c \in L1Clients : (IF c = StoreThread THEN Range(st'.keys) ELSE HeldFor(c)') =
                           (IF c = StoreThread THEN Range(st.keys) ELSE HeldFor(c))
  BY Owners
<1> QED BY <1>1, Owners

\* One request's chunks change.
LEMMA WritingChanges ==
  ASSUME NEW r \in Requests, NEW K, WritingFor(r)' = K,
         \A q \in Requests : q # r => WritingFor(q)' = WritingFor(q)
  PROVE  Writing' = [Writing EXCEPT ![r] = K] /\ r \in L1Clients /\ Writing[r] = WritingFor(r)
<1>1. r \in L1Clients /\ r # StoreThread
  BY Owners
<1>2. \A c \in L1Clients : Writing'[c] = IF c = r THEN K ELSE Writing[c]
  BY <1>1, Owners
<1> QED BY <1>1, <1>2, Owners

\* The holds of one request change.
LEMMA HoldsChange ==
  ASSUME NEW r \in Requests, NEW K, HeldFor(r)' = K, Range(st'.keys) = Range(st.keys),
         \A q \in Requests : q # r => HeldFor(q)' = HeldFor(q)
  PROVE  Holds' = [Holds EXCEPT ![r] = K] /\ r \in L1Clients /\ Holds[r] = HeldFor(r)
<1>1. r \in L1Clients /\ r # StoreThread
  BY Owners
<1>2. \A c \in L1Clients : Holds'[c] = IF c = r THEN K ELSE Holds[c]
  BY <1>1, Owners
<1> QED BY <1>1, <1>2, Owners

\* A step that leaves L1 and its owners alone is none of the contract's.
LEMMA NoL1Step ==
  ASSUME UNCHANGED l1Vars, Writing' = Writing, Holds' = Holds
  PROVE  [L1!Next]_(L1!vars)
BY DEF L1!vars, L1!l1Vars, L1!poolVars, L1!ownerVars, l1Vars, poolVars

\* What a request owns depends on the handlers that own something.
LEMMA OwnersStay ==
  ASSUME UNCHANGED <<held, lost>>, pf'.rid = pf.rid, pf'.hit = pf.hit, pf'.load = pf.load,
         \A r \in Requests : \A k : HandlerWrites(r, k)' <=> HandlerWrites(r, k),
         \A r \in Requests : \A k : HandlerDrops(r, k)' <=> HandlerDrops(r, k)
  PROVE  \A r \in Requests : WritingFor(r)' = WritingFor(r) /\ HeldFor(r)' = HeldFor(r)
<1> TAKE r \in Requests
<1>1. \A k : k \in WritingFor(r)' <=> k \in WritingFor(r)
  BY WritingIs, WritingIsNext
<1>2. \A k : k \in HeldFor(r)' <=> k \in HeldFor(r)
  BY HeldIs, HeldIsNext
<1> QED BY <1>1, <1>2

-----------------------------------------------------------------------------

(***************************************************************************)
(* Steps of the contract, in the server's own terms.                       *)
(***************************************************************************)
LEMMA DoFinishRead ==
  ASSUME NEW c \in L1Clients, NEW keys \in SUBSET Keys, keys \subseteq Holds[c], finish_read(keys),
         Holds' = [Holds EXCEPT ![c] = Holds[c] \ keys], Writing' = Writing
  PROVE  [L1!Next]_(L1!vars)
<1>1. L1!FinishRead(c, keys)
  BY SameFinishRead DEF L1!FinishRead, L1!Disown
<1> QED BY <1>1 DEF L1!Next

\* promote is a step of the contract.
LEMMA DoPromote ==
  ASSUME NEW keys \in SUBSET Keys, promote(keys), Holds' = Holds, Writing' = Writing
  PROVE  [L1!Next]_(L1!vars)
<1>1. L1!Promote(keys)
  BY SamePromote DEF L1!Promote, L1!ownerVars
<1> QED BY <1>1 DEF L1!Next

\* The evictor's delete is a step of the contract.
LEMMA DoEvict ==
  ASSUME NEW keys \in SUBSET Keys, delete(keys, FALSE), Holds' = Holds, Writing' = Writing
  PROVE  [L1!Next]_(L1!vars)
<1>1. L1!Evict(keys)
  BY SameDelete DEF L1!Evict, L1!ownerVars
<1> QED BY <1>1 DEF L1!Next

\* A forced delete of one's own writes is a step of the contract.
LEMMA DoDiscard ==
  ASSUME NEW c \in L1Clients, NEW keys \in SUBSET Keys, keys \subseteq Writing[c], delete(keys, TRUE),
         Writing' = [Writing EXCEPT ![c] = Writing[c] \ keys], Holds' = Holds
  PROVE  [L1!Next]_(L1!vars)
<1>1. L1!Discard(c, keys)
  BY SameDelete DEF L1!Discard, L1!Disown
<1> QED BY <1>1 DEF L1!Next

\* A refused reservation is a step of the contract.
LEMMA DoReserveWriteNone ==
  ASSUME NEW keys \in SUBSET Keys, reserve_write_none(keys, ChunkNBytes),
         Holds' = Holds, Writing' = Writing
  PROVE  [L1!Next]_(L1!vars)
<1>1. L1!ReserveWriteNone(keys, ChunkNBytes)
  BY SameReserveWriteNone DEF L1!ReserveWriteNone, L1!ownerVars
<1>2. ChunkNBytes \in Sizes
  BY RequestAssumption
<1> QED BY <1>1, <1>2 DEF L1!Next

\* A reservation is a step of the contract.
LEMMA DoReserveWrite ==
  ASSUME NEW c \in L1Clients, NEW keys \in SUBSET Keys, NEW is_temporary \in BOOLEAN,
         reserve_write(keys, ChunkNBytes, is_temporary),
         Writing' = [Writing EXCEPT ![c] = Writing[c] \cup Missing(keys)], Holds' = Holds
  PROVE  [L1!Next]_(L1!vars)
<1>1. L1!ReserveWrite(c, keys, ChunkNBytes, is_temporary)
  BY SameReserveWrite DEF L1!ReserveWrite, L1!Own, Missing, L1!Missing
<1>2. ChunkNBytes \in Sizes
  BY RequestAssumption
<1> QED BY <1>1, <1>2 DEF L1!Next

\* Filling a slice one reserved is a step of the contract.
LEMMA DoFill ==
  ASSUME NEW c \in L1Clients, NEW k \in Keys, k \in Writing[c], write_bytes(entries[k].obj, k),
         UNCHANGED <<allocVars, entries>>, Writing' = Writing, Holds' = Holds
  PROVE  [L1!Next]_(L1!vars)
<1>1. L1!Fill(c, k)
  BY DEF L1!Fill, L1!write_bytes, write_bytes, L1!Slice, Slice, L1!ownerVars, L1!allocVars, allocVars
<1> QED BY <1>1 DEF L1!Next

\* finish_write of whole chunks one reserved is a step of the contract.
LEMMA DoFinishWrite ==
  ASSUME NEW c \in L1Clients, NEW keys \in SUBSET Keys, keys \subseteq Writing[c],
         \A k \in keys : HasBytes(entries[k].obj, k) /\ ~entries[k].is_temporary,
         finish_write(keys),
         Writing' = [Writing EXCEPT ![c] = Writing[c] \ keys], Holds' = Holds
  PROVE  [L1!Next]_(L1!vars)
<1>1. L1!Filled(keys)
  BY DEF L1!Filled, L1!HasBytes, HasBytes, L1!Slice, Slice
<1>2. L1!FinishWrite(c, keys)
  BY <1>1, SameFinishWrite DEF L1!FinishWrite, L1!Disown
<1> QED BY <1>2 DEF L1!Next

\* Publishing loaded chunks with a hold is a step of the contract.
LEMMA DoPublish ==
  ASSUME NEW c \in L1Clients, NEW keys \in SUBSET Keys, keys \subseteq Writing[c],
         \A k \in keys : HasBytes(entries[k].obj, k),
         finish_write_and_reserve_read(keys),
         Writing' = [Writing EXCEPT ![c] = Writing[c] \ keys],
         Holds' = [Holds EXCEPT ![c] = Holds[c] \cup keys]
  PROVE  [L1!Next]_(L1!vars)
<1>1. L1!Filled(keys)
  BY DEF L1!Filled, L1!HasBytes, HasBytes, L1!Slice, Slice
<1>2. L1!FinishWriteAndReserveRead(c, keys)
  BY <1>1, SamePublish DEF L1!FinishWriteAndReserveRead, L1!Disown, L1!Own
<1> QED BY <1>2 DEF L1!Next

\* Taking holds is a step of the contract.
LEMMA DoReserveRead ==
  ASSUME NEW c \in L1Clients, NEW keys \in SUBSET Keys, keys \cap Holds[c] = {}, reserve_read(keys),
         Holds' = [Holds EXCEPT ![c] = Holds[c] \cup Reservable(keys)], Writing' = Writing
  PROVE  [L1!Next]_(L1!vars)
<1>1. L1!ReserveRead(c, keys)
  BY SameReserveRead DEF L1!ReserveRead, L1!Own, Reservable, L1!Reservable, readable, L1!readable
<1> QED BY <1>1 DEF L1!Next

\* Taking holds on the readable prefix is a step of the contract.
LEMMA DoReserveReadPrefix ==
  ASSUME NEW c \in L1Clients, NEW list \in {LookupKeys(r) : r \in Requests} \cup {<<>>},
         PrefixKeys(list) \cap Holds[c] = {}, reserve_read_prefix(list),
         Holds' = [Holds EXCEPT ![c] = Holds[c] \cup PrefixKeys(list)], Writing' = Writing
  PROVE  [L1!Next]_(L1!vars)
<1>1. L1!reserve_read_prefix(list)
  BY SameReserveRead, SamePrefixKeys DEF L1!reserve_read_prefix, reserve_read_prefix
<1>2. L1!ReserveReadPrefix(c, list)
  BY <1>1, SamePrefixKeys DEF L1!ReserveReadPrefix, L1!Own
<1> QED BY <1>2 DEF L1!Next

-----------------------------------------------------------------------------

(***************************************************************************)
(* The connectors.                                                         *)
(***************************************************************************)

\* The parts of the invariant that speak of the threads and adapters only.
LEMMA ThreadsStay ==
  ASSUME ProtoInv, UNCHANGED smVars
  PROVE  ThreadType' /\ AdapterType' /\ PfInv' /\ StInv' /\ TaskInv' /\ FutureInv'
<1>1. UNCHANGED <<order, jobs, hits, held, pf, pending, st, ev, stored, tasks, futures>>
  BY DEF smVars, prefetchVars, storeVars, l2Vars
<1>2. ThreadType' /\ AdapterType'
  BY <1>1 DEF ProtoInv, TypeInv, ThreadType, AdapterType
<1>3. PfInv' /\ StInv'
  BY <1>1 DEF ProtoInv, PfInv, StInv
<1>4. TaskInv' /\ FutureInv'
  BY <1>1 DEF ProtoInv, TaskInv, TaskOf, FutureInv
<1> QED BY <1>2, <1>3, <1>4

\* New handlers own nothing.
LEMMA SpawnOwners ==
  ASSUME NEW new, Spawn(new), \A g \in new : g.pc = "start"
  PROVE  /\ \A r, k : HandlerWrites(r, k)' <=> HandlerWrites(r, k)
         /\ \A r, k : HandlerDrops(r, k)' <=> HandlerDrops(r, k)
<1>1. \A g \in new : ~Writes(g) /\ ~Drops(g)
  BY DEF Writes, Drops
<1>2. handlers' = handlers \cup new
  BY DEF Spawn
<1> QED BY <1>1, <1>2 DEF HandlerWrites, HandlerDrops

\* A connector sends some requests.
LEMMA SpawnStep ==
  ASSUME Inv, NEW new, Spawn(new), UNCHANGED <<smVars, lost>>, new \subseteq HandlerRec,
         \A g \in new : g.pc = "start" /\ IsInjective(g.keys),
         cl' \in [Requests -> TrackerRec], OnceInv', AheadInv',
         \A r \in Requests : cl'[r].lm <= Len(Prompt[r])
  PROVE  [L1!Next]_(L1!vars) /\ ProtoInv'
<1>0. UNCHANGED <<l1Vars, held, pf, st, lost>> /\ handlers' = handlers \cup new
  BY DEF smVars, prefetchVars, storeVars, Spawn
<1>1. [L1!Next]_(L1!vars)
  <2>1. \A r \in Requests : WritingFor(r)' = WritingFor(r) /\ HeldFor(r)' = HeldFor(r)
    BY <1>0, SpawnOwners, OwnersStay
  <2>2. Writing' = Writing /\ Holds' = Holds
    BY <1>0, <2>1, SameWriting, SameHolds
  <2> QED BY <1>0, <2>2, NoL1Step
<1>2. \A g \in new : ~Writes(g) /\ ~Drops(g)
  BY DEF Writes, Drops
<1>3. ServerType'
  BY <1>0 DEF Inv, ProtoInv, TypeInv, ServerType
<1>4. HoldInv'
  BY <1>0, <1>2 DEF Inv, ProtoInv, HoldInv
<1>5. WriteInv'
  BY <1>0, <1>2 DEF Inv, ProtoInv, WriteInv
<1>6. PrefixInv'
  <2>1. UNCHANGED <<pf, hits>>
    BY DEF smVars, prefetchVars
  <2> QED BY <2>1 DEF Inv, ProtoInv, PrefixInv
<1> QED BY <1>1, <1>3, <1>4, <1>5, <1>6, ThreadsStay DEF Inv, ProtoInv, TypeInv

\* The same, for a request that has sent its lookup.
LEMMA ClientStep ==
  ASSUME Inv, NEW r \in Requests, NEW new, NEW c \in TrackerRec,
         Spawn(new), UNCHANGED <<smVars, lost>>, new \subseteq HandlerRec,
         \A g \in new : g.pc = "start" /\ IsInjective(g.keys) /\ g.rid = r /\ g.kind # "LOOKUP",
         cl' = [cl EXCEPT ![r] = c], cl[r].pc # "new", c.pc # "new", c.lm <= Len(Prompt[r]),
         c.pc \in {"load", "loading"} => c.lm > c.vllm,
         Ahead(r) => /\ c.lm = 0
                     /\ \A g \in new : g.kind = "STORE" \/ (g.kind = "END" /\ g.keys = <<>>)
  PROVE  [L1!Next]_(L1!vars) /\ ProtoInv'
<1>0. /\ UNCHANGED <<pf, jobs, hits, held, lost>> /\ handlers' = handlers \cup new
      /\ cl \in [Requests -> TrackerRec]
  BY DEF smVars, prefetchVars, Spawn, Inv, ProtoInv, TypeInv, ServerType
<1>1. cl' \in [Requests -> TrackerRec] /\ cl'[r] = c /\ \A q \in Requests : q # r => cl'[q] = cl[q]
  BY <1>0
<1>2. \A q \in Requests : (Queued(q)' <=> Queued(q)) /\ (LookedUp(q)' <=> LookedUp(q))
  <2>1. \A q \in Requests : Handler("LOOKUP", q, 0) \notin new
    BY DEF Handler
  <2> QED BY <1>0, <2>1 DEF Queued, LookedUp
<1>3. \A q \in Requests : Ahead(q)' <=> Ahead(q)
  BY <1>0, <1>1, <1>2 DEF Ahead
<1>4. OnceInv'
  <2>1. \A q \in Requests : cl'[q].pc = "new" =>
          pf'.rid # q /\ ~Queued(q)' /\ \A h \in handlers' : h.rid # q
    BY <1>0, <1>1, <1>2 DEF Inv, ProtoInv, OnceInv
  <2>2. \A h \in handlers' : h.kind = "LOOKUP" => h \in handlers /\ h.rid \in Requests
    BY <1>0 DEF Inv, ProtoInv, TypeInv, ServerType, HandlerRec
  <2>3. \A h \in handlers' : h.kind = "LOOKUP" =>
          h = Handler("LOOKUP", h.rid, 0) /\ pf'.rid # h.rid /\ ~Queued(h.rid)'
    BY <1>0, <1>2, <2>2 DEF Inv, ProtoInv, OnceInv
  <2> QED BY <1>0, <2>1, <2>3 DEF Inv, ProtoInv, OnceInv
<1>5. AheadInv'
  <2>1. ASSUME NEW q \in Requests, Ahead(q)' PROVE AheadOf(q)'
    <3>1. Ahead(q) /\ AheadOf(q)
      BY <1>3, <2>1 DEF Inv, ProtoInv, AheadInv
    <3>2. CASE q # r
      BY <1>0, <1>1, <3>1, <3>2 DEF AheadOf
    <3>3. CASE q = r
      BY <1>0, <1>1, <3>1, <3>3 DEF AheadOf
    <3> QED BY <3>2, <3>3
  <2>2. \A q \in Requests : cl'[q].pc \in {"load", "loading"} => cl'[q].lm > cl'[q].vllm
    BY <1>1 DEF Inv, ProtoInv, AheadInv
  <2> QED BY <2>1, <2>2 DEF AheadInv
<1>6. \A q \in Requests : cl'[q].lm <= Len(Prompt[q])
  BY <1>1 DEF Inv, ProtoInv, PrefixInv
<1> QED BY <1>1, <1>4, <1>5, <1>6, SpawnStep

\* New handlers are well formed.
LEMMA NewHandler ==
  ASSUME NEW r \in Requests, NEW n \in Nat,
         NEW kind \in {"LOOKUP", "FREE", "END", "RETRIEVE", "STORE"}
  PROVE  /\ Handler(kind, r, n) \in HandlerRec /\ IsInjective(Handler(kind, r, n).keys)
         /\ Handler(kind, r, n) = [kind |-> kind, rid |-> r, pc |-> "start", rank |-> 0, start |-> 0,
                                   keys |-> <<>>, objs |-> <<>>, n |-> n]
<1>1. 0 \in Ranks
  BY ServerAssumption DEF Ranks
<1> QED BY <1>1, EmptyList DEF Handler, HandlerRec

\* The handlers of a transfer: one per rank, about distinct keys.
LEMMA NewTransfers ==
  ASSUME NEW r \in Requests, NEW kind \in {"RETRIEVE", "STORE"}, NEW start \in Nat, NEW end \in Nat,
         start <= end, end <= Len(Prompt[r])
  PROVE  /\ Transfers(kind, r, start, end) \subseteq HandlerRec
         /\ \A g \in Transfers(kind, r, start, end) :
              /\ g.pc = "start" /\ IsInjective(g.keys) /\ g.rid = r /\ g.kind = kind
              /\ g.n = 0 /\ g.objs = <<>>
<1> SUFFICES ASSUME NEW g \in Transfers(kind, r, start, end)
             PROVE  /\ g \in HandlerRec
                    /\ g.pc = "start" /\ IsInjective(g.keys) /\ g.rid = r /\ g.kind = kind
                    /\ g.n = 0 /\ g.objs = <<>>
  OBVIOUS
<1>1. PICK rank \in Ranks :
        g = [Handler(kind, r, 0) EXCEPT !.rank = rank, !.start = start,
                                        !.keys = op_keys(r, rank, start, end)]
  BY DEF Transfers
<1> DEFINE K == op_keys(r, rank, start, end)
<1>2. K \in Seq(Keys) /\ IsInjective(K)
  BY OpKeys
<1> HIDE DEF K
<1>3. g = [kind |-> kind, rid |-> r, pc |-> "start", rank |-> rank, start |-> start,
           keys |-> K, objs |-> <<>>, n |-> 0]
  BY <1>1 DEF Handler, K
<1> QED BY <1>2, <1>3 DEF HandlerRec

\* The connector of a request that has not sent its lookup yet sends it.
LEMMA SubmitLookupStep ==
  ASSUME Inv, NEW r \in Requests, SubmitLookup(r)
  PROVE  [L1!Next]_(L1!vars) /\ ProtoInv'
<1> DEFINE new == {Handler("LOOKUP", r, 0)}
<1>0. /\ UNCHANGED <<pf, jobs, hits, held, lost>> /\ handlers' = handlers \cup new
      /\ cl \in [Requests -> TrackerRec] /\ handlers \subseteq HandlerRec
      /\ cl[r].pc = "new" /\ cl' = [cl EXCEPT ![r].pc = "looking"]
  BY DEF smVars, prefetchVars, Spawn, Inv, ProtoInv, TypeInv, ServerType, SubmitLookup
<1>1. /\ new \subseteq HandlerRec
      /\ \A g \in new : g.pc = "start" /\ IsInjective(g.keys)
      /\ \A g \in new : g = Handler("LOOKUP", r, 0) /\ g.rid = r /\ g.kind = "LOOKUP"
  BY NewHandler
<1>2. /\ cl' \in [Requests -> TrackerRec] /\ cl'[r].pc = "looking" /\ cl'[r].lm = cl[r].lm
      /\ \A q \in Requests : q # r => cl'[q] = cl[q]
  BY <1>0 DEF TrackerRec
<1>3. \A q \in Requests : Queued(q)' <=> Queued(q)
  BY <1>0 DEF Queued
<1>4. \A q \in Requests : Handler("LOOKUP", q, 0).rid = q
  BY DEF Handler
<1>5. Ahead(r) /\ \A q \in Requests : Ahead(q)' <=> Ahead(q)
  BY <1>0, <1>1, <1>2, <1>3, <1>4 DEF Ahead, LookedUp
<1>6. OnceInv'
  <2>1. \A q \in Requests : cl'[q].pc = "new" =>
          pf'.rid # q /\ ~Queued(q)' /\ \A h \in handlers' : h.rid # q
    BY <1>0, <1>1, <1>2, <1>3 DEF Inv, ProtoInv, OnceInv
  <2>2. \A h \in handlers : h.rid \in Requests
    BY <1>0 DEF HandlerRec
  <2>3. \A h \in handlers' : h.kind = "LOOKUP" =>
          h = Handler("LOOKUP", h.rid, 0) /\ pf'.rid # h.rid /\ ~Queued(h.rid)'
    BY <1>0, <1>1, <1>3, <2>2 DEF Inv, ProtoInv, OnceInv
  <2> QED BY <1>0, <2>1, <2>3 DEF Inv, ProtoInv, OnceInv
<1>7. AheadInv'
  <2>1. ASSUME NEW q \in Requests, Ahead(q)' PROVE AheadOf(q)'
    <3>1. AheadOf(q)
      BY <1>5, <2>1 DEF Inv, ProtoInv, AheadInv
    <3> QED BY <1>0, <1>1, <1>2, <3>1 DEF AheadOf
  <2>2. \A q \in Requests : cl'[q].pc \in {"load", "loading"} => cl'[q].lm > cl'[q].vllm
    BY <1>2 DEF Inv, ProtoInv, AheadInv
  <2> QED BY <2>1, <2>2 DEF AheadInv
<1>8. \A q \in Requests : cl'[q].lm <= Len(Prompt[q])
  BY <1>2 DEF Inv, ProtoInv, PrefixInv
<1>9. Spawn(new) /\ UNCHANGED <<smVars, lost>>
  BY DEF SubmitLookup
<1> QED BY <1>1, <1>2, <1>6, <1>7, <1>8, <1>9, SpawnStep

\* The numbers of a tracker.
LEMMA TrackerFacts ==
  ASSUME Inv, NEW r \in Requests
  PROVE  /\ cl[r] \in TrackerRec /\ cl[r].lm <= Len(Prompt[r]) /\ Len(Prompt[r]) \in Nat
         /\ cl[r].lm \in Nat /\ cl[r].vllm \in Nat /\ cl[r].stored \in Nat
         /\ cl[r].pc \in {"load", "loading"} => cl[r].lm > cl[r].vllm
         /\ Ahead(r) => cl[r].lm = 0 /\ hits[r].state # "resolved"
         /\ hits[r].l1 \in Nat /\ hits[r].l2 \in Nat
         /\ hits[r].l1 + hits[r].l2 <= Len(Prompt[r]) * WorldSize
<1>1. cl \in [Requests -> TrackerRec] /\ hits \in [Requests -> HitRec]
  BY DEF Inv, ProtoInv, TypeInv, ServerType, ThreadType
<1>2. /\ cl[r] \in TrackerRec /\ cl[r].lm \in Nat /\ cl[r].vllm \in Nat /\ cl[r].stored \in Nat
      /\ hits[r].l1 \in Nat /\ hits[r].l2 \in Nat
  BY <1>1 DEF TrackerRec, HitRec
<1>3. cl[r].lm <= Len(Prompt[r]) /\ hits[r].l1 + hits[r].l2 <= Len(LookupKeys(r))
  BY DEF Inv, ProtoInv, PrefixInv
<1>4. /\ cl[r].pc \in {"load", "loading"} => cl[r].lm > cl[r].vllm
      /\ Ahead(r) => cl[r].lm = 0 /\ hits[r].state # "resolved"
  BY DEF Inv, ProtoInv, AheadInv, AheadOf
<1> QED BY <1>2, <1>3, <1>4, LookupKey

\* The other steps of a connector.
LEMMA QueryStep ==
  ASSUME Inv, NEW r \in Requests, Query(r)
  PROVE  [L1!Next]_(L1!vars) /\ ProtoInv'
<1> DEFINE lm == (hits[r].l1 + hits[r].l2) \div WorldSize
<1>1. PICK vllm \in 0 .. Len(Prompt[r]) :
        cl' = [cl EXCEPT ![r] = [pc |-> "resolved", lm |-> lm, vllm |-> vllm, stored |-> lm]]
  BY DEF Query
<1>2. cl[r].pc = "looking" /\ hits[r].state = "resolved" /\ UNCHANGED <<smVars, handlers, lost>>
  BY DEF Query, serverVars
<1>3. lm \in Nat /\ lm <= Len(Prompt[r])
  <2> DEFINE n == hits[r].l1 + hits[r].l2
             l == Len(Prompt[r])
  <2>1. n \in Nat /\ l \in Nat /\ n <= l * WorldSize /\ WorldSize \in Nat \ {0}
    BY TrackerFacts, ServerAssumption
  <2> HIDE DEF n, l
  <2>2. l + 1 \in Nat /\ n < (l + 1) * WorldSize
    BY <2>1
  <2>3. n \div WorldSize < l + 1
    BY <2>1, <2>2, QuotientBound
  <2>5. n \div WorldSize \in Nat
    BY <2>1, Division
  <2>4. n \div WorldSize <= l
    BY <2>1, <2>3, <2>5
  <2> QED BY <2>4, <2>5 DEF n, l
<1> HIDE DEF lm
<1> DEFINE c == [pc |-> "resolved", lm |-> lm, vllm |-> vllm, stored |-> lm]
<1>4. c \in TrackerRec /\ c.pc = "resolved" /\ c.lm = lm
  BY <1>1, <1>3 DEF TrackerRec
<1>5. Spawn({})
  BY <1>2 DEF Spawn
<1>6. ~Ahead(r)
  BY <1>2, TrackerFacts
<1>7. cl' = [cl EXCEPT ![r] = c]
  BY <1>1
<1> HIDE DEF c
<1> QED BY <1>2, <1>3, <1>4, <1>5, <1>6, <1>7, ClientStep

\* A step that only moves the connector on.
LEMMA TrackerStep ==
  ASSUME Inv, NEW r \in Requests, NEW pc \in {"resolved", "load", "loading", "running"}, NEW new,
         Spawn(new), UNCHANGED <<smVars, lost>>, new \subseteq HandlerRec,
         \A g \in new : g.pc = "start" /\ IsInjective(g.keys) /\ g.rid = r /\ g.kind # "LOOKUP",
         cl' = [cl EXCEPT ![r].pc = pc], cl[r].pc # "new",
         pc \in {"load", "loading"} => cl[r].lm > cl[r].vllm,
         Ahead(r) => \A g \in new : g.kind = "STORE" \/ (g.kind = "END" /\ g.keys = <<>>)
  PROVE  [L1!Next]_(L1!vars) /\ ProtoInv'
<1> DEFINE c == [cl[r] EXCEPT !.pc = pc]
<1>1. c \in TrackerRec /\ c.pc = pc /\ c.lm = cl[r].lm /\ c.vllm = cl[r].vllm
  BY TrackerFacts DEF TrackerRec
<1>2. cl' = [cl EXCEPT ![r] = c]
  OBVIOUS
<1>3. c.lm <= Len(Prompt[r]) /\ (Ahead(r) => c.lm = 0)
  BY <1>1, TrackerFacts
<1> HIDE DEF c
<1>4. c.pc # "new" /\ (c.pc \in {"load", "loading"} => c.lm > c.vllm)
  BY <1>1
<1> QED BY <1>1, <1>2, <1>3, <1>4, ClientStep

\* The tracker gives up on the LOOKUP.
LEMMA QueryTimeoutStep ==
  ASSUME Inv, NEW r \in Requests, QueryTimeout(r)
  PROVE  [L1!Next]_(L1!vars) /\ ProtoInv'
<1>1. /\ cl[r].pc = "looking" /\ cl' = [cl EXCEPT ![r].pc = "resolved"]
      /\ UNCHANGED <<smVars, handlers, lost>>
  BY DEF QueryTimeout, serverVars
<1>2. Spawn({})
  BY <1>1 DEF Spawn
<1> QED BY <1>1, <1>2, TrackerStep

\* Every rank has its chunks.
LEMMA LoadsDoneStep ==
  ASSUME Inv, NEW r \in Requests, LoadsDone(r)
  PROVE  [L1!Next]_(L1!vars) /\ ProtoInv'
<1>1. /\ cl[r].pc = "loading" /\ cl' = [cl EXCEPT ![r].pc = "running"]
      /\ UNCHANGED <<smVars, handlers, lost>>
  BY DEF LoadsDone, serverVars
<1>2. Spawn({})
  BY <1>1 DEF Spawn
<1> QED BY <1>1, <1>2, TrackerStep

\* The connector frees what it will not load.
LEMMA UpdateStateStep ==
  ASSUME Inv, NEW r \in Requests, NEW load_pending \in BOOLEAN,
         UpdateStateAfterAlloc(r, load_pending)
  PROVE  [L1!Next]_(L1!vars) /\ ProtoInv'
<1> DEFINE n == IF load_pending THEN cl[r].vllm ELSE cl[r].lm
           pc == IF load_pending THEN "load" ELSE "running"
           new == IF n = 0 THEN {} ELSE {Handler("FREE", r, n)}
<1>1. /\ cl[r].pc = "resolved" /\ (load_pending => cl[r].lm > cl[r].vllm)
      /\ cl' = [cl EXCEPT ![r].pc = pc] /\ Spawn(new) /\ UNCHANGED <<smVars, lost>>
  BY DEF UpdateStateAfterAlloc
<1>2. n \in Nat /\ cl[r].lm \in Nat /\ cl[r].vllm \in Nat /\ (Ahead(r) => cl[r].lm = 0)
  BY TrackerFacts
<1>3. Ahead(r) => n = 0
  BY <1>1, <1>2
<1> HIDE DEF n
<1>4. /\ new \subseteq HandlerRec
      /\ \A g \in new : g.pc = "start" /\ IsInjective(g.keys) /\ g.rid = r /\ g.kind # "LOOKUP"
      /\ Ahead(r) => new = {}
  BY <1>2, <1>3, NewHandler
<1>5. pc \in {"load", "running"} /\ (pc \in {"load", "loading"} => cl[r].lm > cl[r].vllm)
  BY <1>1
<1> HIDE DEF pc, new
<1> QED BY <1>1, <1>4, <1>5, TrackerStep

\* The connector submits the RETRIEVEs of its ranks.
LEMMA SubmitRetrieveStep ==
  ASSUME Inv, NEW r \in Requests, SubmitRetrieve(r)
  PROVE  [L1!Next]_(L1!vars) /\ ProtoInv'
<1> DEFINE new == Transfers("RETRIEVE", r, cl[r].vllm, cl[r].lm)
<1>1. /\ cl[r].pc = "load" /\ cl' = [cl EXCEPT ![r].pc = "loading"]
      /\ Spawn(new) /\ UNCHANGED <<smVars, lost>>
  BY DEF SubmitRetrieve
<1>2. /\ cl[r].vllm \in Nat /\ cl[r].lm \in Nat /\ cl[r].lm > cl[r].vllm
      /\ cl[r].lm <= Len(Prompt[r]) /\ (Ahead(r) => cl[r].lm = 0)
  BY <1>1, TrackerFacts
<1>3. ~Ahead(r) /\ cl[r].vllm <= cl[r].lm
  BY <1>2
<1>4. /\ new \subseteq HandlerRec
      /\ \A g \in new : g.pc = "start" /\ IsInjective(g.keys) /\ g.rid = r /\ g.kind # "LOOKUP"
  BY <1>2, <1>3, NewTransfers
<1> HIDE DEF new
<1> QED BY <1>1, <1>2, <1>3, <1>4, TrackerStep

\* The connector submits the STOREs of its ranks.
LEMMA SubmitStoreStep ==
  ASSUME Inv, NEW r \in Requests, NEW end, SubmitStore(r, end)
  PROVE  [L1!Next]_(L1!vars) /\ ProtoInv'
<1> DEFINE new == Transfers("STORE", r, cl[r].stored, end)
           c == [cl[r] EXCEPT !.stored = end]
<1>1. /\ cl[r].pc = "running" /\ cl' = [cl EXCEPT ![r].stored = end]
      /\ end \in (cl[r].stored + 1) .. Len(Prompt[r])
      /\ Spawn(new) /\ UNCHANGED <<smVars, lost>>
  BY DEF SubmitStore
<1>2. /\ cl[r].stored \in Nat /\ Len(Prompt[r]) \in Nat /\ cl[r] \in TrackerRec
      /\ cl[r].lm <= Len(Prompt[r]) /\ (Ahead(r) => cl[r].lm = 0)
  BY TrackerFacts
<1>3. end \in Nat /\ cl[r].stored <= end /\ end <= Len(Prompt[r])
  BY <1>1, <1>2
<1>4. /\ new \subseteq HandlerRec
      /\ \A g \in new : g.pc = "start" /\ IsInjective(g.keys) /\ g.rid = r /\ g.kind = "STORE"
  BY <1>2, <1>3, NewTransfers
<1>5. c \in TrackerRec /\ c.pc = "running" /\ c.lm = cl[r].lm /\ cl' = [cl EXCEPT ![r] = c]
  BY <1>1, <1>2, <1>3 DEF TrackerRec
<1> HIDE DEF new, c
<1>6. c.pc # "new" /\ c.lm <= Len(Prompt[r]) /\ c.pc \notin {"load", "loading"} /\ cl[r].pc # "new"
  BY <1>1, <1>2, <1>5
<1>7. /\ \A g \in new : g.pc = "start" /\ IsInjective(g.keys) /\ g.rid = r /\ g.kind # "LOOKUP"
      /\ Ahead(r) => /\ c.lm = 0
                     /\ \A g \in new : g.kind = "STORE" \/ (g.kind = "END" /\ g.keys = <<>>)
  BY <1>2, <1>4, <1>5
<1>8. Spawn(new) /\ UNCHANGED <<smVars, lost>>
  BY <1>1
<1> QED BY <1>4, <1>5, <1>6, <1>7, <1>8, ClientStep

\* The connector submits the END.
LEMMA RequestFinishedStep ==
  ASSUME Inv, NEW r \in Requests, RequestFinished(r)
  PROVE  [L1!Next]_(L1!vars) /\ ProtoInv'
<1> DEFINE new == {Handler("END", r, 0)}
           c == [NewTracker EXCEPT !.pc = "finished"]
<1>1. /\ cl[r].pc # "new" /\ cl' = [cl EXCEPT ![r] = c]
      /\ Spawn(new) /\ UNCHANGED <<smVars, lost>>
  BY DEF RequestFinished
<1>2. Len(Prompt[r]) \in Nat
  BY TrackerFacts
<1>3. /\ new \subseteq HandlerRec
      /\ \A g \in new : g.pc = "start" /\ IsInjective(g.keys) /\ g.rid = r /\ g.kind = "END" /\ g.keys = <<>>
  BY NewHandler
<1>4. c \in TrackerRec /\ c.pc = "finished" /\ c.lm = 0
  BY DEF TrackerRec, NewTracker
<1> HIDE DEF new, c
<1>6. c.pc # "new" /\ c.lm <= Len(Prompt[r]) /\ c.pc \notin {"load", "loading"}
  BY <1>2, <1>4
<1> QED BY <1>1, <1>3, <1>4, <1>6, ClientStep

\* Ranks come and go.
LEMMA RankStep ==
  ASSUME Inv, NEW rank, Register(rank) \/ Unregister(rank)
  PROVE  [L1!Next]_(L1!vars) /\ ProtoInv'
<1>1. UNCHANGED <<smVars, handlers, cl, lost>>
  BY DEF Register, Unregister
<1>2. UNCHANGED <<pf, jobs, hits, held>>
  BY <1>1 DEF smVars, prefetchVars
<1>3. Spawn({})
  BY <1>1 DEF Spawn
<1>4. cl' \in [Requests -> TrackerRec] /\ \A r \in Requests : cl'[r].lm <= Len(Prompt[r])
  BY <1>1 DEF Inv, ProtoInv, TypeInv, ServerType, PrefixInv
<1>5. OnceInv' /\ AheadInv'
  BY <1>1, <1>2 DEF Inv, ProtoInv, OnceInv, AheadInv, Ahead, AheadOf, Queued, LookedUp
<1> QED BY <1>1, <1>3, <1>4, <1>5, SpawnStep

-----------------------------------------------------------------------------

(***************************************************************************)
(* The handlers.                                                           *)
(***************************************************************************)

\* The chunks the other handlers write and drop.
OthersWrite(h, r, k) == \E f \in handlers \ {h} : f.rid = r /\ Writes(f) /\ k \in Range(f.keys)
OthersDrop(h, r, k) == \E f \in handlers \ {h} : f.rid = r /\ Drops(f) /\ k \in Range(f.keys)

\* One handler takes a step.
LEMMA HandlerChange ==
  ASSUME NEW h \in handlers, NEW G, handlers' = (handlers \ {h}) \cup G
  PROVE  \A r, k :
           /\ HandlerWrites(r, k) <=>
                OthersWrite(h, r, k) \/ (h.rid = r /\ Writes(h) /\ k \in Range(h.keys))
           /\ HandlerWrites(r, k)' <=>
                OthersWrite(h, r, k) \/ \E g \in G : g.rid = r /\ Writes(g) /\ k \in Range(g.keys)
           /\ HandlerDrops(r, k) <=>
                OthersDrop(h, r, k) \/ (h.rid = r /\ Drops(h) /\ k \in Range(h.keys))
           /\ HandlerDrops(r, k)' <=>
                OthersDrop(h, r, k) \/ \E g \in G : g.rid = r /\ Drops(g) /\ k \in Range(g.keys)
<1> TAKE r, k
<1>1. HandlerWrites(r, k) <=>
        OthersWrite(h, r, k) \/ (h.rid = r /\ Writes(h) /\ k \in Range(h.keys))
  BY DEF HandlerWrites, OthersWrite
<1>2. HandlerWrites(r, k)' <=>
        OthersWrite(h, r, k) \/ \E g \in G : g.rid = r /\ Writes(g) /\ k \in Range(g.keys)
  BY DEF HandlerWrites, OthersWrite, Writes
<1>3. HandlerDrops(r, k) <=>
        OthersDrop(h, r, k) \/ (h.rid = r /\ Drops(h) /\ k \in Range(h.keys))
  BY DEF HandlerDrops, OthersDrop
<1>4. HandlerDrops(r, k)' <=>
        OthersDrop(h, r, k) \/ \E g \in G : g.rid = r /\ Drops(g) /\ k \in Range(g.keys)
  BY DEF HandlerDrops, OthersDrop, Drops
<1> QED BY <1>1, <1>2, <1>3, <1>4

\* What handlers write and drop when one of them moves on.
LEMMA HandlerBecomes ==
  ASSUME NEW h \in handlers, NEW g, handlers' = (handlers \ {h}) \cup {g}
  PROVE  \A r, k :
           /\ HandlerWrites(r, k) <=>
                OthersWrite(h, r, k) \/ (h.rid = r /\ Writes(h) /\ k \in Range(h.keys))
           /\ HandlerWrites(r, k)' <=>
                OthersWrite(h, r, k) \/ (g.rid = r /\ Writes(g) /\ k \in Range(g.keys))
           /\ HandlerDrops(r, k) <=>
                OthersDrop(h, r, k) \/ (h.rid = r /\ Drops(h) /\ k \in Range(h.keys))
           /\ HandlerDrops(r, k)' <=>
                OthersDrop(h, r, k) \/ (g.rid = r /\ Drops(g) /\ k \in Range(g.keys))
<1> DEFINE G == {g}
<1>1. handlers' = (handlers \ {h}) \cup G /\ \A f : f \in G <=> f = g
  OBVIOUS
<1> HIDE DEF G
<1> TAKE r, k
<1>2. /\ HandlerWrites(r, k) <=>
           OthersWrite(h, r, k) \/ (h.rid = r /\ Writes(h) /\ k \in Range(h.keys))
      /\ HandlerDrops(r, k) <=>
           OthersDrop(h, r, k) \/ (h.rid = r /\ Drops(h) /\ k \in Range(h.keys))
  BY <1>1, HandlerChange
<1>3. HandlerWrites(r, k)' <=>
        OthersWrite(h, r, k) \/ \E f \in G : f.rid = r /\ Writes(f) /\ k \in Range(f.keys)
  BY <1>1, HandlerChange
<1>4. HandlerDrops(r, k)' <=>
        OthersDrop(h, r, k) \/ \E f \in G : f.rid = r /\ Drops(f) /\ k \in Range(f.keys)
  BY <1>1, HandlerChange
<1> QED BY <1>1, <1>2, <1>3, <1>4

\* What handlers write and drop when one of them ends.
LEMMA HandlerEnds ==
  ASSUME NEW h \in handlers, handlers' = (handlers \ {h}) \cup {}
  PROVE  \A r, k :
           /\ HandlerWrites(r, k) <=>
                OthersWrite(h, r, k) \/ (h.rid = r /\ Writes(h) /\ k \in Range(h.keys))
           /\ HandlerWrites(r, k)' <=> OthersWrite(h, r, k)
           /\ HandlerDrops(r, k) <=>
                OthersDrop(h, r, k) \/ (h.rid = r /\ Drops(h) /\ k \in Range(h.keys))
           /\ HandlerDrops(r, k)' <=> OthersDrop(h, r, k)
<1> DEFINE G == {}
<1>1. handlers' = (handlers \ {h}) \cup G /\ \A f : f \notin G
  OBVIOUS
<1> HIDE DEF G
<1> TAKE r, k
<1>2. /\ HandlerWrites(r, k) <=>
           OthersWrite(h, r, k) \/ (h.rid = r /\ Writes(h) /\ k \in Range(h.keys))
      /\ HandlerDrops(r, k) <=>
           OthersDrop(h, r, k) \/ (h.rid = r /\ Drops(h) /\ k \in Range(h.keys))
  BY <1>1, HandlerChange
<1>3. HandlerWrites(r, k)' <=> OthersWrite(h, r, k)
  BY <1>1, HandlerChange
<1>4. HandlerDrops(r, k)' <=> OthersDrop(h, r, k)
  BY <1>1, HandlerChange
<1> QED BY <1>2, <1>3, <1>4

\* The type of a handler.
LEMMA HandlerFacts ==
  ASSUME Inv, NEW h \in handlers
  PROVE  /\ h \in HandlerRec /\ h.rid \in Requests /\ h.keys \in Seq(Keys) /\ IsInjective(h.keys)
         /\ h.n \in Nat /\ h.objs \in Seq(MemoryObj) /\ Range(h.keys) \in SUBSET Keys
         /\ held[h.rid] \in Seq(Keys) /\ IsInjective(held[h.rid]) /\ lost[h.rid] \in SUBSET Keys
         /\ order \in Seq(Keys)
<1>1. /\ handlers \subseteq HandlerRec /\ held \in [Requests -> Seq(Keys)]
      /\ lost \in [Requests -> SUBSET Keys] /\ order \in Seq(Keys)
  BY DEF Inv, ProtoInv, TypeInv, ServerType, ThreadType
<1>2. /\ h \in HandlerRec /\ h.rid \in Requests /\ h.keys \in Seq(Keys) /\ h.n \in Nat
      /\ h.objs \in Seq(MemoryObj)
  BY <1>1 DEF HandlerRec
<1>3. IsInjective(h.keys) /\ IsInjective(held[h.rid])
  BY <1>2 DEF Inv, ProtoInv, HoldInv
<1> QED BY <1>1, <1>2, <1>3, RangeOf

\* A handler h goes on as one of G; the threads do not move.
HandlerMove(h, G) ==
  /\ handlers' = (handlers \ {h}) \cup G
  /\ \A g \in G : /\ g \in HandlerRec /\ g.rid = h.rid /\ g.kind = h.kind /\ IsInjective(g.keys)
                  /\ g.kind = "END" /\ Ahead(h.rid) => g.keys = <<>>
  /\ h.kind # "LOOKUP"
  /\ UNCHANGED <<jobs, pf, l2Vars, st, ev, cl>>

\* What a handler has to show for the invariant of the protocol.
LEMMA HandlerFrame ==
  ASSUME Inv, NEW h \in handlers, NEW G, HandlerMove(h, G),
         order' \in Seq(Keys), pending' \in Seq(Seq(Keys)),
         \A i \in 1 .. Len(pending') : IsInjective(pending'[i]),
         hits' \in [Requests -> HitRec],
         \A r \in Requests : hits'[r] = hits[r] \/ hits'[r] = Absent,
         held' \in [Requests -> Seq(Keys)], lost' \in [Requests -> SUBSET Keys],
         \A r \in Requests : Ahead(r) => held'[r] = <<>> /\ lost'[r] = {},
         HoldInv', WriteInv'
  PROVE  ProtoInv'
<1>0. /\ handlers' = (handlers \ {h}) \cup G
      /\ \A g \in G : /\ g \in HandlerRec /\ g.rid = h.rid /\ g.kind = h.kind /\ IsInjective(g.keys)
                      /\ g.kind = "END" /\ Ahead(h.rid) => g.keys = <<>>
      /\ h.kind # "LOOKUP"
      /\ UNCHANGED <<jobs, pf, stored, tasks, futures, st, ev, cl>>
      /\ h.rid \in Requests /\ handlers \subseteq HandlerRec
  BY HandlerFacts DEF HandlerMove, l2Vars, Inv, ProtoInv, TypeInv, ServerType
<1>1. TypeInv'
  <2>1. ServerType'
    BY <1>0 DEF Inv, ProtoInv, TypeInv, ServerType
  <2>2. ThreadType'
    BY <1>0 DEF Inv, ProtoInv, TypeInv, ThreadType
  <2>3. AdapterType'
    BY <1>0 DEF Inv, ProtoInv, TypeInv, AdapterType
  <2> QED BY <2>1, <2>2, <2>3 DEF TypeInv
<1>2. \A q \in Requests : (Queued(q)' <=> Queued(q)) /\ (LookedUp(q)' <=> LookedUp(q))
  <2>1. \A q \in Requests : Handler("LOOKUP", q, 0).kind = "LOOKUP"
    BY DEF Handler
  <2> QED BY <1>0, <2>1 DEF Queued, LookedUp
<1>3. \A q \in Requests : Ahead(q)' <=> Ahead(q)
  BY <1>0, <1>2 DEF Ahead
<1>4. OnceInv'
  <2>1. \A q \in Requests : cl'[q].pc = "new" =>
          pf'.rid # q /\ ~Queued(q)' /\ \A f \in handlers' : f.rid # q
    BY <1>0, <1>2 DEF Inv, ProtoInv, OnceInv
  <2>2. \A f \in handlers' : f.kind = "LOOKUP" => f \in handlers /\ f.rid \in Requests
    BY <1>0 DEF HandlerRec
  <2>3. \A f \in handlers' : f.kind = "LOOKUP" =>
          f = Handler("LOOKUP", f.rid, 0) /\ pf'.rid # f.rid /\ ~Queued(f.rid)'
    BY <1>0, <1>2, <2>2 DEF Inv, ProtoInv, OnceInv
  <2> QED BY <1>0, <2>1, <2>3 DEF Inv, ProtoInv, OnceInv
<1>5. AheadInv'
  <2>1. ASSUME NEW q \in Requests, Ahead(q)' PROVE AheadOf(q)'
    <3>1. Ahead(q) /\ AheadOf(q)
      BY <1>3, <2>1 DEF Inv, ProtoInv, AheadInv
    <3>2. held'[q] = <<>> /\ lost'[q] = {} /\ hits'[q].state # "resolved" /\ cl'[q].lm = 0
      <4>1. held'[q] = <<>> /\ lost'[q] = {}
        BY <3>1
      <4>2. hits'[q].state # "resolved"
        <5>1. hits[q].state # "resolved" /\ Absent.state # "resolved"
          BY <3>1 DEF AheadOf, Absent
        <5>2. hits'[q] = hits[q] \/ hits'[q] = Absent
          OBVIOUS
        <5> QED BY <5>1, <5>2
      <4>3. cl'[q].lm = 0
        BY <1>0, <3>1 DEF AheadOf
      <4> QED BY <4>1, <4>2, <4>3
    <3>3. \A f \in handlers' : f.rid = q =>
            f.kind \in {"LOOKUP", "STORE"} \/ (f.kind = "END" /\ f.keys = <<>>)
      BY <1>0, <3>1 DEF AheadOf
    <3> QED BY <3>2, <3>3 DEF AheadOf
  <2>2. \A q \in Requests : cl'[q].pc \in {"load", "loading"} => cl'[q].lm > cl'[q].vllm
    BY <1>0 DEF Inv, ProtoInv, AheadInv
  <2> QED BY <2>1, <2>2 DEF AheadInv
<1>6. PfInv' /\ StInv' /\ TaskInv' /\ FutureInv'
  BY <1>0 DEF Inv, ProtoInv, PfInv, StInv, TaskInv, TaskOf, FutureInv
<1>7. PrefixInv'
  <2>1. \A r \in Requests : hits'[r].l1 + hits'[r].l2 <= Len(LookupKeys(r))
    <3> TAKE r \in Requests
    <3>1. Len(LookupKeys(r)) \in Nat
      BY LookupKey
    <3>2. hits[r].l1 + hits[r].l2 <= Len(LookupKeys(r))
      BY DEF Inv, ProtoInv, PrefixInv
    <3>3. Absent.l1 = 0 /\ Absent.l2 = 0
      BY DEF Absent
    <3>4. CASE hits'[r] = Absent
      BY <3>1, <3>3, <3>4
    <3>5. CASE hits'[r] = hits[r]
      BY <3>2, <3>5
    <3> QED BY <3>4, <3>5
  <2> QED BY <1>0, <2>1 DEF Inv, ProtoInv, PrefixInv
<1> QED BY <1>1, <1>4, <1>5, <1>6, <1>7 DEF ProtoInv

\* The simplest case: nothing but the handlers changes.
LEMMA QuietMove ==
  ASSUME Inv, NEW h \in handlers, NEW G, HandlerMove(h, G), UNCHANGED <<order, pending, hits, held, lost>>,
         HoldInv', WriteInv'
  PROVE  ProtoInv'
<1>1. /\ order' \in Seq(Keys) /\ pending' \in Seq(Seq(Keys)) /\ hits' \in [Requests -> HitRec]
      /\ held' \in [Requests -> Seq(Keys)] /\ lost' \in [Requests -> SUBSET Keys]
      /\ \A i \in 1 .. Len(pending') : IsInjective(pending'[i])
      /\ \A r \in Requests : hits'[r] = hits[r]
      /\ \A r \in Requests : Ahead(r) => held'[r] = <<>> /\ lost'[r] = {}
  BY DEF Inv, ProtoInv, TypeInv, ThreadType, ServerType, StInv, AheadInv, AheadOf
<1> QED BY <1>1, HandlerFrame

\* A move after which the handler owns nothing.
LEMMA FreeMove ==
  ASSUME Inv, NEW h \in handlers, NEW G, HandlerMove(h, G), UNCHANGED <<held, lost>>,
         \A g \in G : ~Writes(g) /\ ~Drops(g)
  PROVE  HoldInv' /\ WriteInv'
<1>1. /\ handlers' = (handlers \ {h}) \cup G /\ pf' = pf
      /\ \A g \in G : IsInjective(g.keys)
  BY DEF HandlerMove
<1>2. HoldInv'
  BY <1>1 DEF Inv, ProtoInv, HoldInv
<1>3. WriteInv'
  BY <1>1 DEF Inv, ProtoInv, WriteInv
<1> QED BY <1>2, <1>3

\* A move between two states in which the handler owns nothing.
LEMMA IdleMove ==
  ASSUME Inv, NEW h \in handlers, NEW G, HandlerMove(h, G), UNCHANGED <<smVars, lost>>,
         \A g \in G : ~Writes(g) /\ ~Drops(g), ~Writes(h), ~Drops(h)
  PROVE  [L1!Next]_(L1!vars) /\ ProtoInv'
<1>0. UNCHANGED <<l1Vars, order, pending, hits, held, lost, pf, st>> /\ handlers' = (handlers \ {h}) \cup G
  BY DEF HandlerMove, smVars, prefetchVars, storeVars
<1>1. ProtoInv'
  BY <1>0, FreeMove, QuietMove
<1>2. \A r \in Requests : \A k : (HandlerWrites(r, k)' <=> HandlerWrites(r, k))
                             /\ (HandlerDrops(r, k)' <=> HandlerDrops(r, k))
  BY <1>0, HandlerChange
<1>3. \A r \in Requests : WritingFor(r)' = WritingFor(r) /\ HeldFor(r)' = HeldFor(r)
  BY <1>0, <1>2, OwnersStay
<1>4. Writing' = Writing /\ Holds' = Holds
  BY <1>0, <1>3, SameWriting, SameHolds
<1> QED BY <1>0, <1>1, <1>4, NoL1Step

\* free_locks reads the first keys of held.
LEMMA FreeFirstStep ==
  ASSUME Inv, NEW h \in handlers, FreeFirst(h)
  PROVE  [L1!Next]_(L1!vars) /\ ProtoInv'
<1> DEFINE n == Min({h.n * WorldSize, Len(held[h.rid])})
           K == First(n, held[h.rid])
           g == [h EXCEPT !.pc = "release", !.keys = K]
<1>1. /\ h.kind = "FREE" /\ h.pc = "start" /\ handlers' = (handlers \ {h}) \cup {g}
      /\ UNCHANGED <<smVars, cl, lost>>
  BY DEF FreeFirst, At, Becomes
<1>2. /\ h \in HandlerRec /\ h.rid \in Requests /\ h.n \in Nat
      /\ held[h.rid] \in Seq(Keys) /\ IsInjective(held[h.rid])
  BY HandlerFacts
<1>3. n \in Nat /\ n <= Len(held[h.rid])
  <2> DEFINE a == h.n * WorldSize
             b == Len(held[h.rid])
  <2>1. a \in Nat /\ b \in Nat
    BY <1>2, ServerAssumption
  <2> HIDE DEF a, b
  <2>2. \E x \in {a, b} : \A y \in {a, b} : x <= y
    BY <2>1
  <2>3. Min({a, b}) \in {a, b} /\ \A y \in {a, b} : Min({a, b}) <= y
    BY <2>2 DEF Min
  <2>4. n = Min({a, b})
    BY DEF a, b
  <2>5. n \in Nat /\ n <= b
    BY <2>1, <2>3, <2>4
  <2> QED BY <2>5 DEF b
<1> HIDE DEF n
<1>4. K \in Seq(Keys) /\ IsInjective(K)
  <2>1. 0 <= n /\ 0 + 1 = 1 /\ 0 \in Nat
    BY <1>3
  <2>2. SubSeq(held[h.rid], 0 + 1, n) \in Seq(Keys) /\ IsInjective(SubSeq(held[h.rid], 0 + 1, n))
    BY <1>2, <1>3, <2>1, PartOf
  <2> QED BY <2>1, <2>2 DEF First
<1> HIDE DEF K
<1>5. g \in HandlerRec /\ g.rid = h.rid /\ g.kind = "FREE" /\ g.keys = K /\ g.pc = "release"
  BY <1>1, <1>2, <1>4 DEF HandlerRec
<1> HIDE DEF g
<1>6. HandlerMove(h, {g})
  BY <1>1, <1>4, <1>5 DEF HandlerMove, smVars, prefetchVars, storeVars
<1>7. ~Writes(g) /\ ~Drops(g) /\ ~Writes(h) /\ ~Drops(h)
  BY <1>1, <1>5 DEF Writes, Drops
<1> QED BY <1>1, <1>6, <1>7, IdleMove

\* release, first half: holds leave the session and become the handler's.
LEMMA ReleaseStep ==
  ASSUME Inv, NEW h \in handlers, NEW keys \in Seq(Keys), IsInjective(keys), Release(h, keys),
         h.kind \in {"FREE", "END", "RETRIEVE"}, h.pc # "finish"
  PROVE  [L1!Next]_(L1!vars) /\ ProtoInv'
<1> DEFINE r == h.rid
           K == Selected(keys, Range(held[h.rid]))
           L == Without(held[h.rid], Range(keys))
           g == [h EXCEPT !.pc = "finish", !.keys = K]
<1>1. /\ handlers' = (handlers \ {h}) \cup {g} /\ held' = [held EXCEPT ![h.rid] = L]
      /\ UNCHANGED <<l1Vars, order, stored, tasks, futures, jobs, hits, pf, pending, st, ev, cl, lost>>
  BY DEF Release, Becomes, l2Vars, storeVars
<1>2. /\ h \in HandlerRec /\ h.rid \in Requests
      /\ held[h.rid] \in Seq(Keys) /\ IsInjective(held[h.rid])
      /\ held \in [Requests -> Seq(Keys)]
  BY HandlerFacts DEF Inv, ProtoInv, TypeInv, ThreadType
<1>3. /\ K \in Seq(Keys) /\ IsInjective(K) /\ Range(K) = Range(keys) \cap Range(held[h.rid])
      /\ L \in Seq(Keys) /\ IsInjective(L) /\ Range(L) = Range(held[h.rid]) \ Range(keys)
  BY <1>2, SelectedKeeps, WithoutKeeps
<1>4. Ahead(r) => held[r] = <<>> /\ K = <<>> /\ L = <<>>
  <2> SUFFICES ASSUME Ahead(r) PROVE held[r] = <<>> /\ K = <<>> /\ L = <<>>
    OBVIOUS
  <2>1. held[r] = <<>>
    BY <1>2 DEF Inv, ProtoInv, AheadInv, AheadOf
  <2>2. Range(K) = {} /\ Range(L) = {}
    BY <1>3, <2>1, EmptyList
  <2> QED BY <1>3, <2>1, <2>2, NoElements
<1> HIDE DEF K, L
<1>5. g \in HandlerRec /\ g.rid = r /\ g.kind = h.kind /\ g.keys = K /\ g.pc = "finish"
  BY <1>2, <1>3 DEF HandlerRec
<1> HIDE DEF g
<1>6. HandlerMove(h, {g})
  BY <1>1, <1>3, <1>4, <1>5 DEF HandlerMove, l2Vars
<1>7. ~Writes(g) /\ Drops(g) /\ ~Writes(h) /\ ~Drops(h)
  BY <1>5 DEF Writes, Drops
<1>8. /\ held' \in [Requests -> Seq(Keys)] /\ held'[r] = L
      /\ \A q \in Requests : q # r => held'[q] = held[q]
  BY <1>1, <1>2, <1>3
<1>9. HoldInv'
  <2>1. HoldInv
    BY DEF Inv, ProtoInv
  <2>2. \A q \in Requests : IsInjective(held'[q]) /\ Range(held'[q]) \subseteq Range(held[q])
    BY <1>3, <1>8, <2>1 DEF HoldInv
  <2>3. \A f \in handlers : f.rid \in Requests
    BY HandlerFacts
  <2>4. \A q \in Requests : Range(held'[q]) \cap lost'[q] = {}
    BY <1>1, <2>1, <2>2 DEF HoldInv
  <2>5. \A f \in handlers' : IsInjective(f.keys)
    BY <1>1, <1>3, <1>5, <2>1 DEF HoldInv
  <2>6. ASSUME NEW f \in handlers', Drops(f)
        PROVE  Range(f.keys) \cap (Range(held'[f.rid]) \cup lost'[f.rid]) = {}
    <3>1. CASE f = g
      <4>1. Range(held[r]) \cap lost[r] = {}
        BY <1>2, <2>1 DEF HoldInv
      <4> QED BY <1>1, <1>3, <1>5, <1>8, <3>1, <4>1
    <3>2. CASE f \in handlers
      BY <1>1, <2>1, <2>2, <2>3, <2>6, <3>2 DEF HoldInv
    <3> QED BY <1>1, <3>1, <3>2
  <2>7. ASSUME NEW f \in handlers, Drops(f), f.rid = r
        PROVE  Range(f.keys) \cap Range(g.keys) = {}
    BY <1>3, <1>5, <2>1, <2>7 DEF HoldInv
  <2>8. ASSUME NEW f \in handlers', NEW e \in handlers', Drops(f), Drops(e), f.rid = e.rid, f # e
        PROVE  Range(f.keys) \cap Range(e.keys) = {}
    <3>1. CASE f = g
      BY <1>1, <1>5, <2>7, <2>8, <3>1
    <3>2. CASE e = g
      BY <1>1, <1>5, <2>7, <2>8, <3>2
    <3>3. CASE f \in handlers /\ e \in handlers
      BY <2>1, <2>8, <3>3 DEF HoldInv
    <3> QED BY <1>1, <3>1, <3>2, <3>3
  <2> QED BY <2>2, <2>4, <2>5, <2>6, <2>8 DEF HoldInv
<1>10. WriteInv'
  BY <1>1, <1>7 DEF Inv, ProtoInv, WriteInv
<1>11. ProtoInv'
  <2>1. /\ order' \in Seq(Keys) /\ pending' \in Seq(Seq(Keys)) /\ hits' \in [Requests -> HitRec]
        /\ lost' \in [Requests -> SUBSET Keys]
        /\ \A i \in 1 .. Len(pending') : IsInjective(pending'[i])
        /\ \A q \in Requests : hits'[q] = hits[q]
    BY <1>1 DEF Inv, ProtoInv, TypeInv, ThreadType, ServerType, StInv
  <2>2. \A q \in Requests : Ahead(q) => held'[q] = <<>> /\ lost'[q] = {}
    BY <1>1, <1>4, <1>8 DEF Inv, ProtoInv, AheadInv, AheadOf
  <2> QED BY <1>6, <1>8, <1>9, <1>10, <2>1, <2>2, HandlerFrame
<1>12. \A q \in Requests : WritingFor(q)' = WritingFor(q) /\ HeldFor(q)' = HeldFor(q)
  <2> TAKE q \in Requests
  <2>1. \A k : /\ HandlerWrites(q, k)' <=> HandlerWrites(q, k)
               /\ HandlerDrops(q, k)' <=> HandlerDrops(q, k) \/ (q = r /\ k \in Range(K))
    <3>1. \A k : /\ HandlerWrites(q, k) <=> OthersWrite(h, q, k) \/ (h.rid = q /\ Writes(h) /\ k \in Range(h.keys))
                 /\ HandlerWrites(q, k)' <=> OthersWrite(h, q, k) \/ (g.rid = q /\ Writes(g) /\ k \in Range(g.keys))
                 /\ HandlerDrops(q, k) <=> OthersDrop(h, q, k) \/ (h.rid = q /\ Drops(h) /\ k \in Range(h.keys))
                 /\ HandlerDrops(q, k)' <=> OthersDrop(h, q, k) \/ (g.rid = q /\ Drops(g) /\ k \in Range(g.keys))
      BY <1>1, HandlerBecomes
    <3> QED BY <1>5, <1>7, <3>1
  <2>2. \A k : k \in WritingFor(q)' <=> k \in WritingFor(q)
    BY <1>1, <2>1, WritingIs, WritingIsNext
  <2>3. \A k : k \in Range(held'[q]) \/ (q = r /\ k \in Range(K)) <=> k \in Range(held[q])
    BY <1>3, <1>8
  <2>4. \A k : k \in HeldFor(q)' <=> k \in HeldFor(q)
    BY <1>1, <2>1, <2>3, HeldIs, HeldIsNext
  <2> QED BY <2>2, <2>4
<1>13. Writing' = Writing /\ Holds' = Holds
  BY <1>1, <1>12, SameWriting, SameHolds
<1> QED BY <1>1, <1>11, <1>13, NoL1Step

\* What finish_read leaves of the recency list.
LEMMA TouchedList ==
  ASSUME order \in Seq(Keys), NEW keys \in Seq(Keys), on_finish_read(keys)
  PROVE  order' \in Seq(Keys)
<1> DEFINE freed == LastHold(Range(keys))
<1>1. order' = Without(order, Range(keys)) \o Reverse(Without(keys, freed))
  BY DEF on_finish_read
<1>2. Without(order, Range(keys)) \in Seq(Keys) /\ Without(keys, freed) \in Seq(Keys)
  BY WithoutKeeps
<1>3. Reverse(Without(keys, freed)) \in Seq(Keys)
  BY <1>2, Reversed
<1> QED BY <1>1, <1>2, <1>3, Joined

\* The prefetch thread has nothing for a request whose handlers hold chunks.
LEMMA DropsAfterLookup ==
  ASSUME Inv, NEW h \in handlers, Drops(h), pf.rid = h.rid
  PROVE  Range(h.keys) = {}
<1>1. h.rid \in Requests /\ Ahead(h.rid) /\ h.kind # "STORE"
  BY HandlerFacts DEF Ahead, Drops
<1>2. h.kind \in {"LOOKUP", "STORE"} \/ (h.kind = "END" /\ h.keys = <<>>)
  BY <1>1 DEF Inv, ProtoInv, AheadInv, AheadOf
<1>3. h.kind = "LOOKUP" => h.pc = "start"
  BY DEF Inv, ProtoInv, OnceInv, Handler
<1> QED BY <1>1, <1>2, <1>3, EmptyList DEF Drops

\* release, second half.
LEMMA FinishReleaseStep ==
  ASSUME Inv, NEW h \in handlers, FinishRelease(h), h.kind \in {"FREE", "END", "RETRIEVE"}, h.pc = "finish",
         NEW G, HandlerMove(h, G), \A g \in G : ~Writes(g) /\ ~Drops(g)
  PROVE  [L1!Next]_(L1!vars) /\ ProtoInv'
<1> DEFINE r == h.rid
           K == Range(h.keys)
<1>0. /\ UNCHANGED <<jobs, hits, held, pf, pending, st, lost>> /\ finish_read(K) /\ on_finish_read(h.keys)
      /\ handlers' = (handlers \ {h}) \cup G
  BY DEF FinishRelease, prefetchVars, storeVars, HandlerMove
<1>1. Drops(h) /\ ~Writes(h)
  BY DEF Drops, Writes
<1>2. /\ h.rid \in Requests /\ h.keys \in Seq(Keys) /\ order \in Seq(Keys) /\ K \in SUBSET Keys
      /\ h \in HandlerRec
  BY HandlerFacts
<1>3. ProtoInv'
  <2>1. HoldInv' /\ WriteInv'
    BY <1>0, FreeMove
  <2>2. order' \in Seq(Keys)
    BY <1>0, <1>2, TouchedList
  <2>3. /\ pending' \in Seq(Seq(Keys)) /\ hits' \in [Requests -> HitRec]
        /\ held' \in [Requests -> Seq(Keys)] /\ lost' \in [Requests -> SUBSET Keys]
        /\ \A i \in 1 .. Len(pending') : IsInjective(pending'[i])
        /\ \A q \in Requests : hits'[q] = hits[q]
        /\ \A q \in Requests : Ahead(q) => held'[q] = <<>> /\ lost'[q] = {}
    BY <1>0 DEF Inv, ProtoInv, TypeInv, ThreadType, ServerType, StInv, AheadInv, AheadOf
  <2> QED BY <2>1, <2>2, <2>3, HandlerFrame
<1>4. \A q \in Requests : \A k : (HandlerWrites(q, k)' <=> HandlerWrites(q, k))
                             /\ (HandlerDrops(q, k)' <=> OthersDrop(h, q, k))
  BY <1>0, <1>1, HandlerChange
<1>5. \A q \in Requests : \A k : HandlerDrops(q, k) <=> OthersDrop(h, q, k) \/ (q = r /\ k \in K)
  BY <1>0, <1>1, HandlerChange
<1>6. \A k \in K : k \notin Range(held[r]) /\ k \notin lost[r] /\ ~OthersDrop(h, r, k)
                   /\ ~(pf.rid = r /\ k \in Range(pf.hit))
  <2> TAKE k \in K
  <2>1. k \notin Range(held[r]) /\ k \notin lost[r]
    BY <1>1 DEF Inv, ProtoInv, HoldInv
  <2>2. ~OthersDrop(h, r, k)
    BY <1>1 DEF Inv, ProtoInv, HoldInv, OthersDrop
  <2>3. pf.rid # r
    BY <1>1, DropsAfterLookup
  <2> QED BY <2>1, <2>2, <2>3
<1>7. \A q \in Requests : WritingFor(q)' = WritingFor(q)
  <2> TAKE q \in Requests
  <2>1. \A k : k \in WritingFor(q)' <=> k \in WritingFor(q)
    BY <1>0, <1>4, WritingIs, WritingIsNext
  <2> QED BY <2>1
<1> HIDE DEF K, r
<1>8. HeldFor(r)' = HeldFor(r) \ K /\ K \subseteq HeldFor(r) /\ r \in Requests
  <2>0. r \in Requests
    BY <1>2 DEF r
  <2>1. \A k : k \in HeldFor(r)' <=> k \in HeldFor(r) /\ k \notin K
    BY <1>0, <1>4, <1>5, <1>6, <2>0, HeldIs, HeldIsNext
  <2>2. \A k \in K : k \in HeldFor(r)
    BY <1>5, <2>0, HeldIs
  <2> QED BY <2>0, <2>1, <2>2
<1>9. \A q \in Requests : q # r => HeldFor(q)' = HeldFor(q)
  <2> TAKE q \in Requests
  <2> HAVE q # r
  <2>1. \A k : k \in HeldFor(q)' <=> k \in HeldFor(q)
    BY <1>0, <1>4, <1>5, HeldIs, HeldIsNext
  <2> QED BY <2>1
<1>10. Writing' = Writing
  BY <1>7, SameWriting
<1>11. Holds' = [Holds EXCEPT ![r] = HeldFor(r) \ K] /\ r \in L1Clients /\ Holds[r] = HeldFor(r)
  BY <1>0, <1>8, <1>9, HoldsChange
<1>12. [L1!Next]_(L1!vars)
  BY <1>0, <1>2, <1>8, <1>10, <1>11, DoFinishRead
<1> QED BY <1>3, <1>12

\* A FREE or a RETRIEVE drops its holds and ends.
LEMMA FreeFinishStep ==
  ASSUME Inv, NEW h \in handlers, FreeFinish(h) \/ RetrieveFinish(h)
  PROVE  [L1!Next]_(L1!vars) /\ ProtoInv'
<1>1. /\ h.kind \in {"FREE", "RETRIEVE"} /\ h.pc = "finish" /\ FinishRelease(h)
      /\ handlers' = (handlers \ {h}) \cup {}
  BY DEF FreeFinish, RetrieveFinish, At, Ends
<1>2. HandlerMove(h, {})
  BY <1>1 DEF HandlerMove, FinishRelease, prefetchVars, storeVars
<1> QED BY <1>1, <1>2, FinishReleaseStep

\* An END drops its holds.
LEMMA EndFinishStep ==
  ASSUME Inv, NEW h \in handlers, EndFinish(h)
  PROVE  [L1!Next]_(L1!vars) /\ ProtoInv'
<1> DEFINE e == <<>>
           g == [h EXCEPT !.pc = "pop", !.keys = e]
<1>1. /\ h.kind = "END" /\ h.pc = "finish" /\ FinishRelease(h)
      /\ handlers' = (handlers \ {h}) \cup {g}
  BY DEF EndFinish, At, Becomes
<1>5. e \in Seq(Keys)
  OBVIOUS
<1> HIDE DEF e
<1>6. g \in HandlerRec /\ g.rid = h.rid /\ g.kind = "END" /\ g.pc = "pop" /\ g.keys = e
  BY <1>1, <1>5, HandlerFacts DEF HandlerRec
<1> HIDE DEF g
<1>2. g \in HandlerRec /\ g.rid = h.rid /\ g.kind = "END" /\ g.pc = "pop" /\ g.keys = <<>>
  BY <1>6 DEF e
<1>3. HandlerMove(h, {g})
  BY <1>1, <1>2, EmptyList DEF HandlerMove, FinishRelease, prefetchVars, storeVars
<1>4. ~Writes(g) /\ ~Drops(g)
  BY <1>2 DEF Writes, Drops
<1> QED BY <1>1, <1>3, <1>4, FinishReleaseStep

\* end_session forgets the request.
LEMMA EndPopStep ==
  ASSUME Inv, NEW h \in handlers, EndPop(h)
  PROVE  [L1!Next]_(L1!vars) /\ ProtoInv'
<1> DEFINE r == h.rid
<1>1. /\ h.kind = "END" /\ h.pc = "pop" /\ handlers' = (handlers \ {h}) \cup {}
      /\ hits' = [hits EXCEPT ![r] = Absent] /\ held' = [held EXCEPT ![r] = <<>>]
      /\ lost' = [lost EXCEPT ![r] = lost[r] \cup Range(held[r])]
      /\ UNCHANGED <<l1Vars, order, stored, tasks, futures, jobs, pf, pending, st, ev, cl>>
  BY DEF EndPop, At, Ends, l2Vars, storeVars
<1>2. /\ r \in Requests /\ held \in [Requests -> Seq(Keys)] /\ lost \in [Requests -> SUBSET Keys]
      /\ hits \in [Requests -> HitRec]
  BY HandlerFacts DEF Inv, ProtoInv, TypeInv, ThreadType, ServerType
<1> HIDE DEF r
<1>3. /\ held' \in [Requests -> Seq(Keys)] /\ held'[r] = <<>>
      /\ \A q \in Requests : q # r => held'[q] = held[q]
  BY <1>1, <1>2
<1>4. /\ lost' \in [Requests -> SUBSET Keys] /\ lost'[r] = lost[r] \cup Range(held[r])
      /\ \A q \in Requests : q # r => lost'[q] = lost[q]
  <2>1. Range(held[r]) \subseteq Keys
    BY <1>2, RangeOf
  <2> QED BY <1>1, <1>2, <2>1
<1>5. /\ hits' \in [Requests -> HitRec]
      /\ \A q \in Requests : hits'[q] = hits[q] \/ hits'[q] = Absent
  BY <1>1, <1>2 DEF HitRec, Absent
<1>6. HandlerMove(h, {})
  BY <1>1 DEF HandlerMove, l2Vars
<1>7. HoldInv' /\ WriteInv'
  <2>1. \A q \in Requests : IsInjective(held'[q]) /\ Range(held'[q]) \cap lost'[q] = {}
    BY <1>3, <1>4, EmptyList DEF Inv, ProtoInv, HoldInv
  <2>2. \A f \in handlers : f.rid \in Requests
    BY HandlerFacts
  <2>3. \A q \in Requests : Range(held'[q]) \cup lost'[q] = Range(held[q]) \cup lost[q]
    BY <1>3, <1>4, EmptyList
  <2>4. \A f \in handlers' : f \in handlers
    BY <1>1
  <2>5. HoldInv'
    BY <2>1, <2>2, <2>3, <2>4 DEF Inv, ProtoInv, HoldInv
  <2>6. WriteInv'
    BY <1>1, <2>4 DEF Inv, ProtoInv, WriteInv
  <2> QED BY <2>5, <2>6
<1>8. ProtoInv'
  <2>1. /\ order' \in Seq(Keys) /\ pending' \in Seq(Seq(Keys))
        /\ \A i \in 1 .. Len(pending') : IsInjective(pending'[i])
    BY <1>1 DEF Inv, ProtoInv, TypeInv, ThreadType, StInv
  <2>2. \A q \in Requests : Ahead(q) => held'[q] = <<>> /\ lost'[q] = {}
    <3> TAKE q \in Requests
    <3> HAVE Ahead(q)
    <3>1. held[q] = <<>> /\ lost[q] = {}
      BY DEF Inv, ProtoInv, AheadInv, AheadOf
    <3>2. CASE q = r
      BY <1>3, <1>4, <3>1, <3>2, EmptyList
    <3>3. CASE q # r
      BY <1>3, <1>4, <3>1, <3>3
    <3> QED BY <3>2, <3>3
  <2> QED BY <1>3, <1>4, <1>5, <1>6, <1>7, <2>1, <2>2, HandlerFrame
<1>9. \A q \in Requests : WritingFor(q)' = WritingFor(q) /\ HeldFor(q)' = HeldFor(q)
  <2> TAKE q \in Requests
  <2>1. ~Writes(h) /\ ~Drops(h)
    BY <1>1 DEF Writes, Drops
  <2>2. \A k : (HandlerWrites(q, k)' <=> HandlerWrites(q, k)) /\ (HandlerDrops(q, k)' <=> HandlerDrops(q, k))
    BY <1>1, <2>1, HandlerEnds
  <2>3. \A k : k \in WritingFor(q)' <=> k \in WritingFor(q)
    BY <1>1, <2>2, WritingIs, WritingIsNext
  <2>4. \A k : k \in Range(held'[q]) \/ k \in lost'[q] <=> k \in Range(held[q]) \/ k \in lost[q]
    BY <1>3, <1>4, EmptyList
  <2>5. \A k : k \in HeldFor(q)' <=> k \in HeldFor(q)
    BY <1>1, <2>2, <2>4, HeldIs, HeldIsNext
  <2> QED BY <2>3, <2>5
<1>10. Writing' = Writing /\ Holds' = Holds
  BY <1>1, <1>9, SameWriting, SameHolds
<1> QED BY <1>1, <1>8, <1>10, NoL1Step

\* The slices of entries.
LEMMA ObjsType ==
  ASSUME Inv, NEW keys \in Seq(Keys), Range(keys) \subseteq DOMAIN entries
  PROVE  /\ ObjsOf(keys) \in Seq(MemoryObj) /\ Len(ObjsOf(keys)) = Len(keys)
         /\ \A i \in 1 .. Len(keys) : ObjsOf(keys)[i] = entries[keys[i]].obj
<1>1. \A i \in 1 .. Len(keys) : keys[i] \in Range(keys)
  BY RangeOf
<1>2. \A i \in 1 .. Len(keys) : entries[keys[i]].obj \in MemoryObj
  BY <1>1, ContractFacts DEF Inv
<1>3. Len(keys) \in Nat
  OBVIOUS
<1> QED BY <1>2, <1>3 DEF ObjsOf

\* A RETRIEVE collects the slices of its chunks.
LEMMA RetrieveReadStep ==
  ASSUME Inv, NEW h \in handlers, RetrieveRead(h)
  PROVE  [L1!Next]_(L1!vars) /\ ProtoInv'
<1>0. h.kind = "RETRIEVE" /\ h.pc = "start" /\ UNCHANGED <<smVars, cl, lost>>
  BY DEF RetrieveRead, At
<1>1. ~Writes(h) /\ ~Drops(h)
  BY <1>0 DEF Writes, Drops
<1>2. CASE Ends(h)
  <2>1. HandlerMove(h, {})
    BY <1>0, <1>2 DEF HandlerMove, Ends, smVars, prefetchVars, storeVars
  <2> QED BY <1>0, <1>1, <2>1, IdleMove
<1> DEFINE g == [h EXCEPT !.pc = "send", !.objs = ObjsOf(h.keys)]
<1>3. CASE Range(h.keys) \subseteq DOMAIN entries /\ Becomes(h, g)
  <2>1. ObjsOf(h.keys) \in Seq(MemoryObj) /\ h \in HandlerRec /\ IsInjective(h.keys)
    BY <1>3, HandlerFacts, ObjsType
  <2>2. /\ g \in HandlerRec /\ g.rid = h.rid /\ g.kind = "RETRIEVE" /\ g.pc = "send" /\ g.keys = h.keys
    BY <1>0, <2>1 DEF HandlerRec
  <2>3. handlers' = (handlers \ {h}) \cup {g}
    BY <1>3 DEF Becomes
  <2> HIDE DEF g
  <2>4. HandlerMove(h, {g})
    BY <1>0, <2>1, <2>2, <2>3 DEF HandlerMove, smVars, prefetchVars, storeVars
  <2>5. ~Writes(g) /\ ~Drops(g)
    BY <2>2 DEF Writes, Drops
  <2> QED BY <1>0, <1>1, <2>4, <2>5, IdleMove
<1> QED BY <1>2, <1>3 DEF RetrieveRead

\* A RETRIEVE sends them.
LEMMA RetrieveSendStep ==
  ASSUME Inv, NEW h \in handlers, RetrieveSend(h)
  PROVE  [L1!Next]_(L1!vars) /\ ProtoInv'
<1> DEFINE e == <<>>
           g == [h EXCEPT !.pc = "promote", !.objs = e]
<1>0. /\ h.kind = "RETRIEVE" /\ h.pc = "send" /\ UNCHANGED <<smVars, cl, lost>>
      /\ handlers' = (handlers \ {h}) \cup {g}
  BY DEF RetrieveSend, At, Becomes
<1>1. h \in HandlerRec /\ IsInjective(h.keys)
  BY HandlerFacts
<1>5. e \in Seq(MemoryObj)
  OBVIOUS
<1> HIDE DEF e
<1>2. /\ g \in HandlerRec /\ g.rid = h.rid /\ g.kind = "RETRIEVE" /\ g.pc = "promote" /\ g.keys = h.keys
  BY <1>0, <1>1, <1>5 DEF HandlerRec
<1> HIDE DEF g
<1>3. HandlerMove(h, {g})
  BY <1>0, <1>1, <1>2 DEF HandlerMove, smVars, prefetchVars, storeVars
<1>4. ~Writes(g) /\ ~Drops(g) /\ ~Writes(h) /\ ~Drops(h)
  BY <1>0, <1>2 DEF Writes, Drops
<1> QED BY <1>0, <1>3, <1>4, IdleMove

\* A STORE of a rank that has unregistered raises.
LEMMA StoreUnknownStep ==
  ASSUME Inv, NEW h \in handlers, StoreUnknown(h)
  PROVE  [L1!Next]_(L1!vars) /\ ProtoInv'
<1>0. /\ h.kind = "STORE" /\ h.pc = "start" /\ UNCHANGED <<smVars, cl, lost>>
      /\ handlers' = (handlers \ {h}) \cup {}
  BY DEF StoreUnknown, At, Ends
<1>1. HandlerMove(h, {})
  BY <1>0 DEF HandlerMove, smVars, prefetchVars, storeVars
<1>2. ~Writes(h) /\ ~Drops(h)
  BY <1>0 DEF Writes, Drops
<1> QED BY <1>0, <1>1, <1>2, IdleMove

\* A RETRIEVE makes its chunks permanent.
LEMMA RetrievePromoteStep ==
  ASSUME Inv, NEW h \in handlers, RetrievePromote(h)
  PROVE  [L1!Next]_(L1!vars) /\ ProtoInv'
<1> DEFINE g == [h EXCEPT !.pc = "release"]
<1>0. /\ h.kind = "RETRIEVE" /\ h.pc = "promote" /\ promote(Range(h.keys))
      /\ UNCHANGED <<order, stored, tasks, futures, jobs, hits, held, pf, pending, st, ev, cl, lost>>
      /\ handlers' = (handlers \ {h}) \cup {g}
  BY DEF RetrievePromote, At, Becomes, l2Vars, prefetchVars, storeVars
<1>1. h \in HandlerRec /\ IsInjective(h.keys) /\ Range(h.keys) \in SUBSET Keys
  BY HandlerFacts
<1>2. /\ g \in HandlerRec /\ g.rid = h.rid /\ g.kind = "RETRIEVE" /\ g.pc = "release" /\ g.keys = h.keys
  BY <1>0, <1>1 DEF HandlerRec
<1> HIDE DEF g
<1>3. HandlerMove(h, {g})
  BY <1>0, <1>1, <1>2 DEF HandlerMove, l2Vars
<1>4. ~Writes(g) /\ ~Drops(g) /\ ~Writes(h) /\ ~Drops(h)
  BY <1>0, <1>2 DEF Writes, Drops
<1>5. ProtoInv'
  BY <1>0, <1>3, <1>4, FreeMove, QuietMove
<1>6. \A r \in Requests : \A k : (HandlerWrites(r, k)' <=> HandlerWrites(r, k))
                             /\ (HandlerDrops(r, k)' <=> HandlerDrops(r, k))
  BY <1>0, <1>4, HandlerBecomes
<1>7. \A r \in Requests : WritingFor(r)' = WritingFor(r) /\ HeldFor(r)' = HeldFor(r)
  BY <1>0, <1>6, OwnersStay
<1>8. Writing' = Writing /\ Holds' = Holds
  BY <1>0, <1>7, SameWriting, SameHolds
<1> QED BY <1>0, <1>1, <1>5, <1>8, DoPromote

\* The chunks that are written have entries.
LEMMA WrittenHasEntry ==
  ASSUME Inv
  PROVE  /\ \A h \in handlers : Writes(h) => Range(h.keys) \subseteq DOMAIN entries
         /\ Range(pf.load) \subseteq DOMAIN entries
         /\ \A h \in handlers : Drops(h) => \A k \in Range(h.keys) : readable(k)
<1>1. \A r \in Requests : \A k \in WritingFor(r) : k \in DOMAIN entries
  <2> TAKE r \in Requests
  <2>1. r \in L1Clients /\ Writing[r] = WritingFor(r)
    BY Owners
  <2> QED BY <2>1, ContractFacts DEF Inv
<1>2. \A r \in Requests : \A k \in HeldFor(r) : readable(k)
  <2> TAKE r \in Requests
  <2>1. r \in L1Clients /\ Holds[r] = HeldFor(r)
    BY Owners
  <2> QED BY <2>1, ContractFacts DEF Inv
<1>3. ASSUME NEW h \in handlers, Writes(h) PROVE Range(h.keys) \subseteq DOMAIN entries
  <2>1. h.rid \in Requests /\ \A k \in Range(h.keys) : HandlerWrites(h.rid, k)
    BY <1>3, HandlerFacts DEF HandlerWrites
  <2> QED BY <1>1, <2>1, WritingIs
<1>4. Range(pf.load) \subseteq DOMAIN entries
  <2>1. CASE pf.pc = "get"
    <3>1. pf.load = <<>>
      BY <2>1 DEF Inv, ProtoInv, PfInv, PfIdle
    <3> QED BY <3>1, EmptyList
  <2>2. CASE pf.pc # "get"
    <3>1. pf.rid \in Requests
      BY <2>2 DEF Inv, ProtoInv, PfInv
    <3> QED BY <1>1, <3>1, WritingIs
  <2> QED BY <2>1, <2>2
<1>5. ASSUME NEW h \in handlers, Drops(h) PROVE \A k \in Range(h.keys) : readable(k)
  <2>1. h.rid \in Requests /\ \A k \in Range(h.keys) : HandlerDrops(h.rid, k)
    BY <1>5, HandlerFacts DEF HandlerDrops
  <2> QED BY <1>2, <2>1, HeldIs
<1> QED BY <1>3, <1>4, <1>5

\* What a STORE reserves.
LEMMA ReservedEntries ==
  ASSUME NEW keys, NEW nbytes, NEW temporary, reserve_write(keys, nbytes, temporary)
  PROVE  /\ DOMAIN entries' = DOMAIN entries \cup keys
         /\ \A k \in DOMAIN entries : entries'[k] = entries[k]
         /\ \A k \in Missing(keys) : /\ entries'[k].is_temporary = temporary
                                     /\ entries'[k].write_locked = TRUE
<1>1. PICK slot :
        entries' = [k \in DOMAIN entries \cup keys |->
                      IF k \in DOMAIN entries THEN entries[k]
                      ELSE NewEntry([offset |-> slot[k], nbytes |-> nbytes], temporary)]
  BY DEF reserve_write
<1> QED BY <1>1 DEF NewEntry, Missing

\* The owners when a STORE starts to write.
LEMMA StoreReserveStep ==
  ASSUME Inv, NEW h \in handlers, StoreReserve(h)
  PROVE  [L1!Next]_(L1!vars) /\ ProtoInv'
<1> DEFINE r == h.rid
           K == Selected(h.keys, Missing(Range(h.keys)))
           O == [i \in 1 .. Len(K) |-> entries'[K[i]].obj]
           pc == IF K = <<>> THEN "finish" ELSE "copy"
           g == [h EXCEPT !.pc = pc, !.keys = K, !.objs = O]
<1>0. /\ h.kind = "STORE" /\ h.pc = "start" /\ reserve_write(Range(h.keys), ChunkNBytes, FALSE)
      /\ UNCHANGED <<order, stored, tasks, futures, jobs, hits, held, pf, pending, st, ev, cl, lost>>
      /\ handlers' = (handlers \ {h}) \cup {g}
  BY DEF StoreReserve, At, Becomes, l2Vars, prefetchVars, storeVars
<1>1. /\ h \in HandlerRec /\ IsInjective(h.keys) /\ Range(h.keys) \in SUBSET Keys /\ h.keys \in Seq(Keys)
      /\ r \in Requests
  BY HandlerFacts
<1>2. /\ K \in Seq(Keys) /\ IsInjective(K) /\ Range(K) = Missing(Range(h.keys))
  BY <1>1, SelectedKeeps DEF Missing
<1> HIDE DEF K
<1> DEFINE G == {g}
<1>3. g.rid = r /\ g.kind = "STORE" /\ g.keys = K /\ g.pc \in {"finish", "copy"} /\ g.objs = O
  BY <1>0, <1>1 DEF HandlerRec
<1>4. Writes(g) /\ ~Drops(g) /\ ~Writes(h) /\ ~Drops(h)
  BY <1>0, <1>3 DEF Writes, Drops
<1> HIDE DEF g, r
<1>5. \A q, k : /\ HandlerWrites(q, k)' <=> HandlerWrites(q, k) \/ (q = r /\ k \in Range(K))
                /\ HandlerDrops(q, k)' <=> HandlerDrops(q, k)
  BY <1>0, <1>3, <1>4, HandlerBecomes
<1>6. \A q \in Requests : HeldFor(q)' = HeldFor(q)
  <2> TAKE q \in Requests
  <2>1. \A k : k \in HeldFor(q)' <=> k \in HeldFor(q)
    BY <1>0, <1>5, HeldIs, HeldIsNext
  <2> QED BY <2>1
<1>7. WritingFor(r)' = WritingFor(r) \cup Missing(Range(h.keys))
  <2>1. \A k : k \in WritingFor(r)' <=> k \in WritingFor(r) \/ k \in Range(K)
    BY <1>0, <1>5, WritingIs, WritingIsNext
  <2> QED BY <1>2, <2>1
<1>8. \A q \in Requests : q # r => WritingFor(q)' = WritingFor(q)
  <2> TAKE q \in Requests
  <2> HAVE q # r
  <2>1. \A k : k \in WritingFor(q)' <=> k \in WritingFor(q)
    BY <1>0, <1>5, WritingIs, WritingIsNext
  <2> QED BY <2>1
<1>9. [L1!Next]_(L1!vars)
  <2>1. Holds' = Holds
    BY <1>0, <1>6, SameHolds
  <2>2. /\ Writing' = [Writing EXCEPT ![r] = WritingFor(r) \cup Missing(Range(h.keys))]
        /\ r \in L1Clients /\ Writing[r] = WritingFor(r)
    BY <1>1, <1>7, <1>8, WritingChanges
  <2> QED BY <1>0, <1>1, <2>1, <2>2, DoReserveWrite
<1>10. L1!IInv'
  BY <1>9, ContractStep DEF Inv
<1>11. O \in Seq(MemoryObj)
  <2>1. \A k \in Range(K) : k \in DOMAIN entries'
    BY <1>0, <1>2, ReservedEntries DEF Missing
  <2>2. \A i \in 1 .. Len(K) : K[i] \in Range(K)
    BY <1>2, RangeOf
  <2>3. \A k \in DOMAIN entries' : entries'[k].obj \in MemoryObj
    <3>1. L1!TypeOK'
      BY <1>10 DEF L1!IInv
    <3>2. entries' \in [DOMAIN entries' -> Entry]
      BY <3>1 DEF L1!TypeOK, L1!Entry, Entry, L1!MemoryObj, MemoryObj
    <3> QED BY <3>2 DEF Entry
  <2>4. Len(K) \in Nat
    BY <1>2
  <2> QED BY <2>1, <2>2, <2>3, <2>4
<1> HIDE DEF O
<1>12. g \in HandlerRec
  <2>1. pc \in {"finish", "copy"}
    OBVIOUS
  <2> HIDE DEF pc
  <2> QED BY <1>1, <1>2, <1>11, <2>1 DEF g, HandlerRec
<1>13. HandlerMove(h, {g})
  BY <1>0, <1>2, <1>3, <1>12 DEF HandlerMove, l2Vars, r
<1>14. HoldInv'
  BY <1>0, <1>2, <1>3, <1>4 DEF Inv, ProtoInv, HoldInv
<1>15. WriteInv'
  <2>1. \A f \in handlers : Writes(f) => Range(f.keys) \cap Range(K) = {}
    BY <1>2, WrittenHasEntry DEF Missing
  <2>2. Range(pf.load) \cap Range(K) = {}
    BY <1>2, WrittenHasEntry DEF Missing
  <2> QED BY <1>0, <1>3, <2>1, <2>2 DEF Inv, ProtoInv, WriteInv
<1>16. ProtoInv'
  BY <1>0, <1>13, <1>14, <1>15, QuietMove
<1> QED BY <1>9, <1>16

\* The pool is full.
LEMMA StoreReserveNoneStep ==
  ASSUME Inv, NEW h \in handlers, StoreReserveNone(h)
  PROVE  [L1!Next]_(L1!vars) /\ ProtoInv'
<1> DEFINE e == <<>>
           g == [h EXCEPT !.pc = "finish", !.keys = e]
<1>0. /\ h.kind = "STORE" /\ h.pc = "start" /\ reserve_write_none(Range(h.keys), ChunkNBytes)
      /\ UNCHANGED <<order, stored, tasks, futures, jobs, hits, held, pf, pending, st, ev, cl, lost>>
      /\ handlers' = (handlers \ {h}) \cup {g}
  BY DEF StoreReserveNone, At, Becomes, l2Vars, prefetchVars, storeVars
<1>1. /\ h \in HandlerRec /\ Range(h.keys) \in SUBSET Keys /\ h.rid \in Requests
  BY HandlerFacts
<1>2. e \in Seq(Keys) /\ Range(e) = {} /\ IsInjective(e)
  BY EmptyList
<1> HIDE DEF e
<1>3. g \in HandlerRec /\ g.rid = h.rid /\ g.kind = "STORE" /\ g.keys = e /\ g.pc = "finish"
  BY <1>0, <1>1, <1>2 DEF HandlerRec
<1>4. Writes(g) /\ ~Drops(g) /\ ~Writes(h) /\ ~Drops(h)
  BY <1>0, <1>3 DEF Writes, Drops
<1> HIDE DEF g
<1>5. \A r \in Requests : \A k : (HandlerWrites(r, k)' <=> HandlerWrites(r, k))
                             /\ (HandlerDrops(r, k)' <=> HandlerDrops(r, k))
  BY <1>0, <1>2, <1>3, <1>4, HandlerBecomes
<1>6. \A r \in Requests : WritingFor(r)' = WritingFor(r) /\ HeldFor(r)' = HeldFor(r)
  BY <1>0, <1>5, OwnersStay
<1>7. Writing' = Writing /\ Holds' = Holds
  BY <1>0, <1>6, SameWriting, SameHolds
<1>8. HandlerMove(h, {g})
  BY <1>0, <1>2, <1>3 DEF HandlerMove, l2Vars
<1>9. HoldInv'
  BY <1>0, <1>2, <1>3, <1>4 DEF Inv, ProtoInv, HoldInv
<1>10. WriteInv'
  BY <1>0, <1>2, <1>3 DEF Inv, ProtoInv, WriteInv
<1> QED BY <1>0, <1>1, <1>7, <1>8, <1>9, <1>10, QuietMove, DoReserveWriteNone

\* A chunk of a STORE is copied in.
LEMMA StoreCopyStep ==
  ASSUME Inv, NEW h \in handlers, StoreCopy(h)
  PROVE  [L1!Next]_(L1!vars) /\ ProtoInv'
<1> DEFINE pc == IF h.n + 1 = Len(h.keys) THEN "finish" ELSE "copy"
           m == h.n + 1
           g == [h EXCEPT !.n = m, !.pc = pc]
           k == h.keys[h.n + 1]
<1>0. /\ h.kind = "STORE" /\ h.pc = "copy" /\ write_bytes(h.objs[h.n + 1], k)
      /\ UNCHANGED <<allocVars, entries, order, stored, tasks, futures, jobs, hits, held, pf, pending,
                     st, ev, cl, lost>>
      /\ handlers' = (handlers \ {h}) \cup {g}
  BY DEF StoreCopy, At, Becomes, l2Vars, prefetchVars, storeVars
<1>1. /\ h \in HandlerRec /\ h.keys \in Seq(Keys) /\ h.rid \in Requests /\ h.n \in Nat /\ IsInjective(h.keys)
  BY HandlerFacts
<1>2. pc \in {"finish", "copy"} /\ m \in Nat
  BY <1>1
<1>3. Writes(h) /\ ~Drops(h)
  BY <1>0 DEF Writes, Drops
<1>4. h.n < Len(h.keys) /\ Slices(h.objs, h.keys)
  BY <1>0, <1>3 DEF Inv, DataInv, StoreData
<1>5. h.n + 1 \in 1 .. Len(h.keys) /\ h.objs[h.n + 1] = entries[k].obj /\ k \in Range(h.keys) /\ k \in Keys
  <2>1. h.n + 1 \in 1 .. Len(h.keys)
    BY <1>1, <1>4
  <2> QED BY <1>1, <1>4, <2>1, RangeOf DEF Slices
<1> HIDE DEF pc, m, k
<1>6. g \in HandlerRec /\ g.rid = h.rid /\ g.kind = "STORE" /\ g.keys = h.keys /\ g.pc \in {"finish", "copy"}
  BY <1>0, <1>1, <1>2 DEF HandlerRec
<1>7. Writes(g) /\ ~Drops(g)
  BY <1>6 DEF Writes, Drops
<1> HIDE DEF g
<1>8. \A r \in Requests : \A l : (HandlerWrites(r, l)' <=> HandlerWrites(r, l))
                             /\ (HandlerDrops(r, l)' <=> HandlerDrops(r, l))
  BY <1>0, <1>3, <1>6, <1>7, HandlerBecomes
<1>9. \A r \in Requests : WritingFor(r)' = WritingFor(r) /\ HeldFor(r)' = HeldFor(r)
  BY <1>0, <1>8, OwnersStay
<1>10. Writing' = Writing /\ Holds' = Holds
  BY <1>0, <1>9, SameWriting, SameHolds
<1>11. HandlerMove(h, {g})
  BY <1>0, <1>1, <1>6 DEF HandlerMove, l2Vars
<1>12. HoldInv'
  BY <1>0, <1>1, <1>6, <1>7 DEF Inv, ProtoInv, HoldInv
<1>13. WriteInv'
  BY <1>0, <1>3, <1>6 DEF Inv, ProtoInv, WriteInv
<1>14. ProtoInv'
  BY <1>0, <1>11, <1>12, <1>13, QuietMove
<1>15. h.rid \in L1Clients /\ k \in Writing[h.rid]
  <2>1. k \in WritingFor(h.rid)
    BY <1>3, <1>5, WritingIs DEF HandlerWrites
  <2> QED BY <1>1, <2>1, Owners
<1>16. [L1!Next]_(L1!vars)
  BY <1>0, <1>5, <1>10, <1>15, DoFill
<1> QED BY <1>14, <1>16

\* A STORE publishes its chunks and queues them for the adapters.
LEMMA StoreFinishStep ==
  ASSUME Inv, NEW h \in handlers, StoreFinish(h)
  PROVE  [L1!Next]_(L1!vars) /\ ProtoInv'
<1> DEFINE r == h.rid
           K == Range(h.keys)
<1>0. /\ h.kind = "STORE" /\ h.pc = "finish" /\ finish_write(K)
      /\ on_created(h.keys) /\ on_write_finished(h.keys)
      /\ UNCHANGED <<stored, tasks, futures, jobs, hits, held, pf, st, ev, cl, lost>>
      /\ handlers' = (handlers \ {h}) \cup {}
  BY DEF StoreFinish, At, Ends, l2Vars, prefetchVars
<1>1. /\ h \in HandlerRec /\ h.keys \in Seq(Keys) /\ h.rid \in Requests /\ IsInjective(h.keys)
      /\ K \in SUBSET Keys /\ order \in Seq(Keys)
  BY HandlerFacts
<1>2. Writes(h) /\ ~Drops(h)
  BY <1>0 DEF Writes, Drops
<1>3. /\ Slices(h.objs, h.keys) /\ FilledTo(h.objs, h.keys, Len(h.keys))
      /\ \A k \in K : ~entries[k].is_temporary
  BY <1>0, <1>2 DEF Inv, DataInv, StoreData
<1>4. \A k \in K : HasBytes(entries[k].obj, k)
  <2> TAKE k \in K
  <2>1. PICK i \in 1 .. Len(h.keys) : h.keys[i] = k
    BY <1>1, RangeOf
  <2> QED BY <1>3, <2>1 DEF Slices, FilledTo
<1>5. HandlerMove(h, {})
  BY <1>0 DEF HandlerMove, l2Vars
<1>6. ProtoInv'
  <2>1. HoldInv' /\ WriteInv'
    BY <1>0, <1>5, FreeMove
  <2>2. order' \in Seq(Keys)
    <3>1. order' = Without(order, K) \o Reverse(h.keys)
      BY <1>0 DEF on_created
    <3>2. Without(order, K) \in Seq(Keys) /\ Reverse(h.keys) \in Seq(Keys)
      BY <1>1, WithoutKeeps, Reversed
    <3> QED BY <3>1, <3>2, Joined
  <2>3. pending \in Seq(Seq(Keys)) /\ \A i \in 1 .. Len(pending) : IsInjective(pending[i])
    BY DEF Inv, ProtoInv, TypeInv, ThreadType, StInv
  <2>4. pending' \in Seq(Seq(Keys)) /\ \A i \in 1 .. Len(pending') : IsInjective(pending'[i])
    <3>1. CASE pending' = pending
      BY <2>3, <3>1
    <3>2. CASE pending' = Append(pending, h.keys)
      <4>1. /\ pending' \in Seq(Seq(Keys)) /\ Len(pending') = Len(pending) + 1 /\ Len(pending) \in Nat
            /\ \A i \in 1 .. Len(pending) : pending'[i] = pending[i]
            /\ pending'[Len(pending) + 1] = h.keys
        BY <1>1, <2>3, <3>2, AppendProperties
      <4>2. \A i \in 1 .. Len(pending') : i \in 1 .. Len(pending) \/ i = Len(pending) + 1
        BY <4>1
      <4> QED BY <1>1, <2>3, <4>1, <4>2
    <3> QED BY <1>0, <3>1, <3>2 DEF on_write_finished
  <2>5. /\ hits' \in [Requests -> HitRec]
        /\ held' \in [Requests -> Seq(Keys)] /\ lost' \in [Requests -> SUBSET Keys]
        /\ \A q \in Requests : hits'[q] = hits[q]
        /\ \A q \in Requests : Ahead(q) => held'[q] = <<>> /\ lost'[q] = {}
    BY <1>0 DEF Inv, ProtoInv, TypeInv, ThreadType, ServerType, AheadInv, AheadOf
  <2> QED BY <1>5, <2>1, <2>2, <2>4, <2>5, HandlerFrame
<1>7. \A q \in Requests : \A k : /\ HandlerDrops(q, k)' <=> HandlerDrops(q, k)
                                 /\ HandlerWrites(q, k)' <=> OthersWrite(h, q, k)
                                 /\ HandlerWrites(q, k) <=> OthersWrite(h, q, k) \/ (q = r /\ k \in K)
  <2> TAKE q \in Requests
  <2> TAKE k
  <2>1. /\ HandlerWrites(q, k) <=> OthersWrite(h, q, k) \/ (h.rid = q /\ Writes(h) /\ k \in Range(h.keys))
        /\ HandlerWrites(q, k)' <=> OthersWrite(h, q, k)
    BY <1>0, HandlerEnds
  <2>2. HandlerDrops(q, k)' <=> HandlerDrops(q, k)
    BY <1>0, <1>2, HandlerEnds
  <2> QED BY <1>2, <2>1, <2>2
<1>8. \A k \in K : ~OthersWrite(h, r, k) /\ k \notin Range(pf.load)
  BY <1>2 DEF Inv, ProtoInv, WriteInv, OthersWrite
<1> HIDE DEF r, K
<1>9. r \in Requests
  BY <1>1 DEF r
<1>10. WritingFor(r)' = WritingFor(r) \ K /\ K \subseteq WritingFor(r)
  <2>1. \A k : k \in WritingFor(r)' <=> k \in WritingFor(r) /\ k \notin K
    BY <1>0, <1>7, <1>8, <1>9, WritingIs, WritingIsNext
  <2>2. \A k \in K : k \in WritingFor(r)
    BY <1>7, <1>9, WritingIs
  <2> QED BY <2>1, <2>2
<1>11. \A q \in Requests : q # r => WritingFor(q)' = WritingFor(q)
  <2> TAKE q \in Requests
  <2> HAVE q # r
  <2>1. \A k : k \in WritingFor(q)' <=> k \in WritingFor(q)
    BY <1>0, <1>7, WritingIs, WritingIsNext
  <2> QED BY <2>1
<1>12. \A q \in Requests : HeldFor(q)' = HeldFor(q)
  <2> TAKE q \in Requests
  <2>1. \A k : k \in HeldFor(q)' <=> k \in HeldFor(q)
    BY <1>0, <1>7, HeldIs, HeldIsNext
  <2> QED BY <2>1
<1>13. Holds' = Holds
  BY <1>0, <1>12, SameHolds
<1>14. Writing' = [Writing EXCEPT ![r] = WritingFor(r) \ K] /\ r \in L1Clients /\ Writing[r] = WritingFor(r)
  BY <1>9, <1>10, <1>11, WritingChanges
<1>15. [L1!Next]_(L1!vars)
  BY <1>0, <1>1, <1>3, <1>4, <1>10, <1>13, <1>14, DoFinishWrite
<1> QED BY <1>6, <1>15

\* A lookup is queued.
LEMMA HandleLookupStep ==
  ASSUME Inv, NEW h \in handlers, HandleLookup(h)
  PROVE  [L1!Next]_(L1!vars) /\ ProtoInv'
<1> DEFINE r == h.rid
           K == IF deployed THEN LookupKeys(h.rid) ELSE <<>>
           j == [rid |-> r, keys |-> K]
<1>0. /\ h.kind = "LOOKUP" /\ h.pc = "start" /\ handlers' = (handlers \ {h}) \cup {}
      /\ hits' = [hits EXCEPT ![r] = Pending] /\ jobs' = Append(jobs, j)
      /\ UNCHANGED <<l1Vars, order, stored, tasks, futures, held, pf, pending, st, ev, cl, lost>>
  BY DEF HandleLookup, At, Ends, l2Vars, storeVars
<1>1. /\ r \in Requests /\ jobs \in Seq(JobRec) /\ hits \in [Requests -> HitRec]
      /\ handlers \subseteq HandlerRec
  BY HandlerFacts DEF Inv, ProtoInv, TypeInv, ThreadType, ServerType
<1>2. h = Handler("LOOKUP", r, 0) /\ pf.rid # r /\ ~Queued(r) /\ LookedUp(r) /\ cl[r].pc # "new"
  BY <1>0, <1>1 DEF Inv, ProtoInv, OnceInv, LookedUp
<1>3. j \in JobRec /\ j.rid = r /\ j.keys \in {LookupKeys(r), <<>>}
  <2>1. K \in Seq(Keys) /\ K \in {LookupKeys(r), <<>>}
    BY <1>1, LookupKey
  <2> HIDE DEF K, r
  <2> QED BY <1>1, <2>1 DEF JobRec
<1> HIDE DEF j, r
<1>4. /\ jobs' \in Seq(JobRec) /\ Len(jobs') = Len(jobs) + 1 /\ Len(jobs) \in Nat
      /\ \A i \in 1 .. Len(jobs) : jobs'[i] = jobs[i]
      /\ jobs'[Len(jobs) + 1] = j
  BY <1>0, <1>1, <1>3, AppendProperties
<1>5. /\ \A i \in 1 .. Len(jobs') : i \in 1 .. Len(jobs) \/ i = Len(jobs) + 1
      /\ \A i \in 1 .. Len(jobs) : i \in 1 .. Len(jobs')
      /\ Len(jobs) + 1 \in 1 .. Len(jobs')
  BY <1>4
<1>6. \A q : Queued(q)' <=> Queued(q) \/ q = r
  <2> TAKE q
  <2>1. Queued(q)' => Queued(q) \/ q = r
    BY <1>3, <1>4, <1>5 DEF Queued
  <2>2. Queued(q) => Queued(q)'
    BY <1>4, <1>5 DEF Queued
  <2>3. q = r => Queued(q)'
    BY <1>3, <1>4, <1>5 DEF Queued
  <2> QED BY <2>1, <2>2, <2>3
<1>7. \A q \in Requests : q # r => (LookedUp(q)' <=> LookedUp(q))
  <2>1. \A q \in Requests : Handler("LOOKUP", q, 0).rid = q
    BY DEF Handler
  <2>2. \A q \in Requests : q # r => Handler("LOOKUP", q, 0) # h
    BY <1>1, <1>2, <2>1
  <2> QED BY <1>0, <2>2 DEF LookedUp
<1>8. Ahead(r) /\ \A q \in Requests : Ahead(q)' <=> Ahead(q)
  <2>1. Ahead(r) /\ Ahead(r)'
    BY <1>2, <1>6 DEF Ahead
  <2>2. \A q \in Requests : q # r => (Ahead(q)' <=> Ahead(q))
    BY <1>0, <1>6, <1>7 DEF Ahead
  <2> QED BY <2>1, <2>2
<1>9. OnceInv'
  <2>1. \A q \in Requests : cl'[q].pc = "new" =>
          pf'.rid # q /\ ~Queued(q)' /\ \A f \in handlers' : f.rid # q
    BY <1>0, <1>2, <1>6 DEF Inv, ProtoInv, OnceInv
  <2>2. \A f \in handlers' : f \in handlers /\ f # h
    BY <1>0
  <2>3. \A f \in handlers' : f.kind = "LOOKUP" =>
          f = Handler("LOOKUP", f.rid, 0) /\ pf'.rid # f.rid /\ ~Queued(f.rid)'
    BY <1>0, <1>2, <1>6, <2>2 DEF Inv, ProtoInv, OnceInv
  <2>4. \A i \in 1 .. Len(jobs) : jobs[i].rid # r
    BY <1>2 DEF Queued
  <2>5. \A i, k \in 1 .. Len(jobs') : jobs'[i].rid = jobs'[k].rid => i = k
    BY <1>3, <1>4, <1>5, <2>4 DEF Inv, ProtoInv, OnceInv
  <2>6. \A i \in 1 .. Len(jobs') :
          jobs'[i].rid # pf'.rid /\ jobs'[i].keys \in {LookupKeys(jobs'[i].rid), <<>>}
    <3> TAKE i \in 1 .. Len(jobs')
    <3>1. CASE i \in 1 .. Len(jobs)
      BY <1>0, <1>4, <3>1 DEF Inv, ProtoInv, OnceInv
    <3>2. CASE i = Len(jobs) + 1
      BY <1>0, <1>2, <1>3, <1>4, <3>2
    <3> QED BY <1>5, <3>1, <3>2
  <2> QED BY <2>1, <2>3, <2>5, <2>6 DEF OnceInv
<1>10. /\ hits' \in [Requests -> HitRec] /\ hits'[r] = Pending
       /\ \A q \in Requests : q # r => hits'[q] = hits[q]
  BY <1>0, <1>1 DEF HitRec, Pending
<1>11. AheadInv'
  <2>1. ASSUME NEW q \in Requests, Ahead(q)' PROVE AheadOf(q)'
    <3>1. AheadOf(q)
      BY <1>8, <2>1 DEF Inv, ProtoInv, AheadInv
    <3>2. hits'[q].state # "resolved"
      BY <1>10, <3>1 DEF AheadOf, Pending
    <3> QED BY <1>0, <3>1, <3>2 DEF AheadOf
  <2>2. \A q \in Requests : cl'[q].pc \in {"load", "loading"} => cl'[q].lm > cl'[q].vllm
    BY <1>0 DEF Inv, ProtoInv, AheadInv
  <2> QED BY <2>1, <2>2 DEF AheadInv
<1>12. TypeInv'
  <2>1. ServerType'
    BY <1>0 DEF Inv, ProtoInv, TypeInv, ServerType
  <2>2. ThreadType'
    BY <1>0, <1>4, <1>10 DEF Inv, ProtoInv, TypeInv, ThreadType
  <2>3. AdapterType'
    BY <1>0 DEF Inv, ProtoInv, TypeInv, AdapterType
  <2> QED BY <2>1, <2>2, <2>3 DEF TypeInv
<1>13. HoldInv' /\ WriteInv'
  BY <1>0 DEF Inv, ProtoInv, HoldInv, WriteInv
<1>14. PfInv' /\ StInv' /\ TaskInv' /\ FutureInv'
  BY <1>0 DEF Inv, ProtoInv, PfInv, StInv, TaskInv, TaskOf, FutureInv
<1>15. PrefixInv'
  <2>1. \A q \in Requests : hits'[q].l1 + hits'[q].l2 <= Len(LookupKeys(q))
    <3> TAKE q \in Requests
    <3>1. CASE q = r
      <4>1. hits'[q].l1 = 0 /\ hits'[q].l2 = 0
        BY <1>10, <3>1 DEF Pending
      <4>2. Len(LookupKeys(q)) \in Nat
        BY LookupKey
      <4> QED BY <4>1, <4>2
    <3>2. CASE q # r
      BY <1>10, <3>2 DEF Inv, ProtoInv, PrefixInv
    <3> QED BY <3>1, <3>2
  <2> QED BY <1>0, <2>1 DEF Inv, ProtoInv, PrefixInv
<1>16. ~Writes(h) /\ ~Drops(h)
  BY <1>0 DEF Writes, Drops
<1>17. \A q \in Requests : \A k : (HandlerWrites(q, k)' <=> HandlerWrites(q, k))
                              /\ (HandlerDrops(q, k)' <=> HandlerDrops(q, k))
  BY <1>0, <1>16, HandlerEnds
<1>18. \A q \in Requests : WritingFor(q)' = WritingFor(q) /\ HeldFor(q)' = HeldFor(q)
  BY <1>0, <1>17, OwnersStay
<1>19. Writing' = Writing /\ Holds' = Holds
  BY <1>0, <1>18, SameWriting, SameHolds
<1>20. [L1!Next]_(L1!vars)
  BY <1>0, <1>19, NoL1Step
<1> QED BY <1>9, <1>11, <1>12, <1>13, <1>14, <1>15, <1>20 DEF ProtoInv

\* Every step of a handler.
LEMMA HandleStep ==
  ASSUME Inv, NEW h \in handlers, Handle(h)
  PROVE  [L1!Next]_(L1!vars) /\ ProtoInv'
<1>0. /\ h.keys \in Seq(Keys) /\ IsInjective(h.keys)
      /\ held[h.rid] \in Seq(Keys) /\ IsInjective(held[h.rid])
  BY HandlerFacts
<1>1. CASE HandleLookup(h)
  BY <1>1, HandleLookupStep
<1>2. CASE FreeFirst(h)
  BY <1>2, FreeFirstStep
<1>3. CASE FreeRelease(h) \/ RetrieveRelease(h)
  <2>1. Release(h, h.keys) /\ h.kind \in {"FREE", "END", "RETRIEVE"} /\ h.pc # "finish"
    BY <1>3 DEF FreeRelease, RetrieveRelease, At
  <2> QED BY <1>0, <2>1, ReleaseStep
<1>4. CASE EndRelease(h)
  <2>1. Release(h, held[h.rid]) /\ h.kind \in {"FREE", "END", "RETRIEVE"} /\ h.pc # "finish"
    BY <1>4 DEF EndRelease, At
  <2> QED BY <1>0, <2>1, ReleaseStep
<1>5. CASE FreeFinish(h) \/ RetrieveFinish(h)
  BY <1>5, FreeFinishStep
<1>6. CASE EndFinish(h)
  BY <1>6, EndFinishStep
<1>7. CASE EndPop(h)
  BY <1>7, EndPopStep
<1>8. CASE RetrieveRead(h)
  BY <1>8, RetrieveReadStep
<1>9. CASE RetrieveSend(h)
  BY <1>9, RetrieveSendStep
<1>10. CASE RetrievePromote(h)
  BY <1>10, RetrievePromoteStep
<1>11. CASE StoreReserve(h)
  BY <1>11, StoreReserveStep
<1>12. CASE StoreReserveNone(h)
  BY <1>12, StoreReserveNoneStep
<1>13. CASE StoreUnknown(h)
  BY <1>13, StoreUnknownStep
<1>14. CASE StoreCopy(h)
  BY <1>14, StoreCopyStep
<1>15. CASE StoreFinish(h)
  BY <1>15, StoreFinishStep
<1> QED BY <1>1, <1>2, <1>3, <1>4, <1>5, <1>6, <1>7, <1>8, <1>9, <1>10, <1>11, <1>12,
           <1>13, <1>14, <1>15 DEF Handle

\* Every step of a connector.
LEMMA ClientSteps ==
  ASSUME Inv, NEW r \in Requests, Client(r)
  PROVE  [L1!Next]_(L1!vars) /\ ProtoInv'
BY SubmitLookupStep, QueryStep, QueryTimeoutStep, UpdateStateStep, SubmitRetrieveStep,
   LoadsDoneStep, SubmitStoreStep, RequestFinishedStep DEF Client

=============================================================================
