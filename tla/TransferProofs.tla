--------------------------- MODULE TransferProofs ---------------------------
(***************************************************************************)
(* Proofs about Transfer, for any number of calls, of chunks in a call and *)
(* of blocks in a chunk.                                                   *)
(*                                                                         *)
(* Both directions are one pipeline: a stream that fills the staging       *)
(* buffers and marks them ready, and one that drains them and marks them   *)
(* free.  The invariant comes in layers: the types (TypeInv), the form of  *)
(* the two queues and what the events count (StreamInv), how the fills and *)
(* the drains of a chunk go together (PairInv), where the host is          *)
(* (HostInv), and which buffers hold what (ToHostInv, FromHostInv).        *)
(***************************************************************************)
EXTENDS Transfer, SequenceTheorems, WellFoundedInduction, TLAPS

Streams == {"kernel", "copy"}
First == IF dir = "to_host" THEN "kernel" ELSE "copy"
Second == IF dir = "to_host" THEN "copy" ELSE "kernel"
Fill == IF dir = "to_host" THEN "gather" ELSE "to_device"
Drain == IF dir = "to_host" THEN "to_cpu" ELSE "scatter"
Filling == streams[First]
Draining == streams[Second]

Sync == [do : {"wait", "record"}, on : Events, t : Nat]
Transport == [do : {"gather", "to_cpu", "to_device", "scatter"}, slot : Slots, call : Nat,
              chunk : Nat, skip : Nat]
Ops == Sync \cup Transport

TypeInv ==
  /\ dir \in {"to_host", "from_host"}
  /\ call \in [no : Nat, n : Nat, skip : Nat]
  /\ call.no > 0 => call.no \in Calls /\ call.n \in CallSizes /\ call.skip \in Blocks
  /\ pc \in {"idle", "begin", "chunk", "extract", "end", "returned", "raised"}
  /\ i \in Nat
  /\ streams \in [Streams -> Seq(Ops)]
  /\ issued \in [Events -> Nat]
  /\ fired \in [Events -> Nat]
  /\ DOMAIN staging = Slots
  /\ DOMAIN cpu_bufs = Slots
  /\ DOMAIN kv = Calls \X Chunks \X Blocks
  /\ forward \in BOOLEAN

-----------------------------------------------------------------------------

\* A queue is a sequence of triples, a wait on an event of a slot, the move
\* and the record of the slot's other event, of which the first may have begun,
\* with records of begin or end between them.
Shaped(q, what, gate, mark, lag) ==
  \A x \in 1 .. Len(q) :
    /\ q[x].do \in {"wait", "record", what}
    /\ q[x].do = "wait" =>
         x + 1 <= Len(q) /\ q[x + 1].do = what /\ q[x].on = <<gate, q[x + 1].slot>>
    /\ q[x].do = what =>
         /\ x + 1 <= Len(q) /\ q[x + 1].do = "record" /\ q[x + 1].on = <<mark, q[x].slot>>
         /\ x > 1 => q[x - 1].do = "wait" /\ q[x - 1].t + lag = q[x + 1].t

\* A move at the head of its queue has waited.
Passed(q, what, gate, lag, f) ==
  Len(q) > 0 /\ q[1].do = what => f[<<gate, q[1].slot>>] + lag >= q[2].t

\* The records to come of an event are numbered upwards, from what has fired
\* to what was issued.
Numbered(q, mark, other, f, m) ==
  /\ \A x \in 1 .. Len(q) : q[x].do = "record" =>
       /\ q[x].on[1] \in {mark, other}
       /\ f[q[x].on] < q[x].t /\ q[x].t <= m[q[x].on]
  /\ \A x, y \in 1 .. Len(q) :
       x < y /\ q[x].do = "record" /\ q[y].do = "record" /\ q[x].on = q[y].on =>
         q[x].t < q[y].t

StreamInv ==
  /\ Shaped(Filling, Fill, "free", "ready", 1)
  /\ Shaped(Draining, Drain, "ready", "free", 0)
  /\ Passed(Filling, Fill, "free", 1, fired)
  /\ Passed(Draining, Drain, "ready", 0, fired)
  /\ Numbered(Filling, "ready", "begin", fired, issued)
  /\ Numbered(Draining, "free", "end", fired, issued)
  /\ \A e \in Events : fired[e] <= issued[e]
  /\ \A s \in Slots : issued[ready(s)] = issued[free(s)]

-----------------------------------------------------------------------------

Same(o, p) == o.call = p.call /\ o.chunk = p.chunk

\* The chunks of the call whose operations are enqueued.
Started == IF pc = "extract" THEN i + 1 ELSE i

\* A queue moves a chunk once, of the calls so far, and of chunks before the
\* n-th of call no.
Moves(q, what, no, n) ==
  /\ \A x \in 1 .. Len(q) : q[x].do = what =>
       /\ q[x].slot = q[x].chunk % 3 /\ q[x].call <= no
       /\ q[x].call = no => q[x].chunk < n
  /\ \A x, y \in 1 .. Len(q) :
       q[x].do = what /\ q[y].do = what /\ Same(q[x], q[y]) => x = y

\* A chunk to be filled (by p) is to be drained (by q) as well, in the same
\* use of a slot.
Converse(p, fill, q, drain) ==
  \A y \in 1 .. Len(p) : p[y].do = fill =>
    \E x \in 1 .. Len(q) :
      q[x].do = drain /\ Same(q[x], p[y]) /\ q[x + 1].t = p[y + 1].t

Marks(o, s, t) == o.do = "record" /\ o.on = ready(s) /\ o.t = t

\* A chunk to be drained is to be filled as well, or has just been, or its
\* slot is marked ready.
Link(p, fill, q, drain, f) ==
  \A x \in 1 .. Len(q) : q[x].do = drain =>
    \/ \E y \in 1 .. Len(p) : p[y].do = fill /\ Same(p[y], q[x])
    \/ Len(p) > 0 /\ Marks(p[1], q[x].slot, q[x + 1].t)
    \/ f[ready(q[x].slot)] >= q[x + 1].t

PairInv ==
  /\ Moves(Filling, Fill, call.no, Started)
  /\ Moves(Draining, Drain, call.no, Started)
  /\ Converse(Filling, Fill, Draining, Drain)
  /\ Link(Filling, Fill, Draining, Drain, fired)

-----------------------------------------------------------------------------

HostInv ==
  /\ i <= call.n
  /\ call.no = 0 => i = 0
  /\ pc = "extract" => dir = "to_host" /\ i < call.n
  /\ pc \in {"end", "returned"} => i = call.n
  /\ pc # "idle" => call.no > 0
  /\ forward => dir = "to_host" /\ pc = "begin"

\* The chunks of the call that a queue is still to move.
Has(q, what, no, k) ==
  \E x \in 1 .. Len(q) : q[x].do = what /\ q[x].call = no /\ q[x].chunk = k
ToFill(k) == Has(Filling, Fill, call.no, k)
ToDrain(k) == Has(Draining, Drain, call.no, k)

\* to_host waits for every chunk, so only one is under way.
ToHostInv ==
  dir = "to_host" =>
    /\ \A x \in DOMAIN kv : x[1] = call.no /\ ~forward => kv[x] = x
    /\ chunks = [k \in 1 .. i |-> Right(call.no, k - 1)]
    /\ \A x \in 1 .. Len(Filling) : Filling[x].do = Fill =>
         pc = "extract" /\ Filling[x].call = call.no /\ Filling[x].chunk = i
    /\ \A x \in 1 .. Len(Draining) : Draining[x].do = Drain =>
         pc = "extract" /\ Draining[x].call = call.no /\ Draining[x].chunk = i
    /\ pc = "extract" =>
         IF ToDrain(i) THEN ToFill(i) \/ staging[i % 3] = Right(call.no, i)
         ELSE cpu_bufs[i % 3] = Right(call.no, i)

\* The blocks of chunk k of call c to be skipped.
SkipAt(c, k) == IF k = 0 THEN c.skip ELSE 0

\* The drains of the call carry its skip.
Skips(q, what, c) ==
  \A x \in 1 .. Len(q) :
    q[x].do = what /\ q[x].call = c.no => q[x].skip = SkipAt(c, q[x].chunk)

\* Blocks of later calls and skipped blocks are as they were.
Untouched(m, c) ==
  \A x \in DOMAIN m :
    x[1] > c.no \/ (x[1] = c.no /\ x[2] = 0 /\ x[3] < c.skip) => m[x] = Stale

\* A chunk of the call is in its host buffer, in its staging buffer or in its
\* blocks.
Landed(p, fill, q, drain, c, n, host, stage, m) ==
  \A k \in 0 .. (n - 1) :
    /\ Has(p, fill, c.no, k) => host[k % 3] = Right(c.no, k)
    /\ Has(q, drain, c.no, k) /\ ~Has(p, fill, c.no, k) => stage[k % 3] = Right(c.no, k)
    /\ ~Has(q, drain, c.no, k) =>
         \A b \in Blocks : b >= SkipAt(c, k) => m[<<c.no, k, b>>] = <<c.no, k, b>>

\* from_host runs ahead of the streams.
FromHostInv ==
  dir = "from_host" =>
    /\ pc = "returned" => Len(Draining) = 0
    /\ Skips(Draining, Drain, call)
    /\ Untouched(kv, call)
    /\ Landed(Filling, Fill, Draining, Drain, call, i, cpu_bufs, staging, kv)

-----------------------------------------------------------------------------

(***************************************************************************)
(* Queues.                                                                 *)
(***************************************************************************)

\* The tail of a queue.
LEMMA TailFacts ==
  ASSUME NEW S, NEW q \in Seq(S), q # <<>>
  PROVE  /\ Len(q) \in Nat /\ Len(q) > 0 /\ Head(q) = q[1] /\ q[1] \in S
         /\ Tail(q) \in Seq(S) /\ Len(Tail(q)) = Len(q) - 1
         /\ \A x \in 1 .. Len(Tail(q)) : x + 1 \in 1 .. Len(q) /\ Tail(q)[x] = q[x + 1]
OBVIOUS

\* A queue with one more operation.
LEMMA MoreFacts ==
  ASSUME NEW S, NEW q \in Seq(S), NEW a \in S
  PROVE  /\ q \o <<a>> \in Seq(S) /\ Len(q) \in Nat /\ Len(q \o <<a>>) = Len(q) + 1
         /\ \A x \in 1 .. Len(q) : (q \o <<a>>)[x] = q[x]
         /\ (q \o <<a>>)[Len(q) + 1] = a
OBVIOUS

\* A queue with three more.
LEMMA TripleFacts ==
  ASSUME NEW S, NEW q \in Seq(S), NEW a \in S, NEW b \in S, NEW c \in S
  PROVE  /\ q \o <<a, b, c>> \in Seq(S) /\ Len(q) \in Nat /\ Len(q \o <<a, b, c>>) = Len(q) + 3
         /\ \A x \in 1 .. Len(q) : (q \o <<a, b, c>>)[x] = q[x]
         /\ (q \o <<a, b, c>>)[Len(q) + 1] = a
         /\ (q \o <<a, b, c>>)[Len(q) + 2] = b
         /\ (q \o <<a, b, c>>)[Len(q) + 3] = c
<1>1. <<a, b, c>> \in Seq(S) /\ Len(<<a, b, c>>) = 3
  OBVIOUS
<1>2. Len(q) \in Nat
  OBVIOUS
<1> DEFINE r == <<a, b, c>>
<1>3. r[1] = a /\ r[2] = b /\ r[3] = c
  OBVIOUS
<1> HIDE DEF r
<1>4. /\ q \o r \in Seq(S) /\ Len(q \o r) = Len(q) + 3
      /\ \A x \in 1 .. Len(q) : (q \o r)[x] = q[x]
      /\ \A x \in 1 .. 3 : (q \o r)[Len(q) + x] = r[x]
  BY <1>1, <1>2 DEF r
<1> QED BY <1>2, <1>3, <1>4 DEF r

\* A queue that has run its first operation keeps its form.
LEMMA ShapedTail ==
  ASSUME NEW S, NEW q \in Seq(S), q # <<>>, NEW what, NEW gate, NEW mark, NEW lag,
         Shaped(q, what, gate, mark, lag)
  PROVE  Shaped(Tail(q), what, gate, mark, lag)
<1> DEFINE p == Tail(q)
<1>1. /\ Len(q) \in Nat /\ Len(p) = Len(q) - 1
      /\ \A x \in 1 .. Len(p) : x + 1 \in 1 .. Len(q) /\ p[x] = q[x + 1]
  BY TailFacts
<1> HIDE DEF p
<1>2. SUFFICES ASSUME NEW x \in 1 .. Len(p)
      PROVE /\ p[x].do \in {"wait", "record", what}
            /\ p[x].do = "wait" =>
                 x + 1 <= Len(p) /\ p[x + 1].do = what /\ p[x].on = <<gate, p[x + 1].slot>>
            /\ p[x].do = what =>
                 /\ x + 1 <= Len(p) /\ p[x + 1].do = "record" /\ p[x + 1].on = <<mark, p[x].slot>>
                 /\ x > 1 => p[x - 1].do = "wait" /\ p[x - 1].t + lag = p[x + 1].t
  BY DEF Shaped, p
<1> DEFINE z == x + 1
<1>3. z \in 1 .. Len(q) /\ p[x] = q[z] /\ z > 1
  BY <1>1
<1>4. x + 1 <= Len(p) => p[x + 1] = q[z + 1]
  BY <1>1
<1>5. x > 1 => p[x - 1] = q[z - 1]
  BY <1>1
<1>6. z + 1 <= Len(q) => x + 1 <= Len(p)
  BY <1>1
<1> HIDE DEF z
<1>7. /\ q[z].do \in {"wait", "record", what}
      /\ q[z].do = "wait" =>
           z + 1 <= Len(q) /\ q[z + 1].do = what /\ q[z].on = <<gate, q[z + 1].slot>>
      /\ q[z].do = what =>
           /\ z + 1 <= Len(q) /\ q[z + 1].do = "record" /\ q[z + 1].on = <<mark, q[z].slot>>
           /\ q[z - 1].do = "wait" /\ q[z - 1].t + lag = q[z + 1].t
  BY <1>3 DEF Shaped
<1> QED BY <1>3, <1>4, <1>5, <1>6, <1>7

\* So does one that gets a record.
LEMMA ShapedMore ==
  ASSUME NEW S, NEW q \in Seq(S), NEW a \in S, NEW what, NEW gate, NEW mark, NEW lag,
         Shaped(q, what, gate, mark, lag), a.do = "record", what \notin {"wait", "record"}
  PROVE  Shaped(q \o <<a>>, what, gate, mark, lag)
<1> DEFINE p == q \o <<a>>
<1>1. /\ Len(q) \in Nat /\ Len(p) = Len(q) + 1 /\ p[Len(q) + 1] = a
      /\ \A x \in 1 .. Len(q) : p[x] = q[x]
  BY MoreFacts
<1> HIDE DEF p
<1>2. SUFFICES ASSUME NEW x \in 1 .. Len(p)
      PROVE /\ p[x].do \in {"wait", "record", what}
            /\ p[x].do = "wait" =>
                 x + 1 <= Len(p) /\ p[x + 1].do = what /\ p[x].on = <<gate, p[x + 1].slot>>
            /\ p[x].do = what =>
                 /\ x + 1 <= Len(p) /\ p[x + 1].do = "record" /\ p[x + 1].on = <<mark, p[x].slot>>
                 /\ x > 1 => p[x - 1].do = "wait" /\ p[x - 1].t + lag = p[x + 1].t
  BY DEF Shaped, p
<1>3. CASE x = Len(q) + 1
  BY <1>1, <1>3
<1>4. CASE x # Len(q) + 1
  <2>1. x \in 1 .. Len(q) /\ p[x] = q[x]
    BY <1>1, <1>4
  <2>2. x + 1 <= Len(q) => p[x + 1] = q[x + 1] /\ x + 1 <= Len(p)
    BY <1>1
  <2>3. x > 1 => p[x - 1] = q[x - 1]
    BY <1>1, <2>1
  <2>4. /\ q[x].do \in {"wait", "record", what}
        /\ q[x].do = "wait" =>
             x + 1 <= Len(q) /\ q[x + 1].do = what /\ q[x].on = <<gate, q[x + 1].slot>>
        /\ q[x].do = what =>
             /\ x + 1 <= Len(q) /\ q[x + 1].do = "record" /\ q[x + 1].on = <<mark, q[x].slot>>
             /\ x > 1 => q[x - 1].do = "wait" /\ q[x - 1].t + lag = q[x + 1].t
    BY <2>1 DEF Shaped
  <2> QED BY <2>1, <2>2, <2>3, <2>4
<1> QED BY <1>3, <1>4

\* And one that gets a wait, its move and its record.
LEMMA ShapedTriple ==
  ASSUME NEW S, NEW q \in Seq(S), NEW a \in S, NEW b \in S, NEW c \in S,
         NEW what, NEW gate, NEW mark, NEW lag,
         Shaped(q, what, gate, mark, lag), what \notin {"wait", "record"},
         a.do = "wait", b.do = what, c.do = "record",
         a.on = <<gate, b.slot>>, c.on = <<mark, b.slot>>, a.t + lag = c.t
  PROVE  Shaped(q \o <<a, b, c>>, what, gate, mark, lag)
<1> DEFINE p == q \o <<a, b, c>>
<1>1. /\ Len(q) \in Nat /\ Len(p) = Len(q) + 3
      /\ p[Len(q) + 1] = a /\ p[Len(q) + 2] = b /\ p[Len(q) + 3] = c
      /\ \A x \in 1 .. Len(q) : p[x] = q[x]
  BY TripleFacts
<1> HIDE DEF p
<1>2. SUFFICES ASSUME NEW x \in 1 .. Len(p)
      PROVE /\ p[x].do \in {"wait", "record", what}
            /\ p[x].do = "wait" =>
                 x + 1 <= Len(p) /\ p[x + 1].do = what /\ p[x].on = <<gate, p[x + 1].slot>>
            /\ p[x].do = what =>
                 /\ x + 1 <= Len(p) /\ p[x + 1].do = "record" /\ p[x + 1].on = <<mark, p[x].slot>>
                 /\ x > 1 => p[x - 1].do = "wait" /\ p[x - 1].t + lag = p[x + 1].t
  BY DEF Shaped, p
<1>3. CASE x = Len(q) + 1
  <2>1. p[x] = a /\ x + 1 = Len(q) + 2 /\ x + 1 <= Len(p)
    BY <1>1, <1>3
  <2> QED BY <1>1, <2>1
<1>4. CASE x = Len(q) + 2
  <2>1. p[x] = b /\ x + 1 = Len(q) + 3 /\ x - 1 = Len(q) + 1 /\ x + 1 <= Len(p)
    BY <1>1, <1>4
  <2> QED BY <1>1, <2>1
<1>5. CASE x = Len(q) + 3
  BY <1>1, <1>5
<1>6. CASE x \in 1 .. Len(q)
  <2>1. p[x] = q[x]
    BY <1>1, <1>6
  <2>2. x + 1 <= Len(q) => p[x + 1] = q[x + 1] /\ x + 1 <= Len(p)
    BY <1>1
  <2>3. x > 1 => p[x - 1] = q[x - 1]
    BY <1>1, <1>6
  <2>4. /\ q[x].do \in {"wait", "record", what}
        /\ q[x].do = "wait" =>
             x + 1 <= Len(q) /\ q[x + 1].do = what /\ q[x].on = <<gate, q[x + 1].slot>>
        /\ q[x].do = what =>
             /\ x + 1 <= Len(q) /\ q[x + 1].do = "record" /\ q[x + 1].on = <<mark, q[x].slot>>
             /\ x > 1 => q[x - 1].do = "wait" /\ q[x - 1].t + lag = q[x + 1].t
    BY <1>6 DEF Shaped
  <2> QED BY <2>1, <2>2, <2>3, <2>4
<1>7. x \in 1 .. Len(q) \/ x = Len(q) + 1 \/ x = Len(q) + 2 \/ x = Len(q) + 3
  BY <1>1
<1> QED BY <1>3, <1>4, <1>5, <1>6, <1>7

\* The numbers of the records, when an operation has run: a record fires its
\* event.
LEMMA NumberedTail ==
  ASSUME NEW q \in Seq(Ops), q # <<>>, NEW mark, NEW other,
         NEW f \in [Events -> Nat], NEW m \in [Events -> Nat],
         Numbered(q, mark, other, f, m), NEW g \in [Events -> Nat],
         \/ g = f
         \/ q[1].do = "record" /\ g = [f EXCEPT ![q[1].on] = q[1].t]
  PROVE  Numbered(Tail(q), mark, other, g, m)
<1> DEFINE p == Tail(q)
<1>1. /\ Len(q) \in Nat /\ Len(p) = Len(q) - 1 /\ 1 \in 1 .. Len(q)
      /\ \A x \in 1 .. Len(p) : x + 1 \in 1 .. Len(q) /\ p[x] = q[x + 1]
  BY TailFacts
<1>2. \A x \in 1 .. Len(q) : q[x].do = "record" => q[x].on \in Events /\ q[x].t \in Nat
  <2>1. \A x \in 1 .. Len(q) : q[x] \in Ops
    OBVIOUS
  <2>2. \A o \in Ops : o.do = "record" => o.on \in Events /\ o.t \in Nat
    BY DEF Ops, Sync, Transport
  <2> QED BY <2>1, <2>2
<1> HIDE DEF p
<1>3. ASSUME NEW x \in 1 .. Len(p), p[x].do = "record"
      PROVE  p[x].on[1] \in {mark, other} /\ g[p[x].on] < p[x].t /\ p[x].t <= m[p[x].on]
  <2>1. x + 1 \in 1 .. Len(q) /\ p[x] = q[x + 1] /\ 1 < x + 1
    BY <1>1
  <2>2. /\ q[x + 1].on[1] \in {mark, other}
        /\ f[q[x + 1].on] < q[x + 1].t /\ q[x + 1].t <= m[q[x + 1].on]
    BY <1>3, <2>1 DEF Numbered
  <2>3. CASE g = f
    BY <2>1, <2>2, <2>3
  <2>4. CASE q[1].do = "record" /\ g = [f EXCEPT ![q[1].on] = q[1].t]
    <3>1. q[1].on = q[x + 1].on => q[1].t < q[x + 1].t
      BY <1>1, <1>3, <2>1, <2>4 DEF Numbered
    <3>2. q[1].on \in Events /\ q[x + 1].on \in Events
      BY <1>1, <1>2, <1>3, <2>1, <2>4
    <3>3. g[q[x + 1].on] < q[x + 1].t
      BY <2>2, <2>4, <3>1, <3>2
    <3> QED BY <2>1, <2>2, <3>3
  <2> QED BY <2>3, <2>4
<1>4. ASSUME NEW x \in 1 .. Len(p), NEW y \in 1 .. Len(p),
             x < y, p[x].do = "record", p[y].do = "record", p[x].on = p[y].on
      PROVE  p[x].t < p[y].t
  <2>1. /\ x + 1 \in 1 .. Len(q) /\ y + 1 \in 1 .. Len(q) /\ x + 1 < y + 1
        /\ p[x] = q[x + 1] /\ p[y] = q[y + 1]
    BY <1>1, <1>4
  <2> QED BY <1>4, <2>1 DEF Numbered
<1> QED BY <1>3, <1>4 DEF Numbered, p

\* An event that fires is not one the other queue records.
LEMMA NumberedOther ==
  ASSUME NEW q, NEW mark, NEW other, NEW f, NEW m, NEW e, NEW t,
         q \in Seq(Ops), f \in [Events -> Nat], m \in [Events -> Nat],
         Numbered(q, mark, other, f, m), e \in Events, t \in Nat, e[1] \notin {mark, other}
  PROVE  Numbered(q, mark, other, [f EXCEPT ![e] = t], m)
<1>1. \A x \in 1 .. Len(q) : q[x].do = "record" => q[x].on # e
  BY DEF Numbered
<1>2. \A x \in 1 .. Len(q) : q[x].do = "record" => [f EXCEPT ![e] = t][q[x].on] = f[q[x].on]
  BY <1>1
<1> QED BY <1>2 DEF Numbered

\* The numbers of the records, when operations are enqueued.
LEMMA NumberedMore ==
  ASSUME NEW q, NEW p, NEW mark, NEW other, NEW c, NEW f, NEW m, NEW n,
         q \in Seq(Ops), p \in Seq(Ops), f \in [Events -> Nat], m \in [Events -> Nat],
         n \in [Events -> Nat], Numbered(q, mark, other, f, m),
         \A e \in Events : f[e] <= m[e] /\ m[e] <= n[e], Len(q) < Len(p),
         \A x \in 1 .. Len(q) : p[x] = q[x],
         \A x \in (Len(q) + 1) .. (Len(p) - 1) : p[x].do # "record", p[Len(p)] = c,
         c.on \in Events, c.on[1] \in {mark, other}, c.t = m[c.on] + 1, n[c.on] = m[c.on] + 1
  PROVE  Numbered(p, mark, other, f, n)
<1>1. Len(q) \in Nat /\ Len(p) \in Nat
  OBVIOUS
<1>2. \A x \in 1 .. Len(q) : q[x].do = "record" => q[x].on \in Events /\ q[x].t \in Nat
  <2>1. \A x \in 1 .. Len(q) : q[x] \in Ops
    OBVIOUS
  <2>2. \A o \in Ops : o.do = "record" => o.on \in Events /\ o.t \in Nat
    BY DEF Ops, Sync, Transport
  <2> QED BY <2>1, <2>2
<1>3. ASSUME NEW x \in 1 .. Len(p), p[x].do = "record"
      PROVE  x \in 1 .. Len(q) \/ x = Len(p)
  <2>1. x \in 1 .. Len(q) \/ x = Len(p) \/ x \in (Len(q) + 1) .. (Len(p) - 1)
    BY <1>1
  <2> QED BY <1>3, <2>1
<1>4. \A x \in 1 .. Len(q) : q[x].do = "record" =>
        q[x].on[1] \in {mark, other} /\ f[q[x].on] < q[x].t /\ q[x].t <= m[q[x].on]
  BY DEF Numbered
<1>5. ASSUME NEW x \in 1 .. Len(p), p[x].do = "record"
      PROVE  p[x].on[1] \in {mark, other} /\ f[p[x].on] < p[x].t /\ p[x].t <= n[p[x].on]
  <2>1. CASE x \in 1 .. Len(q)
    <3>1. p[x] = q[x]
      BY <2>1
    <3>2. q[x].on \in Events /\ q[x].t \in Nat
      BY <1>2, <1>5, <2>1, <3>1
    <3> QED BY <1>4, <1>5, <2>1, <3>1, <3>2
  <2>2. CASE x = Len(p)
    <3>1. p[x] = c
      BY <2>2
    <3>2. f[c.on] < c.t /\ c.t <= n[c.on]
      OBVIOUS
    <3> QED BY <3>1, <3>2
  <2> QED BY <1>3, <1>5, <2>1, <2>2
<1>6. ASSUME NEW x \in 1 .. Len(p), NEW y \in 1 .. Len(p),
             x < y, p[x].do = "record", p[y].do = "record", p[x].on = p[y].on
      PROVE  p[x].t < p[y].t
  <2>1. x \in 1 .. Len(q)
    BY <1>1, <1>3, <1>6
  <2>2. p[x] = q[x]
    BY <2>1
  <2>3. CASE y \in 1 .. Len(q)
    <3>1. p[y] = q[y]
      BY <2>3
    <3> QED BY <1>6, <2>1, <2>2, <2>3, <3>1 DEF Numbered
  <2>4. CASE y = Len(p)
    <3>1. p[y] = c
      BY <2>4
    <3>2. q[x].on \in Events /\ q[x].t \in Nat /\ q[x].t <= m[q[x].on]
      BY <1>2, <1>4, <1>6, <2>1, <2>2
    <3>3. q[x].t <= m[c.on]
      BY <1>6, <2>2, <3>1, <3>2
    <3>4. m[c.on] \in Nat
      OBVIOUS
    <3> QED BY <2>2, <3>1, <3>2, <3>3, <3>4
  <2> QED BY <1>3, <1>6, <2>3, <2>4
<1> QED BY <1>5, <1>6 DEF Numbered
-----------------------------------------------------------------------------

(***************************************************************************)
(* The steps, as steps of the two queues.                                  *)
(***************************************************************************)
Typed == streams' \in [Streams -> Seq(Ops)]
PopsFirst(what) ==
  /\ Typed
  /\ Filling # <<>> /\ Filling[1].do = what
  /\ Filling' = Tail(Filling) /\ Draining' = Draining
PopsSecond(what) ==
  /\ Typed
  /\ Draining # <<>> /\ Draining[1].do = what
  /\ Draining' = Tail(Draining) /\ Filling' = Filling

Waits(q) ==
  /\ fired[q[1].on] >= q[1].t
  /\ UNCHANGED <<dir, hostVars, issued, fired, staging, cpu_bufs, kv, forward>>
Records(q) ==
  /\ fired' = [fired EXCEPT ![q[1].on] = q[1].t]
  /\ UNCHANGED <<dir, hostVars, issued, staging, cpu_bufs, kv, forward>>

Fills ==
  /\ PopsFirst(Fill)
  /\ LET o == Filling[1]
     IN  staging' = [staging EXCEPT ![o.slot] =
           IF dir = "to_host" THEN [b \in Blocks |-> kv[<<o.call, o.chunk, b>>]]
           ELSE cpu_bufs[o.slot]]
  /\ UNCHANGED <<dir, hostVars, issued, fired, cpu_bufs, kv, forward>>

Drains ==
  /\ PopsSecond(Drain)
  /\ LET o == Draining[1]
     IN  /\ cpu_bufs' = IF dir = "to_host"
                        THEN [cpu_bufs EXCEPT ![o.slot] = staging[o.slot]] ELSE cpu_bufs
         /\ kv' = IF dir = "to_host" THEN kv
                  ELSE [x \in DOMAIN kv |->
                          IF x[1] = o.call /\ x[2] = o.chunk /\ x[3] >= o.skip
                          THEN staging[o.slot][x[3]] ELSE kv[x]]
  /\ UNCHANGED <<dir, hostVars, issued, fired, staging, forward>>

DeviceStep ==
  \/ PopsFirst("wait") /\ Waits(Filling)
  \/ PopsSecond("wait") /\ Waits(Draining)
  \/ PopsFirst("record") /\ Records(Filling)
  \/ PopsSecond("record") /\ Records(Draining)
  \/ Fills
  \/ Drains
  \/ RunForward /\ UNCHANGED <<dir, hostVars>>

Bumped(E) == issued' = [e \in Events |-> IF e \in E THEN issued[e] + 1 ELSE issued[e]]

\* The three operations of chunk i in each queue.
Issues(skip) ==
  /\ Typed
  /\ Filling' = Filling \o <<Wait(free(Slot), issued[free(Slot)]),
                             Move(Fill, Slot, call.no, i, 0), RecordNext(ready(Slot))>>
  /\ Draining' = Draining \o <<Wait(ready(Slot), issued[ready(Slot)] + 1),
                               Move(Drain, Slot, call.no, i, skip), RecordNext(free(Slot))>>
  /\ Bumped({ready(Slot), free(Slot)})
  /\ pc = "chunk" /\ i < call.n
  /\ UNCHANGED <<dir, call, chunks, fired, staging, kv, forward>>

Begins ==
  /\ pc = "begin" /\ pc' = "chunk"
  /\ dir = "to_host" => ~forward /\ Filling = <<>> /\ Draining = <<>>
  /\ Typed
  /\ Filling' = Filling \o <<RecordNext(begin)>> /\ Draining' = Draining
  /\ Bumped({begin})
  /\ UNCHANGED <<dir, call, i, chunks, cpu_bufs, fired, staging, kv, forward>>

IssuesToHost ==
  /\ dir = "to_host" /\ Issues(0)
  /\ pc' = "extract"
  /\ UNCHANGED <<i, cpu_bufs>>

IssuesFromHost ==
  /\ dir = "from_host" /\ Issues(Skip)
  /\ BufferConsumed
  /\ cpu_bufs' = [cpu_bufs EXCEPT ![Slot] = Right(call.no, i)]
  /\ i' = i + 1
  /\ pc' = pc

Ends ==
  /\ pc = "chunk" /\ ~More /\ pc' = "end"
  /\ Typed
  /\ Draining' = Draining \o <<RecordNext(end)>> /\ Filling' = Filling
  /\ Bumped({end})
  /\ UNCHANGED <<dir, call, i, chunks, cpu_bufs, fired, staging, kv, forward>>

Returns ==
  /\ \/ pc = "chunk" /\ pc' = "raised"
     \/ /\ pc = "end" /\ pc' \in {"returned", "raised"}
        /\ dir = "from_host" => Draining = <<>>
     \/ pc \in {"returned", "raised"} /\ pc' = "idle"
  /\ UNCHANGED <<dir, call, i, chunks, devVars>>

Step ==
  \/ Enter \/ Begins \/ IssuesToHost \/ ToHostExtract \/ IssuesFromHost \/ Ends \/ Returns
  \/ DeviceStep

\* A slot, its events and the operations about them.
LEMMA SlotType ==
  ASSUME i \in Nat, issued \in [Events -> Nat], call.no \in Nat
  PROVE  /\ Slot \in Slots
         /\ \A s \in Slots : ready(s) \in Events /\ free(s) \in Events
         /\ begin \in Events /\ end \in Events
         /\ \A e \in Events, t \in Nat : Wait(e, t) \in Ops /\ Record(e, t) \in Ops
         /\ \A what \in {"gather", "to_cpu", "to_device", "scatter"}, skip \in Nat :
              Move(what, Slot, call.no, i, skip) \in Ops
<1>1. Slot \in Slots
  BY DEF Slot, Slots
<1>2. \A s \in Slots : ready(s) \in Events /\ free(s) \in Events
  BY DEF Events
<1>3. begin \in Events /\ end \in Events
  BY DEF Events
<1>4. \A e \in Events, t \in Nat : Wait(e, t) \in Sync /\ Record(e, t) \in Sync
  BY DEF Wait, Record, Sync
<1>5. \A what \in {"gather", "to_cpu", "to_device", "scatter"}, skip \in Nat :
        Move(what, Slot, call.no, i, skip) \in Transport
  BY <1>1 DEF Move, Transport
<1> QED BY <1>1, <1>2, <1>3, <1>4, <1>5 DEF Ops

\* The two queues.
LEMMA QueueType ==
  ASSUME TypeInv
  PROVE  /\ Filling \in Seq(Ops) /\ Draining \in Seq(Ops)
         /\ First \in Streams /\ Second \in Streams /\ First # Second
         /\ streams["kernel"] \in Seq(Ops) /\ streams["copy"] \in Seq(Ops)
         /\ dir = "to_host" => Filling = streams["kernel"] /\ Draining = streams["copy"]
                               /\ Fill = "gather" /\ Drain = "to_cpu"
         /\ dir = "from_host" => Filling = streams["copy"] /\ Draining = streams["kernel"]
                                 /\ Fill = "to_device" /\ Drain = "scatter"
BY DEF TypeInv, Filling, Draining, First, Second, Fill, Drain, Streams

\* A stream that runs its first operation.
LEMMA RunsPops ==
  ASSUME TypeInv, NEW s \in Streams, NEW what, Runs(s, what), dir' = dir
  PROVE  /\ s = First => PopsFirst(what) /\ Op(s) = Filling[1]
         /\ s = Second => PopsSecond(what) /\ Op(s) = Draining[1]
         /\ s = First \/ s = Second
<1>1. streams[s] \in Seq(Ops) /\ streams[s] # <<>> /\ streams \in [Streams -> Seq(Ops)]
  BY DEF TypeInv, Runs
<1>2. Tail(streams[s]) \in Seq(Ops) /\ Op(s) = streams[s][1]
  BY <1>1, TailFacts DEF Op
<1>3. streams' = [streams EXCEPT ![s] = Tail(streams[s])] /\ Op(s).do = what
  BY DEF Runs
<1>4. Typed
  BY <1>1, <1>2, <1>3 DEF Typed
<1>5. First' = First /\ Second' = Second /\ First \in Streams /\ Second \in Streams /\ First # Second
  BY QueueType DEF First, Second
<1>6. s = First \/ s = Second
  BY DEF First, Second, Streams
<1>7. streams'[s] = Tail(streams[s]) /\ \A z \in Streams \ {s} : streams'[z] = streams[z]
  BY <1>1, <1>3
<1>8. CASE s = First
  BY <1>1, <1>2, <1>3, <1>4, <1>5, <1>7, <1>8 DEF PopsFirst, Filling, Draining
<1>9. CASE s = Second
  BY <1>1, <1>2, <1>3, <1>4, <1>5, <1>7, <1>9 DEF PopsSecond, Filling, Draining
<1> QED BY <1>5, <1>6, <1>8, <1>9

\* What a queue can have at its head.
LEMMA HeadShape ==
  ASSUME NEW q \in Seq(Ops), q # <<>>, NEW what, NEW gate, NEW mark, NEW lag,
         Shaped(q, what, gate, mark, lag)
  PROVE  q[1].do \in {"wait", "record", what}
<1>1. 1 \in 1 .. Len(q)
  BY TailFacts
<1> QED BY <1>1 DEF Shaped

\* The steps of the device are steps of the queues.
LEMMA DeviceSteps ==
  ASSUME TypeInv, StreamInv, Device
  PROVE  DeviceStep
<1>1. UNCHANGED <<dir, hostVars>>
  BY DEF Device
<1>2. dir \in {"to_host", "from_host"}
  BY DEF TypeInv
<1>3. "kernel" \in Streams /\ "copy" \in Streams
  BY DEF Streams
<1>4. ASSUME NEW s \in Streams, RunWait(s) PROVE DeviceStep
  <2>1. Runs(s, "wait")
    BY <1>4 DEF RunWait
  <2> QED BY <1>1, <1>4, <2>1, RunsPops DEF RunWait, DeviceStep, Waits
<1>5. ASSUME NEW s \in Streams, RunRecord(s) PROVE DeviceStep
  <2>1. Runs(s, "record")
    BY <1>5 DEF RunRecord
  <2> QED BY <1>1, <1>5, <2>1, RunsPops DEF RunRecord, DeviceStep, Records
<1>6. CASE dir = "to_host"
  <2>1. /\ First = "kernel" /\ Second = "copy" /\ Fill = "gather" /\ Drain = "to_cpu"
        /\ Filling = streams["kernel"] /\ Draining = streams["copy"]
    BY <1>6 DEF First, Second, Fill, Drain, Filling, Draining
  <2>2. CASE RunGather
    <3>1. Runs("kernel", "gather")
      BY <2>2 DEF RunGather
    <3>2. PopsFirst(Fill) /\ Op("kernel") = Filling[1]
      BY <1>1, <1>3, <2>1, <3>1, RunsPops
    <3>3. Fills
      BY <1>1, <1>6, <2>2, <3>2 DEF RunGather, Fills
    <3> QED BY <3>3 DEF DeviceStep
  <2>3. CASE RunToCpu
    <3>1. Runs("copy", "to_cpu")
      BY <2>3 DEF RunToCpu
    <3>2. PopsSecond(Drain) /\ Op("copy") = Draining[1]
      BY <1>1, <1>3, <2>1, <3>1, RunsPops
    <3>3. Drains
      BY <1>1, <1>6, <2>3, <3>2 DEF RunToCpu, Drains
    <3> QED BY <3>3 DEF DeviceStep
  <2>4. ~RunScatter
    <3>1. SUFFICES ASSUME Runs("kernel", "scatter") PROVE FALSE
      BY DEF RunScatter
    <3>2. PopsFirst("scatter")
      BY <1>1, <1>3, <2>1, <3>1, RunsPops
    <3> QED BY <2>1, <3>2, QueueType, HeadShape DEF PopsFirst, StreamInv
  <2>5. ~RunToDevice
    <3>1. SUFFICES ASSUME Runs("copy", "to_device") PROVE FALSE
      BY DEF RunToDevice
    <3>2. PopsSecond("to_device")
      BY <1>1, <1>3, <2>1, <3>1, RunsPops
    <3> QED BY <2>1, <3>2, QueueType, HeadShape DEF PopsSecond, StreamInv
  <2>6. RunForward => DeviceStep
    BY <1>1 DEF DeviceStep
  <2> QED BY <1>3, <1>4, <1>5, <2>2, <2>3, <2>4, <2>5, <2>6 DEF Device
<1>7. CASE dir = "from_host"
  <2>1. /\ First = "copy" /\ Second = "kernel" /\ Fill = "to_device" /\ Drain = "scatter"
        /\ Filling = streams["copy"] /\ Draining = streams["kernel"] /\ dir # "to_host"
    BY <1>7 DEF First, Second, Fill, Drain, Filling, Draining
  <2>2. CASE RunToDevice
    <3>1. Runs("copy", "to_device")
      BY <2>2 DEF RunToDevice
    <3>2. PopsFirst(Fill) /\ Op("copy") = Filling[1]
      BY <1>1, <1>3, <2>1, <3>1, RunsPops
    <3>3. Fills
      BY <1>1, <2>1, <2>2, <3>2 DEF RunToDevice, Fills
    <3> QED BY <3>3 DEF DeviceStep
  <2>3. CASE RunScatter
    <3>1. Runs("kernel", "scatter")
      BY <2>3 DEF RunScatter
    <3>2. PopsSecond(Drain) /\ Op("kernel") = Draining[1]
      BY <1>1, <1>3, <2>1, <3>1, RunsPops
    <3>3. Drains
      BY <1>1, <2>1, <2>3, <3>2 DEF RunScatter, Drains
    <3> QED BY <3>3 DEF DeviceStep
  <2>4. ~RunGather
    <3>1. SUFFICES ASSUME Runs("kernel", "gather") PROVE FALSE
      BY DEF RunGather
    <3>2. PopsSecond("gather")
      BY <1>1, <1>3, <2>1, <3>1, RunsPops
    <3> QED BY <2>1, <3>2, QueueType, HeadShape DEF PopsSecond, StreamInv
  <2>5. ~RunToCpu
    <3>1. SUFFICES ASSUME Runs("copy", "to_cpu") PROVE FALSE
      BY DEF RunToCpu
    <3>2. PopsFirst("to_cpu")
      BY <1>1, <1>3, <2>1, <3>1, RunsPops
    <3> QED BY <2>1, <3>2, QueueType, HeadShape DEF PopsFirst, StreamInv
  <2>6. RunForward => DeviceStep
    BY <1>1 DEF DeviceStep
  <2> QED BY <1>3, <1>4, <1>5, <2>2, <2>3, <2>4, <2>5, <2>6 DEF Device
<1> QED BY <1>2, <1>6, <1>7

\* What a queue gets is a sequence of operations.
LEMMA Enqueued ==
  ASSUME TypeInv, NEW kernel \in Seq(Ops), NEW copy \in Seq(Ops), NEW Bump,
         Enqueue(kernel, copy, Bump), dir' = dir
  PROVE  /\ Typed /\ Bumped(Bump) /\ UNCHANGED <<fired, staging, kv, forward>>
         /\ dir = "to_host" => Filling' = Filling \o kernel /\ Draining' = Draining \o copy
         /\ dir = "from_host" => Filling' = Filling \o copy /\ Draining' = Draining \o kernel
<1>1. /\ streams \in [Streams -> Seq(Ops)]
      /\ streams["kernel"] \in Seq(Ops) /\ streams["copy"] \in Seq(Ops)
  BY QueueType DEF TypeInv
<1>2. streams["kernel"] \o kernel \in Seq(Ops) /\ streams["copy"] \o copy \in Seq(Ops)
  BY <1>1
<1>3. streams' = [streams EXCEPT !["kernel"] = @ \o kernel, !["copy"] = @ \o copy]
  BY DEF Enqueue
<1>4. /\ streams'["kernel"] = streams["kernel"] \o kernel
      /\ streams'["copy"] = streams["copy"] \o copy
      /\ streams' \in [Streams -> Seq(Ops)]
  BY <1>1, <1>2, <1>3 DEF Streams
<1>5. Typed /\ Bumped(Bump) /\ UNCHANGED <<fired, staging, kv, forward>>
  BY <1>4 DEF Typed, Bumped, Enqueue
<1> QED BY <1>4, <1>5 DEF Filling, Draining, First, Second

\* The steps are steps of the queues.
LEMMA NextSteps ==
  ASSUME TypeInv, StreamInv, Next
  PROVE  Step
<1>1. /\ i \in Nat /\ issued \in [Events -> Nat] /\ call.no \in Nat /\ call.skip \in Nat
      /\ dir \in {"to_host", "from_host"}
  BY DEF TypeInv
<1>2. /\ Slot \in Slots
      /\ \A s \in Slots : ready(s) \in Events /\ free(s) \in Events
      /\ begin \in Events /\ end \in Events
      /\ \A e \in Events, t \in Nat : Wait(e, t) \in Ops /\ Record(e, t) \in Ops
      /\ \A what \in {"gather", "to_cpu", "to_device", "scatter"}, skip \in Nat :
           Move(what, Slot, call.no, i, skip) \in Ops
  BY <1>1, SlotType
<1>3. \A e \in Events : RecordNext(e) \in Ops
  BY <1>1, <1>2 DEF RecordNext
<1>4. <<>> \in Seq(Ops) /\ \A e \in Events : <<RecordNext(e)>> \in Seq(Ops)
  BY <1>3
<1>5. \A q \in Seq(Ops) : q \o <<>> = q
  OBVIOUS
<1>6. Filling \in Seq(Ops) /\ Draining \in Seq(Ops)
  BY QueueType
<1>7. CASE Begin
  <2>1. dir' = dir
    BY <1>7 DEF Begin
  <2>2. CASE dir = "to_host"
    <3>1. Enqueue(<<RecordNext(begin)>>, <<>>, {begin}) /\ DeviceFrozen
      BY <1>7, <2>2 DEF Begin
    <3>2. /\ Typed /\ Bumped({begin}) /\ UNCHANGED <<fired, staging, kv, forward>>
          /\ Filling' = Filling \o <<RecordNext(begin)>> /\ Draining' = Draining \o <<>>
      BY <1>2, <1>4, <2>1, <2>2, <3>1, Enqueued
    <3>3. Filling = <<>> /\ Draining = <<>> /\ ~forward
      BY <2>2, <3>1 DEF DeviceFrozen, Idle, Filling, Draining, First, Second
    <3>4. Begins
      BY <1>5, <1>6, <1>7, <3>2, <3>3 DEF Begin, Begins
    <3> QED BY <3>4 DEF Step
  <2>3. CASE dir = "from_host"
    <3>1. Enqueue(<<>>, <<RecordNext(begin)>>, {begin})
      BY <1>7, <2>3 DEF Begin
    <3>2. /\ Typed /\ Bumped({begin}) /\ UNCHANGED <<fired, staging, kv, forward>>
          /\ Filling' = Filling \o <<RecordNext(begin)>> /\ Draining' = Draining \o <<>>
      BY <1>2, <1>4, <2>1, <2>3, <3>1, Enqueued
    <3>3. Begins
      BY <1>5, <1>6, <1>7, <2>3, <3>2 DEF Begin, Begins
    <3> QED BY <3>3 DEF Step
  <2> QED BY <1>1, <2>2, <2>3
<1>8. CASE End
  <2>1. dir' = dir
    BY <1>8 DEF End
  <2>2. CASE dir = "to_host"
    <3>1. Enqueue(<<>>, <<RecordNext(end)>>, {end})
      BY <1>8, <2>2 DEF End
    <3>2. /\ Typed /\ Bumped({end}) /\ UNCHANGED <<fired, staging, kv, forward>>
          /\ Draining' = Draining \o <<RecordNext(end)>> /\ Filling' = Filling \o <<>>
      BY <1>2, <1>4, <2>1, <2>2, <3>1, Enqueued
    <3>3. Ends
      BY <1>5, <1>6, <1>8, <3>2 DEF End, Ends
    <3> QED BY <3>3 DEF Step
  <2>3. CASE dir = "from_host"
    <3>1. Enqueue(<<RecordNext(end)>>, <<>>, {end})
      BY <1>8, <2>3 DEF End
    <3>2. /\ Typed /\ Bumped({end}) /\ UNCHANGED <<fired, staging, kv, forward>>
          /\ Draining' = Draining \o <<RecordNext(end)>> /\ Filling' = Filling \o <<>>
      BY <1>2, <1>4, <2>1, <2>3, <3>1, Enqueued
    <3>3. Ends
      BY <1>5, <1>6, <1>8, <3>2 DEF End, Ends
    <3> QED BY <3>3 DEF Step
  <2> QED BY <1>1, <2>2, <2>3
<1> DEFINE A == Wait(free(Slot), issued[free(Slot)])
           B == Wait(ready(Slot), issued[ready(Slot)] + 1)
           F == Move(Fill, Slot, call.no, i, 0)
           D(skip) == Move(Drain, Slot, call.no, i, skip)
           R == RecordNext(ready(Slot))
           E == RecordNext(free(Slot))
<1>9. A \in Ops /\ B \in Ops /\ R \in Ops /\ E \in Ops
  BY <1>1, <1>2, <1>3
<1>10. F \in Ops /\ \A skip \in Nat : D(skip) \in Ops
  BY <1>1, <1>2 DEF Fill, Drain
<1>11. \A skip \in Nat : <<A, F, R>> \in Seq(Ops) /\ <<B, D(skip), E>> \in Seq(Ops)
  BY <1>9, <1>10
<1>12. CASE ToHostChunk
  <2>1. dir = "to_host" /\ dir' = dir /\ Fill = "gather" /\ Drain = "to_cpu"
    BY <1>12 DEF ToHostChunk, Fill, Drain
  <2>2. Enqueue(<<A, F, R>>, <<B, D(0), E>>, {ready(Slot), free(Slot)})
    BY <1>12, <2>1 DEF ToHostChunk
  <2> HIDE DEF A, B, F, D, R, E
  <2>3. <<A, F, R>> \in Seq(Ops) /\ <<B, D(0), E>> \in Seq(Ops)
    BY <1>11
  <2>4. /\ Typed /\ Bumped({ready(Slot), free(Slot)}) /\ UNCHANGED <<fired, staging, kv, forward>>
        /\ Filling' = Filling \o <<A, F, R>> /\ Draining' = Draining \o <<B, D(0), E>>
    BY <2>1, <2>2, <2>3, Enqueued
  <2>5. IssuesToHost
    BY <1>12, <2>1, <2>4 DEF ToHostChunk, IssuesToHost, Issues, More, A, B, F, D, R, E
  <2> QED BY <2>5 DEF Step
<1>13. CASE FromHostChunk
  <2>1. dir = "from_host" /\ dir' = dir /\ Fill = "to_device" /\ Drain = "scatter" /\ dir # "to_host"
    BY <1>13 DEF FromHostChunk, Fill, Drain
  <2>2. Enqueue(<<B, D(Skip), E>>, <<A, F, R>>, {ready(Slot), free(Slot)})
    BY <1>13, <2>1 DEF FromHostChunk
  <2>3. Skip \in Nat
    BY <1>1 DEF Skip
  <2> HIDE DEF A, B, F, D, R, E
  <2>4. <<A, F, R>> \in Seq(Ops) /\ <<B, D(Skip), E>> \in Seq(Ops)
    BY <1>11, <2>3
  <2>5. /\ Typed /\ Bumped({ready(Slot), free(Slot)}) /\ UNCHANGED <<fired, staging, kv, forward>>
        /\ Filling' = Filling \o <<A, F, R>> /\ Draining' = Draining \o <<B, D(Skip), E>>
    BY <2>1, <2>2, <2>4, Enqueued
  <2>6. IssuesFromHost
    BY <1>13, <2>1, <2>5 DEF FromHostChunk, IssuesFromHost, Issues, More, A, B, F, D, R, E
  <2> QED BY <2>6 DEF Step
<1>14. CASE FromHostRaise \/ Return \/ Leave
  <2>1. Returns
    <3>1. CASE FromHostRaise
      BY <3>1 DEF FromHostRaise, Returns
    <3>2. CASE Return
      <4>1. dir = "from_host" => Draining = <<>>
        BY <3>2 DEF Return, Scattered, Idle, Draining, Second
      <4> QED BY <3>2, <4>1 DEF Return, Returns
    <3>3. CASE Leave
      BY <3>3 DEF Leave, Returns
    <3> QED BY <1>14, <3>1, <3>2, <3>3
  <2> QED BY <2>1 DEF Step
<1>15. CASE Device
  BY <1>15, DeviceSteps DEF Step
<1> QED BY <1>7, <1>8, <1>12, <1>13, <1>14, <1>15 DEF Next, Host, Step
-----------------------------------------------------------------------------

(***************************************************************************)
(* TypeInv and StreamInv.                                                  *)
(***************************************************************************)

\* The initial states.
LEMMA InitFacts ==
  ASSUME Init
  PROVE  TypeInv /\ StreamInv /\ PairInv /\ HostInv /\ ToHostInv /\ FromHostInv
<1> USE DEF Init
<1>1. <<>> \in Seq(Ops) /\ Len(<<>>) = 0 /\ 1 .. 0 = {}
  OBVIOUS
<1>2. Filling = <<>> /\ Draining = <<>>
  BY DEF Filling, Draining, First, Second
<1>3. TypeInv
  <2>1. streams \in [Streams -> Seq(Ops)]
    BY <1>1 DEF Streams
  <2>2. issued \in [Events -> Nat] /\ fired \in [Events -> Nat]
    OBVIOUS
  <2>3. call \in [no : Nat, n : Nat, skip : Nat] /\ ~(call.no > 0) /\ i \in Nat
    OBVIOUS
  <2>4. DOMAIN staging = Slots /\ DOMAIN cpu_bufs = Slots /\ DOMAIN kv = Calls \X Chunks \X Blocks
    OBVIOUS
  <2>5. dir \in {"to_host", "from_host"} /\ pc = "idle" /\ forward \in BOOLEAN
    OBVIOUS
  <2> QED BY <2>1, <2>2, <2>3, <2>4, <2>5 DEF TypeInv
<1>4. 1 .. Len(Filling) = {} /\ 1 .. Len(Draining) = {} /\ Len(Filling) = 0 /\ Len(Draining) = 0
  BY <1>1, <1>2
<1>5. \A s \in Slots : ready(s) \in Events /\ free(s) \in Events
  BY DEF Events
<1>6. StreamInv
  BY <1>4, <1>5 DEF StreamInv, Shaped, Passed, Numbered
<1>7. PairInv
  BY <1>4 DEF PairInv, Moves, Converse, Link
<1>8. HostInv
  BY DEF HostInv
<1>9. \A x \in DOMAIN kv : x[1] # call.no
  BY DEF Calls
<1>10. chunks = [k \in 1 .. i |-> Right(call.no, k - 1)]
  <2>1. i = 0 /\ chunks = <<>>
    OBVIOUS
  <2> QED BY <1>1, <2>1
<1>11. ToHostInv
  BY <1>4, <1>9, <1>10 DEF ToHostInv
<1>12. \A x \in DOMAIN kv : kv[x] = Stale
  OBVIOUS
<1>13. 0 .. (i - 1) = {}
  OBVIOUS
<1>14. FromHostInv
  BY <1>4, <1>12, <1>13 DEF FromHostInv, Skips, Untouched, Landed
<1> QED BY <1>3, <1>6, <1>7, <1>8, <1>11, <1>14

\* What the device runs is an operation.
LEMMA OpFacts ==
  ASSUME NEW q \in Seq(Ops), NEW x \in 1 .. Len(q)
  PROVE  /\ q[x].do \in {"wait", "record"} => q[x].on \in Events /\ q[x].t \in Nat
         /\ q[x].do \in {"gather", "to_cpu", "to_device", "scatter"} =>
              /\ q[x].slot \in Slots /\ q[x].call \in Nat /\ q[x].chunk \in Nat
              /\ q[x].skip \in Nat
<1>1. q[x] \in Ops
  OBVIOUS
<1> QED BY <1>1 DEF Ops, Sync, Transport

\* Every step keeps the types.
LEMMA TypeStep ==
  ASSUME TypeInv, StreamInv, [Next]_vars
  PROVE  TypeInv'
<1> USE DEF TypeInv
<1>1. CASE UNCHANGED vars
  BY <1>1 DEF vars, hostVars, devVars
<1>2. CASE Enter
  <2>1. PICK n \in CallSizes, skip \in Blocks : call' = [no |-> call.no + 1, n |-> n, skip |-> skip]
    BY <1>2 DEF Enter
  <2>2. n \in Nat /\ skip \in Nat /\ call.no + 1 \in Calls
    <3>1. call.no < MaxCalls
      BY <1>2 DEF Enter
    <3> QED BY <3>1, TransferAssumption, LayoutAssumption DEF Blocks, Calls
  <2>3. /\ call' \in [no : Nat, n : Nat, skip : Nat]
        /\ call'.no \in Calls /\ call'.n \in CallSizes /\ call'.skip \in Blocks
    BY <2>1, <2>2
  <2>4. /\ UNCHANGED <<dir, streams, issued, fired, staging, cpu_bufs, kv>>
        /\ pc' = "begin" /\ i' = 0 /\ forward' \in BOOLEAN
    BY <1>2 DEF Enter
  <2> QED BY <2>3, <2>4
<1>3. ASSUME NEW E, Bumped(E) PROVE issued' \in [Events -> Nat]
  BY <1>3 DEF Bumped
<1>4. CASE Begins \/ Ends \/ Returns \/ IssuesToHost \/ IssuesFromHost
  <2>1. CASE Begins \/ Ends
    BY <1>3, <2>1 DEF Begins, Ends, Typed
  <2>2. CASE Returns
    BY <2>2 DEF Returns, devVars
  <2>3. CASE IssuesToHost
    <3>1. issued' \in [Events -> Nat]
      BY <1>3, <2>3 DEF IssuesToHost, Issues
    <3> QED BY <2>3, <3>1 DEF IssuesToHost, Issues, Typed
  <2>4. CASE IssuesFromHost
    <3>1. issued' \in [Events -> Nat]
      BY <1>3, <2>4 DEF IssuesFromHost, Issues
    <3>2. DOMAIN cpu_bufs' = Slots /\ i' \in Nat
      BY <2>4 DEF IssuesFromHost
    <3> QED BY <2>4, <3>1, <3>2 DEF IssuesFromHost, Issues, Typed
  <2> QED BY <1>4, <2>1, <2>2, <2>3, <2>4
<1>5. CASE ToHostExtract
  BY <1>5 DEF ToHostExtract, devVars
<1>6. CASE DeviceStep
  <2>1. UNCHANGED <<dir, hostVars, issued>>
    BY <1>6 DEF DeviceStep, Waits, Records, Fills, Drains, RunForward
  <2>2. streams' \in [Streams -> Seq(Ops)]
    BY <1>6 DEF DeviceStep, PopsFirst, PopsSecond, Fills, Drains, RunForward, Typed
  <2>3. fired' \in [Events -> Nat]
    <3>1. ASSUME NEW q \in Seq(Ops), q # <<>>, q[1].do = "record", Records(q)
          PROVE  fired' \in [Events -> Nat]
      <4>0. 1 \in 1 .. Len(q)
        BY <3>1, TailFacts
      <4>1. q[1].on \in Events /\ q[1].t \in Nat
        BY <3>1, <4>0, OpFacts
      <4> QED BY <3>1, <4>1 DEF Records
    <3> QED BY <1>6, <3>1, QueueType
        DEF DeviceStep, Waits, Fills, Drains, RunForward, PopsFirst, PopsSecond
  <2>4. DOMAIN staging' = Slots /\ DOMAIN cpu_bufs' = Slots
    BY <1>6 DEF DeviceStep, Waits, Records, Fills, Drains, RunForward
  <2>5. DOMAIN kv' = DOMAIN kv /\ forward' \in BOOLEAN
    BY <1>6 DEF DeviceStep, Waits, Records, Fills, Drains, RunForward
  <2> QED BY <2>1, <2>2, <2>3, <2>4, <2>5 DEF hostVars
<1>7. CASE Next
  <2>1. Step
    BY <1>7, NextSteps
  <2> QED BY <1>2, <1>4, <1>5, <1>6, <2>1 DEF Step
<1> QED BY <1>1, <1>7

\* A wait that is over, and the move behind it.
LEMMA PassedWait ==
  ASSUME NEW q, NEW what, NEW gate, NEW mark, NEW lag, NEW f,
         q \in Seq(Ops), q # <<>>, what \notin {"wait", "record"}, lag \in Nat,
         Shaped(q, what, gate, mark, lag), f \in [Events -> Nat],
         q[1].do = "wait" => f[q[1].on] >= q[1].t
  PROVE  Passed(Tail(q), what, gate, lag, f)
<1> DEFINE p == Tail(q)
<1>1. /\ Len(q) \in Nat /\ Len(p) = Len(q) - 1 /\ 1 \in 1 .. Len(q)
      /\ \A x \in 1 .. Len(p) : x + 1 \in 1 .. Len(q) /\ p[x] = q[x + 1]
  BY TailFacts
<1> HIDE DEF p
<1>2. SUFFICES ASSUME Len(p) > 0, p[1].do = what
               PROVE  f[<<gate, p[1].slot>>] + lag >= p[2].t
  BY DEF Passed, p
<1>3. 2 \in 1 .. Len(q) /\ p[1] = q[2]
  BY <1>1, <1>2
<1>4. 3 <= Len(q) /\ q[1].do = "wait" /\ q[1].t + lag = q[3].t
  BY <1>2, <1>3 DEF Shaped
<1>5. q[1].on = <<gate, q[2].slot>>
  BY <1>1, <1>4 DEF Shaped
<1>6. p[2] = q[3]
  BY <1>1, <1>4
<1>7. q[1].on \in Events /\ q[1].t \in Nat
  BY <1>1, <1>4, OpFacts
<1>8. f[q[1].on] \in Nat /\ f[q[1].on] >= q[1].t
  BY <1>4, <1>7
<1> QED BY <1>3, <1>4, <1>5, <1>6, <1>7, <1>8

\* What has passed stays so when events fire.
LEMMA PassedStays ==
  ASSUME NEW q, NEW what, NEW gate, NEW mark, NEW lag, NEW f, NEW g,
         q \in Seq(Ops), what \in {"gather", "to_cpu", "to_device", "scatter"},
         gate \in {"ready", "free"}, lag \in Nat, Shaped(q, what, gate, mark, lag),
         f \in [Events -> Nat], g \in [Events -> Nat], \A e \in Events : f[e] <= g[e],
         Passed(q, what, gate, lag, f)
  PROVE  Passed(q, what, gate, lag, g)
<1>1. SUFFICES ASSUME Len(q) > 0, q[1].do = what
               PROVE  g[<<gate, q[1].slot>>] + lag >= q[2].t
  BY DEF Passed
<1>2. 1 \in 1 .. Len(q) /\ Len(q) \in Nat
  BY <1>1
<1>3. 2 \in 1 .. Len(q) /\ q[2].do = "record"
  BY <1>1, <1>2 DEF Shaped
<1>4. q[2].t \in Nat /\ q[1].slot \in Slots
  BY <1>1, <1>2, <1>3, OpFacts
<1>5. <<gate, q[1].slot>> \in Events
  BY <1>4 DEF Events, ready, free
<1>6. f[<<gate, q[1].slot>>] + lag >= q[2].t
  BY <1>1 DEF Passed
<1> QED BY <1>4, <1>5, <1>6

\* A queue that gets operations at its end still has the same at its head.
LEMMA PassedMore ==
  ASSUME NEW q, NEW p, NEW what, NEW gate, NEW mark, NEW lag, NEW f,
         q \in Seq(Ops), p \in Seq(Ops), Shaped(q, what, gate, mark, lag),
         Passed(q, what, gate, lag, f), Len(q) < Len(p), \A x \in 1 .. Len(q) : p[x] = q[x],
         p[1].do = what => Len(q) > 0
  PROVE  Passed(p, what, gate, lag, f)
<1>1. SUFFICES ASSUME p[1].do = what PROVE f[<<gate, p[1].slot>>] + lag >= p[2].t
  BY DEF Passed
<1>2. Len(q) \in Nat /\ 1 \in 1 .. Len(q) /\ p[1] = q[1]
  BY <1>1
<1>3. 2 \in 1 .. Len(q) /\ p[2] = q[2]
  BY <1>1, <1>2 DEF Shaped
<1> QED BY <1>1, <1>2, <1>3 DEF Passed

\* A queue that runs its first operation, and what that does to the other.
LEMMA PopKeeps ==
  ASSUME NEW q, NEW what, NEW gate, NEW mark, NEW other, NEW lag, NEW f, NEW m, NEW g,
         q \in Seq(Ops), q # <<>>, what \in {"gather", "to_cpu", "to_device", "scatter"},
         gate \in {"ready", "free"}, lag \in Nat, f \in [Events -> Nat], m \in [Events -> Nat],
         g \in [Events -> Nat], Shaped(q, what, gate, mark, lag), Numbered(q, mark, other, f, m),
         \/ g = f /\ (q[1].do = "wait" => f[q[1].on] >= q[1].t)
         \/ q[1].do = "record" /\ g = [f EXCEPT ![q[1].on] = q[1].t]
  PROVE  /\ Shaped(Tail(q), what, gate, mark, lag)
         /\ Passed(Tail(q), what, gate, lag, g)
         /\ Numbered(Tail(q), mark, other, g, m)
<1>1. q[1].do = "wait" => g[q[1].on] >= q[1].t
  OBVIOUS
<1>2. what \notin {"wait", "record"}
  OBVIOUS
<1>3. Shaped(Tail(q), what, gate, mark, lag)
  BY ShapedTail
<1>4. Passed(Tail(q), what, gate, lag, g)
  BY <1>1, <1>2, PassedWait
<1>5. Numbered(Tail(q), mark, other, g, m)
  BY NumberedTail
<1> QED BY <1>3, <1>4, <1>5

\* An event that fires does so upwards and not beyond what was issued.
LEMMA FiresUp ==
  ASSUME NEW q, NEW mark, NEW other, NEW f, NEW m,
         q \in Seq(Ops), q # <<>>, f \in [Events -> Nat], m \in [Events -> Nat],
         Numbered(q, mark, other, f, m), \A e \in Events : f[e] <= m[e], q[1].do = "record"
  PROVE  LET g == [f EXCEPT ![q[1].on] = q[1].t]
         IN  /\ q[1].on \in Events /\ q[1].t \in Nat /\ q[1].on[1] \in {mark, other}
             /\ g \in [Events -> Nat] /\ \A e \in Events : f[e] <= g[e] /\ g[e] <= m[e]
<1>1. 1 \in 1 .. Len(q)
  BY TailFacts
<1>2. q[1].on \in Events /\ q[1].t \in Nat
  BY <1>1, OpFacts
<1>3. f[q[1].on] < q[1].t /\ q[1].t <= m[q[1].on] /\ q[1].on[1] \in {mark, other}
  BY <1>1 DEF Numbered
<1> QED BY <1>2, <1>3

\* A queue that gets a record of begin or end.
LEMMA MoreKeeps ==
  ASSUME NEW q, NEW what, NEW gate, NEW mark, NEW other, NEW lag, NEW f, NEW m, NEW n, NEW c,
         q \in Seq(Ops), what \in {"gather", "to_cpu", "to_device", "scatter"},
         f \in [Events -> Nat], m \in [Events -> Nat], n \in [Events -> Nat],
         Shaped(q, what, gate, mark, lag), Passed(q, what, gate, lag, f),
         Numbered(q, mark, other, f, m), \A e \in Events : f[e] <= m[e] /\ m[e] <= n[e],
         c \in Ops, c.do = "record", c.on \in Events, c.on[1] \in {mark, other},
         c.t = m[c.on] + 1, n[c.on] = m[c.on] + 1
  PROVE  /\ Shaped(q \o <<c>>, what, gate, mark, lag)
         /\ Passed(q \o <<c>>, what, gate, lag, f)
         /\ Numbered(q \o <<c>>, mark, other, f, n)
<1> DEFINE p == q \o <<c>>
<1>1. what \notin {"wait", "record"}
  OBVIOUS
<1>2. Shaped(p, what, gate, mark, lag)
  BY <1>1, ShapedMore
<1>3. /\ p \in Seq(Ops) /\ Len(q) \in Nat /\ Len(p) = Len(q) + 1
      /\ p[Len(q) + 1] = c /\ \A x \in 1 .. Len(q) : p[x] = q[x]
  BY MoreFacts
<1> HIDE DEF p
<1>4. p[1].do = what => Len(q) > 0
  <2>1. SUFFICES ASSUME ~(Len(q) > 0) PROVE p[1].do # what
    OBVIOUS
  <2>2. Len(q) + 1 = 1
    BY <1>3, <2>1
  <2> QED BY <1>1, <1>3, <2>2
<1>5. Len(q) < Len(p) /\ Len(p) = Len(q) + 1
  BY <1>3
<1>6. Passed(p, what, gate, lag, f)
  BY <1>3, <1>4, <1>5, PassedMore
<1>7. (Len(q) + 1) .. (Len(p) - 1) = {}
  BY <1>3
<1>8. p[Len(p)] = c
  BY <1>3
<1>9. Numbered(p, mark, other, f, n)
  BY <1>3, <1>5, <1>7, <1>8, NumberedMore
<1> QED BY <1>2, <1>6, <1>9 DEF p

\* A queue that gets the three operations of a chunk.
LEMMA TripleKeeps ==
  ASSUME NEW q, NEW what, NEW gate, NEW mark, NEW other, NEW lag, NEW f, NEW m, NEW n, NEW a, NEW b, NEW c,
         q \in Seq(Ops), what \in {"gather", "to_cpu", "to_device", "scatter"},
         f \in [Events -> Nat], m \in [Events -> Nat], n \in [Events -> Nat],
         Shaped(q, what, gate, mark, lag), Passed(q, what, gate, lag, f),
         Numbered(q, mark, other, f, m), \A e \in Events : f[e] <= m[e] /\ m[e] <= n[e],
         a \in Ops, b \in Ops, c \in Ops, a.do = "wait", b.do = what, c.do = "record",
         a.on = <<gate, b.slot>>, c.on = <<mark, b.slot>>, a.t + lag = c.t, c.on \in Events,
         c.t = m[c.on] + 1, n[c.on] = m[c.on] + 1
  PROVE  /\ Shaped(q \o <<a, b, c>>, what, gate, mark, lag)
         /\ Passed(q \o <<a, b, c>>, what, gate, lag, f)
         /\ Numbered(q \o <<a, b, c>>, mark, other, f, n)
<1> DEFINE p == q \o <<a, b, c>>
<1>1. what \notin {"wait", "record"}
  OBVIOUS
<1>2. Shaped(p, what, gate, mark, lag)
  BY <1>1, ShapedTriple
<1>3. /\ p \in Seq(Ops) /\ Len(q) \in Nat /\ Len(p) = Len(q) + 3
      /\ p[Len(q) + 1] = a /\ p[Len(q) + 2] = b /\ p[Len(q) + 3] = c
      /\ \A x \in 1 .. Len(q) : p[x] = q[x]
  BY TripleFacts
<1> HIDE DEF p
<1>4. p[1].do = what => Len(q) > 0
  <2>1. SUFFICES ASSUME ~(Len(q) > 0) PROVE p[1].do # what
    OBVIOUS
  <2>2. Len(q) + 1 = 1
    BY <1>3, <2>1
  <2> QED BY <1>1, <1>3, <2>2
<1>5. Len(q) < Len(p)
  BY <1>3
<1>6. Passed(p, what, gate, lag, f)
  BY <1>3, <1>4, <1>5, PassedMore
<1>7. ASSUME NEW x \in (Len(q) + 1) .. (Len(p) - 1) PROVE p[x].do # "record"
  <2> DEFINE l == Len(q)
  <2>0. l \in Nat /\ Len(p) - 1 = l + 2 /\ x \in (l + 1) .. (Len(p) - 1)
    BY <1>3
  <2> HIDE DEF l
  <2>1. x = l + 1 \/ x = l + 2
    BY <2>0
  <2>2. p[x] = a \/ p[x] = b
    BY <1>3, <2>1 DEF l
  <2> QED BY <1>1, <2>2
<1>8. p[Len(p)] = c /\ c.on[1] \in {mark, other}
  BY <1>3
<1>9. Numbered(p, mark, other, f, n)
  BY <1>3, <1>5, <1>7, <1>8, NumberedMore
<1> QED BY <1>2, <1>6, <1>9 DEF p

\* Every step keeps StreamInv.
LEMMA StreamStep ==
  ASSUME TypeInv, StreamInv, [Next]_vars
  PROVE  StreamInv'
<1>1. /\ Filling \in Seq(Ops) /\ Draining \in Seq(Ops) /\ dir \in {"to_host", "from_host"}
      /\ fired \in [Events -> Nat] /\ issued \in [Events -> Nat]
  BY QueueType DEF TypeInv
<1>2. Fill \in {"gather", "to_cpu", "to_device", "scatter"} /\ Drain \in {"gather", "to_cpu", "to_device", "scatter"}
  BY <1>1 DEF Fill, Drain
<1>3. \A s \in Slots : ready(s) \in Events /\ free(s) \in Events
  BY DEF Events
<1>4. dir' = dir => Fill' = Fill /\ Drain' = Drain
  BY DEF Fill, Drain
<1>5. CASE UNCHANGED <<dir, streams, issued, fired>>
  <2>1. UNCHANGED <<Filling, Draining, Fill, Drain, issued, fired>>
    BY <1>4, <1>5 DEF Filling, Draining, First, Second
  <2> QED BY <2>1 DEF StreamInv
<1> DEFINE Fine1(q, f, m) == /\ Shaped(q, Fill, "free", "ready", 1)
                             /\ Passed(q, Fill, "free", 1, f)
                             /\ Numbered(q, "ready", "begin", f, m)
           Fine2(q, f, m) == /\ Shaped(q, Drain, "ready", "free", 0)
                             /\ Passed(q, Drain, "ready", 0, f)
                             /\ Numbered(q, "free", "end", f, m)
<1>6. Fine1(Filling, fired, issued) /\ Fine2(Draining, fired, issued)
  BY DEF StreamInv
<1>7. ASSUME dir' = dir, Fine1(Filling', fired', issued'), Fine2(Draining', fired', issued'),
             \A e \in Events : fired'[e] <= issued'[e],
             \A s \in Slots : issued'[ready(s)] = issued'[free(s)]
      PROVE  StreamInv'
  BY <1>4, <1>7 DEF StreamInv, ready, free
<1>8. /\ \A e \in Events : fired[e] <= issued[e]
      /\ \A s \in Slots : issued[ready(s)] = issued[free(s)]
  BY DEF StreamInv
<1>9. CASE PopsFirst("wait") /\ Waits(Filling)
  <2>1. /\ Filling # <<>> /\ Filling[1].do = "wait" /\ fired[Filling[1].on] >= Filling[1].t
        /\ Filling' = Tail(Filling) /\ Draining' = Draining
        /\ dir' = dir /\ fired' = fired /\ issued' = issued
    BY <1>9 DEF PopsFirst, Waits
  <2>2. Fine1(Tail(Filling), fired, issued)
    BY <1>1, <1>2, <1>6, <2>1, PopKeeps
  <2> QED BY <1>6, <1>7, <1>8, <2>1, <2>2
<1>10. CASE Fills
  <2>1. /\ Filling # <<>> /\ Filling[1].do = Fill
        /\ Filling' = Tail(Filling) /\ Draining' = Draining
        /\ dir' = dir /\ fired' = fired /\ issued' = issued
    BY <1>10 DEF PopsFirst, Fills
  <2>2. Filling[1].do # "wait"
    BY <1>2, <2>1
  <2>3. Fine1(Tail(Filling), fired, issued)
    BY <1>1, <1>2, <1>6, <2>1, <2>2, PopKeeps
  <2> QED BY <1>6, <1>7, <1>8, <2>1, <2>3
<1>11. CASE PopsFirst("record") /\ Records(Filling)
  <2> DEFINE g == [fired EXCEPT ![Filling[1].on] = Filling[1].t]
  <2>1. /\ Filling # <<>> /\ Filling[1].do = "record"
        /\ Filling' = Tail(Filling) /\ Draining' = Draining
        /\ dir' = dir /\ fired' = g /\ issued' = issued
    BY <1>11 DEF PopsFirst, Records
  <2>2. /\ Filling[1].on \in Events /\ Filling[1].t \in Nat /\ Filling[1].on[1] \in {"ready", "begin"}
        /\ g \in [Events -> Nat] /\ \A e \in Events : fired[e] <= g[e] /\ g[e] <= issued[e]
    BY <1>1, <1>6, <1>8, <2>1, FiresUp
  <2>3. Fine1(Tail(Filling), g, issued)
    BY <1>1, <1>2, <1>6, <2>1, <2>2, PopKeeps
  <2>4. Numbered(Draining, "free", "end", g, issued)
    BY <1>1, <1>6, <2>2, NumberedOther
  <2>5. Passed(Draining, Drain, "ready", 0, g)
    BY <1>1, <1>2, <1>6, <2>2, PassedStays
  <2> HIDE DEF g
  <2> QED BY <1>6, <1>7, <1>8, <2>1, <2>2, <2>3, <2>4, <2>5
<1>12. CASE PopsSecond("wait") /\ Waits(Draining)
  <2>1. /\ Draining # <<>> /\ Draining[1].do = "wait" /\ fired[Draining[1].on] >= Draining[1].t
        /\ Draining' = Tail(Draining) /\ Filling' = Filling
        /\ dir' = dir /\ fired' = fired /\ issued' = issued
    BY <1>12 DEF PopsSecond, Waits
  <2>2. Fine2(Tail(Draining), fired, issued)
    BY <1>1, <1>2, <1>6, <2>1, PopKeeps
  <2> QED BY <1>6, <1>7, <1>8, <2>1, <2>2
<1>13. CASE Drains
  <2>1. /\ Draining # <<>> /\ Draining[1].do = Drain
        /\ Draining' = Tail(Draining) /\ Filling' = Filling
        /\ dir' = dir /\ fired' = fired /\ issued' = issued
    BY <1>13 DEF PopsSecond, Drains
  <2>2. Draining[1].do # "wait"
    BY <1>2, <2>1
  <2>3. Fine2(Tail(Draining), fired, issued)
    BY <1>1, <1>2, <1>6, <2>1, <2>2, PopKeeps
  <2> QED BY <1>6, <1>7, <1>8, <2>1, <2>3
<1>14. CASE PopsSecond("record") /\ Records(Draining)
  <2> DEFINE g == [fired EXCEPT ![Draining[1].on] = Draining[1].t]
  <2>1. /\ Draining # <<>> /\ Draining[1].do = "record"
        /\ Draining' = Tail(Draining) /\ Filling' = Filling
        /\ dir' = dir /\ fired' = g /\ issued' = issued
    BY <1>14 DEF PopsSecond, Records
  <2>2. /\ Draining[1].on \in Events /\ Draining[1].t \in Nat /\ Draining[1].on[1] \in {"free", "end"}
        /\ g \in [Events -> Nat] /\ \A e \in Events : fired[e] <= g[e] /\ g[e] <= issued[e]
    BY <1>1, <1>6, <1>8, <2>1, FiresUp
  <2>3. Fine2(Tail(Draining), g, issued)
    BY <1>1, <1>2, <1>6, <2>1, <2>2, PopKeeps
  <2>4. Numbered(Filling, "ready", "begin", g, issued)
    BY <1>1, <1>6, <2>2, NumberedOther
  <2>5. Passed(Filling, Fill, "free", 1, g)
    BY <1>1, <1>2, <1>6, <2>2, PassedStays
  <2> HIDE DEF g
  <2> QED BY <1>6, <1>7, <1>8, <2>1, <2>2, <2>3, <2>4, <2>5
<1> DEFINE n == issued'
<1>15. ASSUME NEW E, Bumped(E)
       PROVE  /\ n \in [Events -> Nat]
              /\ \A e \in Events : /\ issued[e] <= n[e] /\ fired[e] <= n[e]
                                   /\ n[e] = IF e \in E THEN issued[e] + 1 ELSE issued[e]
  <2>1. /\ n \in [Events -> Nat]
        /\ \A e \in Events : n[e] = IF e \in E THEN issued[e] + 1 ELSE issued[e]
    BY <1>1, <1>15 DEF Bumped
  <2> QED BY <1>1, <1>8, <2>1
<1>16. ASSUME NEW q \in Seq(Ops), Fine1(q, fired, issued), n \in [Events -> Nat],
              \A e \in Events : issued[e] <= n[e]
       PROVE  Numbered(q, "ready", "begin", fired, n)
  <2>1. \A x \in 1 .. Len(q) : q[x].do = "record" => q[x].on \in Events /\ q[x].t \in Nat
    BY <1>16, OpFacts
  <2>2. \A x \in 1 .. Len(q) : q[x].do = "record" => q[x].t <= issued[q[x].on]
    BY <1>16 DEF Numbered
  <2>3. \A x \in 1 .. Len(q) : q[x].do = "record" => q[x].t <= n[q[x].on]
    BY <1>1, <1>16, <2>1, <2>2
  <2> QED BY <1>16, <2>3 DEF Numbered
<1>17. ASSUME NEW q \in Seq(Ops), Fine2(q, fired, issued), n \in [Events -> Nat],
              \A e \in Events : issued[e] <= n[e]
       PROVE  Numbered(q, "free", "end", fired, n)
  <2>1. \A x \in 1 .. Len(q) : q[x].do = "record" => q[x].on \in Events /\ q[x].t \in Nat
    BY <1>17, OpFacts
  <2>2. \A x \in 1 .. Len(q) : q[x].do = "record" => q[x].t <= issued[q[x].on]
    BY <1>17 DEF Numbered
  <2>3. \A x \in 1 .. Len(q) : q[x].do = "record" => q[x].t <= n[q[x].on]
    BY <1>1, <1>17, <2>1, <2>2
  <2> QED BY <1>17, <2>3 DEF Numbered
<1>18. i \in Nat /\ call.no \in Nat
  BY DEF TypeInv
<1>19. /\ Slot \in Slots /\ begin \in Events /\ end \in Events
       /\ \A e \in Events, t \in Nat : Wait(e, t) \in Ops /\ Record(e, t) \in Ops
       /\ \A what \in {"gather", "to_cpu", "to_device", "scatter"}, skip \in Nat :
            Move(what, Slot, call.no, i, skip) \in Ops
  BY <1>1, <1>18, SlotType
<1>20. \A e \in Events : /\ RecordNext(e) \in Ops /\ RecordNext(e).do = "record"
                         /\ RecordNext(e).on = e /\ RecordNext(e).t = issued[e] + 1
  BY <1>1, <1>19 DEF RecordNext, Record
<1>21. CASE Begins
  <2>1. /\ Bumped({begin}) /\ Filling' = Filling \o <<RecordNext(begin)>> /\ Draining' = Draining
        /\ dir' = dir /\ fired' = fired
    BY <1>21 DEF Begins
  <2>2. /\ n \in [Events -> Nat] /\ n[begin] = issued[begin] + 1
        /\ \A e \in Events : /\ issued[e] <= n[e] /\ fired[e] <= n[e]
                             /\ e # begin => n[e] = issued[e]
    BY <1>15, <1>19, <2>1
  <2> HIDE DEF n
  <2>3. begin[1] \in {"ready", "begin"}
    BY DEF begin
  <2>4. Fine1(Filling \o <<RecordNext(begin)>>, fired, n)
    <3> DEFINE c == RecordNext(begin)
    <3>1. c \in Ops /\ c.do = "record" /\ c.on = begin /\ c.t = issued[begin] + 1
      BY <1>19, <1>20
    <3> HIDE DEF c
    <3>2. c.on \in Events /\ c.t = issued[c.on] + 1 /\ n[c.on] = issued[c.on] + 1
      BY <1>19, <2>2, <3>1
    <3>3. c.on[1] \in {"ready", "begin"}
      BY <2>3, <3>1
    <3>4. \A e \in Events : fired[e] <= issued[e] /\ issued[e] <= n[e]
      BY <1>8, <2>2
    <3>5. Fine1(Filling \o <<c>>, fired, n)
      BY <1>1, <1>2, <1>6, <2>2, <3>1, <3>2, <3>3, <3>4, MoreKeeps
    <3> QED BY <3>5 DEF c
  <2>5. Fine2(Draining, fired, n)
    BY <1>1, <1>6, <1>17, <2>2
  <2>6. \A s \in Slots : n[ready(s)] = n[free(s)]
    BY <1>3, <1>8, <2>2 DEF ready, free, begin
  <2> QED BY <1>7, <2>1, <2>2, <2>4, <2>5, <2>6 DEF n
<1>22. CASE Ends
  <2>1. /\ Bumped({end}) /\ Draining' = Draining \o <<RecordNext(end)>> /\ Filling' = Filling
        /\ dir' = dir /\ fired' = fired
    BY <1>22 DEF Ends
  <2>2. /\ n \in [Events -> Nat] /\ n[end] = issued[end] + 1
        /\ \A e \in Events : /\ issued[e] <= n[e] /\ fired[e] <= n[e]
                             /\ e # end => n[e] = issued[e]
    BY <1>15, <1>19, <2>1
  <2> HIDE DEF n
  <2>3. end[1] \in {"free", "end"}
    BY DEF end
  <2>4. Fine2(Draining \o <<RecordNext(end)>>, fired, n)
    <3> DEFINE c == RecordNext(end)
    <3>1. c \in Ops /\ c.do = "record" /\ c.on = end /\ c.t = issued[end] + 1
      BY <1>19, <1>20
    <3> HIDE DEF c
    <3>2. c.on \in Events /\ c.t = issued[c.on] + 1 /\ n[c.on] = issued[c.on] + 1
      BY <1>19, <2>2, <3>1
    <3>3. c.on[1] \in {"free", "end"}
      BY <2>3, <3>1
    <3>4. \A e \in Events : fired[e] <= issued[e] /\ issued[e] <= n[e]
      BY <1>8, <2>2
    <3>5. Fine2(Draining \o <<c>>, fired, n)
      BY <1>1, <1>2, <1>6, <2>2, <3>1, <3>2, <3>3, <3>4, MoreKeeps
    <3> QED BY <3>5 DEF c
  <2>5. Fine1(Filling, fired, n)
    BY <1>1, <1>6, <1>16, <2>2
  <2>6. \A s \in Slots : n[ready(s)] = n[free(s)]
    BY <1>3, <1>8, <2>2 DEF ready, free, end
  <2> QED BY <1>7, <2>1, <2>2, <2>4, <2>5, <2>6 DEF n
<1>23. ASSUME NEW skip \in Nat, Issues(skip) PROVE StreamInv'
  <2> DEFINE a == Wait(free(Slot), issued[free(Slot)])
             b == Move(Fill, Slot, call.no, i, 0)
             c == RecordNext(ready(Slot))
             u == Wait(ready(Slot), issued[ready(Slot)] + 1)
             v == Move(Drain, Slot, call.no, i, skip)
             w == RecordNext(free(Slot))
  <2>1. /\ Bumped({ready(Slot), free(Slot)}) /\ Filling' = Filling \o <<a, b, c>>
        /\ Draining' = Draining \o <<u, v, w>> /\ dir' = dir /\ fired' = fired
    BY <1>23 DEF Issues
  <2>2. /\ ready(Slot) \in Events /\ free(Slot) \in Events /\ issued[free(Slot)] \in Nat
        /\ issued[ready(Slot)] = issued[free(Slot)]
    BY <1>1, <1>3, <1>8, <1>19
  <2>3. /\ n \in [Events -> Nat]
        /\ n[ready(Slot)] = issued[ready(Slot)] + 1 /\ n[free(Slot)] = issued[free(Slot)] + 1
        /\ \A e \in Events : /\ issued[e] <= n[e] /\ fired[e] <= n[e]
                             /\ e \notin {ready(Slot), free(Slot)} => n[e] = issued[e]
    BY <1>15, <2>1, <2>2
  <2> HIDE DEF n
  <2>4. /\ a \in Ops /\ a.do = "wait" /\ a.on = <<"free", Slot>> /\ a.t = issued[free(Slot)]
        /\ u \in Ops /\ u.do = "wait" /\ u.on = <<"ready", Slot>> /\ u.t = issued[free(Slot)] + 1
    BY <1>19, <2>2 DEF Wait, ready, free
  <2>5. /\ b \in Ops /\ b.do = Fill /\ b.slot = Slot
        /\ v \in Ops /\ v.do = Drain /\ v.slot = Slot
    BY <1>2, <1>19 DEF Move
  <2>6. /\ c \in Ops /\ c.do = "record" /\ c.on = ready(Slot) /\ c.t = issued[ready(Slot)] + 1
        /\ w \in Ops /\ w.do = "record" /\ w.on = free(Slot) /\ w.t = issued[free(Slot)] + 1
    BY <1>20, <2>2
  <2>7. c.on = <<"ready", b.slot>> /\ w.on = <<"free", v.slot>>
    BY <2>5, <2>6 DEF ready, free
  <2> HIDE DEF a, b, c, u, v, w
  <2>8. a.t + 1 = c.t /\ u.t + 0 = w.t
    BY <2>2, <2>4, <2>6
  <2>9. a.on = <<"free", b.slot>> /\ u.on = <<"ready", v.slot>>
    BY <2>4, <2>5
  <2>10. /\ c.on \in Events /\ c.t = issued[c.on] + 1 /\ n[c.on] = issued[c.on] + 1
         /\ w.on \in Events /\ w.t = issued[w.on] + 1 /\ n[w.on] = issued[w.on] + 1
    BY <2>2, <2>3, <2>6
  <2>11. \A e \in Events : fired[e] <= issued[e] /\ issued[e] <= n[e]
    BY <1>8, <2>3
  <2>12. Fine1(Filling \o <<a, b, c>>, fired, n)
    BY <1>1, <1>2, <1>6, <2>3, <2>4, <2>5, <2>6, <2>7, <2>8, <2>9, <2>10, <2>11, TripleKeeps
  <2>13. Fine2(Draining \o <<u, v, w>>, fired, n)
    BY <1>1, <1>2, <1>6, <2>3, <2>4, <2>5, <2>6, <2>7, <2>8, <2>9, <2>10, <2>11, TripleKeeps
  <2>14. \A s \in Slots : n[ready(s)] = n[free(s)]
    <3>1. ASSUME NEW s \in Slots PROVE n[ready(s)] = n[free(s)]
      <4>1. CASE s = Slot
        BY <2>2, <2>3, <4>1
      <4>2. CASE s # Slot
        <5>1. ready(s) \notin {ready(Slot), free(Slot)} /\ free(s) \notin {ready(Slot), free(Slot)}
          BY <4>2 DEF ready, free
        <5> QED BY <1>3, <1>8, <2>3, <5>1
      <4> QED BY <4>1, <4>2
    <3> QED BY <3>1
  <2> QED BY <1>7, <2>1, <2>3, <2>12, <2>13, <2>14 DEF n
<1>24. CASE Next
  <2>1. Step
    BY <1>24, NextSteps
  <2>2. CASE Enter \/ Returns \/ ToHostExtract \/ (RunForward /\ UNCHANGED <<dir, hostVars>>)
    <3>1. UNCHANGED <<dir, streams, issued, fired>>
      BY <2>2 DEF Enter, Returns, ToHostExtract, RunForward, devVars
    <3> QED BY <1>5, <3>1
  <2>3. Skip \in Nat
    BY DEF Skip, TypeInv
  <2>4. IssuesToHost \/ IssuesFromHost => StreamInv'
    BY <1>23, <2>3 DEF IssuesToHost, IssuesFromHost
  <2> QED BY <1>9, <1>10, <1>11, <1>12, <1>13, <1>14, <1>21, <1>22, <2>1, <2>2, <2>4
      DEF Step, DeviceStep
<1>25. CASE UNCHANGED vars
  BY <1>5, <1>25 DEF vars, devVars
<1> QED BY <1>24, <1>25
-----------------------------------------------------------------------------

(***************************************************************************)
(* HostInv and PairInv.                                                    *)
(***************************************************************************)

\* Every step keeps HostInv.
LEMMA HostStep ==
  ASSUME TypeInv, StreamInv, HostInv, [Next]_vars
  PROVE  HostInv'
<1>1. /\ call \in [no : Nat, n : Nat, skip : Nat] /\ i \in Nat /\ call.n \in Nat /\ call.no \in Nat
      /\ dir \in {"to_host", "from_host"}
  BY DEF TypeInv
<1>2. CASE UNCHANGED vars
  BY <1>2 DEF vars, hostVars, devVars, HostInv
<1>3. CASE Enter
  <2>1. PICK n \in CallSizes, skip \in Blocks : call' = [no |-> call.no + 1, n |-> n, skip |-> skip]
    BY <1>3 DEF Enter
  <2>2. n \in Nat
    BY TransferAssumption
  <2>3. call'.n \in Nat /\ call'.no > 0 /\ i' = 0 /\ pc' = "begin" /\ dir' = dir
    BY <1>1, <1>3, <2>1, <2>2 DEF Enter
  <2>4. forward' => dir = "to_host"
    BY <1>3 DEF Enter
  <2> QED BY <2>3, <2>4 DEF HostInv
<1>4. CASE Begins
  BY <1>1, <1>4 DEF Begins, HostInv
<1>5. CASE IssuesToHost
  BY <1>5 DEF IssuesToHost, Issues, HostInv
<1>6. CASE ToHostExtract
  BY <1>1, <1>6 DEF ToHostExtract, HostInv, devVars
<1>7. CASE IssuesFromHost
  <2>1. /\ pc = "chunk" /\ pc' = pc /\ i < call.n /\ i' = i + 1 /\ call' = call
        /\ forward' = forward /\ dir' = dir
    BY <1>7 DEF IssuesFromHost, Issues
  <2> QED BY <1>1, <2>1 DEF HostInv
<1>8. CASE Ends
  BY <1>1, <1>8 DEF Ends, More, HostInv
<1>9. CASE Returns
  BY <1>9 DEF Returns, HostInv, devVars
<1>10. CASE DeviceStep
  <2>1. UNCHANGED <<dir, hostVars>> /\ (forward' => forward)
    BY <1>10 DEF DeviceStep, Waits, Records, Fills, Drains, RunForward
  <2> QED BY <2>1 DEF HostInv, hostVars
<1> QED BY <1>2, <1>3, <1>4, <1>5, <1>6, <1>7, <1>8, <1>9, <1>10, NextSteps DEF Step

\* What a queue has moved is no longer there.
LEMMA MovesTail ==
  ASSUME NEW q, NEW what, NEW no, NEW n,
         q \in Seq(Ops), q # <<>>, Moves(q, what, no, n)
  PROVE  Moves(Tail(q), what, no, n)
<1> DEFINE p == Tail(q)
<1>1. \A x \in 1 .. Len(p) : x + 1 \in 1 .. Len(q) /\ p[x] = q[x + 1]
  BY TailFacts
<1> HIDE DEF p
<1>2. \A x \in 1 .. Len(p) : p[x].do = what =>
        /\ p[x].slot = p[x].chunk % 3 /\ p[x].call <= no /\ (p[x].call = no => p[x].chunk < n)
  BY <1>1 DEF Moves
<1>3. ASSUME NEW x \in 1 .. Len(p), NEW y \in 1 .. Len(p),
             p[x].do = what, p[y].do = what, Same(p[x], p[y])
      PROVE  x = y
  <2>1. x + 1 = y + 1
    BY <1>1, <1>3 DEF Moves
  <2> QED BY <2>1
<1> QED BY <1>2, <1>3 DEF Moves, p

\* A record or a later chunk may follow.
LEMMA MovesMore ==
  ASSUME NEW q, NEW p, NEW what, NEW no, NEW n, NEW k,
         q \in Seq(Ops), p \in Seq(Ops), Moves(q, what, no, n),
         what \in {"gather", "to_cpu", "to_device", "scatter"}, no \in Nat, n \in Nat, k \in Nat,
         n <= k, Len(q) <= Len(p), \A x \in 1 .. Len(q) : p[x] = q[x],
         \A x \in (Len(q) + 1) .. Len(p) : p[x].do = what =>
           /\ x = Len(q) + 2 /\ p[x].slot = p[x].chunk % 3 /\ p[x].call = no
           /\ p[x].chunk = n /\ n < k
  PROVE  Moves(p, what, no, k)
<1>1. Len(q) \in Nat /\ Len(p) \in Nat
  OBVIOUS
<1>2. \A x \in 1 .. Len(p) : x \in 1 .. Len(q) \/ x \in (Len(q) + 1) .. Len(p)
  BY <1>1
<1>3. \A x \in 1 .. Len(q) : q[x].do = what =>
        /\ q[x].slot = q[x].chunk % 3 /\ q[x].call <= no /\ (q[x].call = no => q[x].chunk < n)
        /\ q[x].chunk \in Nat
  BY OpFacts DEF Moves
<1>4. ASSUME NEW x \in 1 .. Len(p), p[x].do = what
      PROVE  p[x].slot = p[x].chunk % 3 /\ p[x].call <= no /\ (p[x].call = no => p[x].chunk < k)
  <2>1. CASE x \in 1 .. Len(q)
    <3>1. p[x] = q[x]
      BY <2>1
    <3> QED BY <1>3, <1>4, <2>1, <3>1
  <2>2. CASE x \in (Len(q) + 1) .. Len(p)
    BY <1>4, <2>2
  <2> QED BY <1>2, <2>1, <2>2
<1>5. ASSUME NEW x \in 1 .. Len(q), NEW y \in (Len(q) + 1) .. Len(p),
             p[x].do = what, p[y].do = what, Same(p[x], p[y])
      PROVE  FALSE
  <2>1. p[x] = q[x] /\ p[y].call = no /\ p[y].chunk = n
    BY <1>5
  <2>2. p[x].call = no /\ p[x].chunk = n
    BY <1>5, <2>1 DEF Same
  <2>3. q[x].chunk < n /\ q[x].chunk \in Nat
    BY <1>3, <1>5, <2>1, <2>2
  <2> QED BY <2>1, <2>2, <2>3
<1>6. ASSUME NEW x \in 1 .. Len(p), NEW y \in 1 .. Len(p),
             p[x].do = what, p[y].do = what, Same(p[x], p[y])
      PROVE  x = y
  <2>1. CASE x \in 1 .. Len(q) /\ y \in 1 .. Len(q)
    <3>1. p[x] = q[x] /\ p[y] = q[y]
      BY <2>1
    <3> QED BY <1>6, <2>1, <3>1 DEF Moves
  <2>2. CASE x \in (Len(q) + 1) .. Len(p) /\ y \in (Len(q) + 1) .. Len(p)
    <3>1. x = Len(q) + 2 /\ y = Len(q) + 2
      BY <1>6, <2>2
    <3> QED BY <3>1
  <2>3. Same(p[y], p[x])
    BY <1>6 DEF Same
  <2> QED BY <1>2, <1>5, <1>6, <2>1, <2>2, <2>3
<1> QED BY <1>4, <1>6 DEF Moves

\* Or a later call.
LEMMA MovesLater ==
  ASSUME NEW q, NEW what, NEW no, NEW n,
         q \in Seq(Ops), Moves(q, what, no, n), no \in Nat,
         what \in {"gather", "to_cpu", "to_device", "scatter"}
  PROVE  Moves(q, what, no + 1, 0)
<1>1. \A x \in 1 .. Len(q) : q[x].do = what =>
        q[x].call \in Nat /\ q[x].call <= no /\ q[x].slot = q[x].chunk % 3
  BY OpFacts DEF Moves
<1>2. \A x \in 1 .. Len(q) : q[x].do = what => q[x].call <= no + 1 /\ q[x].call # no + 1
  BY <1>1
<1> QED BY <1>1, <1>2 DEF Moves

\* The fills that remain have their drains.
LEMMA ConverseFirst ==
  ASSUME NEW p, NEW fill, NEW q, NEW drain,
         p \in Seq(Ops), p # <<>>, Converse(p, fill, q, drain),
         Shaped(p, fill, "free", "ready", 1)
  PROVE  Converse(Tail(p), fill, q, drain)
<1> DEFINE w == Tail(p)
<1>1. /\ Len(p) \in Nat /\ Len(w) = Len(p) - 1
      /\ \A x \in 1 .. Len(w) : x + 1 \in 1 .. Len(p) /\ w[x] = p[x + 1]
  BY TailFacts
<1> HIDE DEF w
<1>2. SUFFICES ASSUME NEW y \in 1 .. Len(w), w[y].do = fill
               PROVE  \E x \in 1 .. Len(q) :
                        q[x].do = drain /\ Same(q[x], w[y]) /\ q[x + 1].t = w[y + 1].t
  BY DEF Converse, w
<1> DEFINE z == y + 1
<1>3. z \in 1 .. Len(p) /\ w[y] = p[z]
  BY <1>1
<1>4. z + 1 <= Len(p)
  BY <1>2, <1>3 DEF Shaped
<1>5. w[y + 1] = p[z + 1]
  BY <1>1, <1>4
<1> HIDE DEF z
<1>6. \E x \in 1 .. Len(q) : q[x].do = drain /\ Same(q[x], p[z]) /\ q[x + 1].t = p[z + 1].t
  BY <1>2, <1>3 DEF Converse
<1> QED BY <1>3, <1>5, <1>6

\* The drain that goes is not one of a fill that remains.
LEMMA ConverseSecond ==
  ASSUME NEW p, NEW fill, NEW q, NEW drain,
         q \in Seq(Ops), q # <<>>, Converse(p, fill, q, drain),
         Shaped(q, drain, "ready", "free", 0),
         \A y \in 1 .. Len(p) : p[y].do = fill =>
           ~(q[1].do = drain /\ Same(q[1], p[y]) /\ q[2].t = p[y + 1].t)
  PROVE  Converse(p, fill, Tail(q), drain)
<1> DEFINE w == Tail(q)
<1>1. /\ Len(q) \in Nat /\ Len(w) = Len(q) - 1
      /\ \A x \in 1 .. Len(w) : x + 1 \in 1 .. Len(q) /\ w[x] = q[x + 1]
  BY TailFacts
<1> HIDE DEF w
<1>2. SUFFICES ASSUME NEW y \in 1 .. Len(p), p[y].do = fill
               PROVE  \E x \in 1 .. Len(w) :
                        w[x].do = drain /\ Same(w[x], p[y]) /\ w[x + 1].t = p[y + 1].t
  BY DEF Converse, w
<1>3. PICK z \in 1 .. Len(q) : q[z].do = drain /\ Same(q[z], p[y]) /\ q[z + 1].t = p[y + 1].t
  BY <1>2 DEF Converse
<1>4. z # 1
  BY <1>2, <1>3
<1>5. z + 1 <= Len(q)
  BY <1>3 DEF Shaped
<1> DEFINE x == z - 1
<1>6. x \in 1 .. Len(w) /\ x + 1 \in 1 .. Len(w) /\ x + 1 = z
  BY <1>1, <1>3, <1>4, <1>5
<1>7. w[x] = q[z] /\ w[x + 1] = q[z + 1]
  BY <1>1, <1>6
<1> HIDE DEF x
<1> QED BY <1>3, <1>6, <1>7

\* Fills and drains that are enqueued together.
LEMMA ConverseMore ==
  ASSUME NEW p, NEW u, NEW fill, NEW q, NEW v, NEW drain,
         p \in Seq(Ops), u \in Seq(Ops), q \in Seq(Ops), v \in Seq(Ops),
         Converse(p, fill, q, drain),
         Shaped(p, fill, "free", "ready", 1), Shaped(q, drain, "ready", "free", 0),
         Len(p) <= Len(u), \A x \in 1 .. Len(p) : u[x] = p[x],
         Len(q) <= Len(v), \A x \in 1 .. Len(q) : v[x] = q[x],
         \A y \in (Len(p) + 1) .. Len(u) : u[y].do = fill =>
           \E x \in 1 .. Len(v) :
             v[x].do = drain /\ Same(v[x], u[y]) /\ v[x + 1].t = u[y + 1].t
  PROVE  Converse(u, fill, v, drain)
<1>1. Len(p) \in Nat /\ Len(u) \in Nat /\ Len(q) \in Nat /\ Len(v) \in Nat
  OBVIOUS
<1>2. SUFFICES ASSUME NEW y \in 1 .. Len(u), u[y].do = fill
               PROVE  \E x \in 1 .. Len(v) :
                        v[x].do = drain /\ Same(v[x], u[y]) /\ v[x + 1].t = u[y + 1].t
  BY DEF Converse
<1>3. CASE y \in (Len(p) + 1) .. Len(u)
  BY <1>2, <1>3
<1>4. CASE y \in 1 .. Len(p)
  <2>1. u[y] = p[y]
    BY <1>4
  <2>2. y + 1 <= Len(p)
    BY <1>2, <1>4, <2>1 DEF Shaped
  <2>3. u[y + 1] = p[y + 1]
    BY <1>1, <1>4, <2>2
  <2>4. PICK z \in 1 .. Len(q) : q[z].do = drain /\ Same(q[z], p[y]) /\ q[z + 1].t = p[y + 1].t
    BY <1>2, <1>4, <2>1 DEF Converse
  <2>5. z + 1 <= Len(q)
    BY <2>4 DEF Shaped
  <2>6. v[z] = q[z] /\ v[z + 1] = q[z + 1] /\ z \in 1 .. Len(v)
    BY <1>1, <2>4, <2>5
  <2> QED BY <2>1, <2>3, <2>4, <2>6
<1> QED BY <1>1, <1>3, <1>4

\* The drains that remain are linked as before.
LEMMA LinkSecond ==
  ASSUME NEW p, NEW fill, NEW q, NEW drain, NEW f,
         q \in Seq(Ops), q # <<>>, Link(p, fill, q, drain, f),
         Shaped(q, drain, "ready", "free", 0)
  PROVE  Link(p, fill, Tail(q), drain, f)
<1> DEFINE w == Tail(q)
<1>1. /\ Len(q) \in Nat /\ Len(w) = Len(q) - 1
      /\ \A x \in 1 .. Len(w) : x + 1 \in 1 .. Len(q) /\ w[x] = q[x + 1]
  BY TailFacts
<1> HIDE DEF w
<1>2. SUFFICES ASSUME NEW x \in 1 .. Len(w), w[x].do = drain
               PROVE  \/ \E y \in 1 .. Len(p) : p[y].do = fill /\ Same(p[y], w[x])
                      \/ Len(p) > 0 /\ Marks(p[1], w[x].slot, w[x + 1].t)
                      \/ f[ready(w[x].slot)] >= w[x + 1].t
  BY DEF Link, w
<1> DEFINE z == x + 1
<1>3. z \in 1 .. Len(q) /\ w[x] = q[z]
  BY <1>1
<1>4. z + 1 <= Len(q)
  BY <1>2, <1>3 DEF Shaped
<1>5. w[x + 1] = q[z + 1]
  BY <1>1, <1>4
<1> HIDE DEF z
<1>6. \/ \E y \in 1 .. Len(p) : p[y].do = fill /\ Same(p[y], q[z])
      \/ Len(p) > 0 /\ Marks(p[1], q[z].slot, q[z + 1].t)
      \/ f[ready(q[z].slot)] >= q[z + 1].t
  BY <1>2, <1>3 DEF Link
<1> QED BY <1>3, <1>5, <1>6

\* The first queue has run its first operation: a fill leads to the record
\* that marks its slot, which then fires the event.
LEMMA LinkFirst ==
  ASSUME NEW p, NEW fill, NEW q, NEW drain, NEW f, NEW g, NEW no, NEW n,
         p \in Seq(Ops), p # <<>>, q \in Seq(Ops),
         fill \in {"gather", "to_cpu", "to_device", "scatter"},
         drain \in {"gather", "to_cpu", "to_device", "scatter"},
         f \in [Events -> Nat], g \in [Events -> Nat],
         Link(p, fill, q, drain, f), Converse(p, fill, q, drain),
         Moves(p, fill, no, n), Moves(q, drain, no, n),
         Shaped(p, fill, "free", "ready", 1), Shaped(q, drain, "ready", "free", 0),
         \A e \in Events : f[e] <= g[e],
         p[1].do = "record" => g[p[1].on] = p[1].t
  PROVE  Link(Tail(p), fill, q, drain, g)
<1> DEFINE w == Tail(p)
<1>1. /\ Len(p) \in Nat /\ Len(w) = Len(p) - 1 /\ 1 \in 1 .. Len(p)
      /\ \A x \in 1 .. Len(w) : x + 1 \in 1 .. Len(p) /\ w[x] = p[x + 1]
  BY TailFacts
<1> HIDE DEF w
<1>2. SUFFICES ASSUME NEW x \in 1 .. Len(q), q[x].do = drain
               PROVE  \/ \E y \in 1 .. Len(w) : w[y].do = fill /\ Same(w[y], q[x])
                      \/ Len(w) > 0 /\ Marks(w[1], q[x].slot, q[x + 1].t)
                      \/ g[ready(q[x].slot)] >= q[x + 1].t
  BY DEF Link, w
<1>3. x + 1 <= Len(q) /\ q[x + 1].do = "record" /\ q[x].slot \in Slots /\ Len(q) \in Nat
  <2>1. x + 1 <= Len(q) /\ q[x + 1].do = "record"
    BY <1>2 DEF Shaped
  <2>2. q[x].slot \in Slots
    BY <1>2, OpFacts
  <2> QED BY <2>1, <2>2
<1>4. q[x + 1].t \in Nat /\ ready(q[x].slot) \in Events
  <2>1. x + 1 \in 1 .. Len(q)
    BY <1>2, <1>3
  <2>2. q[x + 1].t \in Nat
    BY <1>3, <2>1, OpFacts
  <2> QED BY <1>3, <2>2 DEF Events
<1>5. \/ \E y \in 1 .. Len(p) : p[y].do = fill /\ Same(p[y], q[x])
      \/ Marks(p[1], q[x].slot, q[x + 1].t)
      \/ f[ready(q[x].slot)] >= q[x + 1].t
  BY <1>2 DEF Link
<1>6. ASSUME NEW y \in 1 .. Len(p), p[y].do = fill, Same(p[y], q[x]), y # 1
      PROVE  \E z \in 1 .. Len(w) : w[z].do = fill /\ Same(w[z], q[x])
  <2> DEFINE z == y - 1
  <2>1. z \in 1 .. Len(w) /\ z + 1 = y
    BY <1>1, <1>6
  <2>2. w[z] = p[y]
    BY <1>1, <2>1
  <2> HIDE DEF z
  <2> QED BY <1>6, <2>1, <2>2
<1>7. ASSUME p[1].do = fill, Same(p[1], q[x])
      PROVE  Len(w) > 0 /\ Marks(w[1], q[x].slot, q[x + 1].t)
  <2>1. 2 <= Len(p) /\ p[2].do = "record" /\ p[2].on = <<"ready", p[1].slot>>
    BY <1>1, <1>7 DEF Shaped
  <2>2. Len(w) > 0 /\ 1 \in 1 .. Len(w)
    BY <1>1, <2>1
  <2>3. w[1] = p[2]
    BY <1>1, <2>2
  <2>4. PICK z \in 1 .. Len(q) : q[z].do = drain /\ Same(q[z], p[1]) /\ q[z + 1].t = p[2].t
    BY <1>1, <1>7 DEF Converse
  <2>5. Same(q[z], q[x])
    BY <1>7, <2>4 DEF Same
  <2>6. z = x
    BY <1>2, <2>4, <2>5 DEF Moves
  <2>7. p[1].slot = p[1].chunk % 3 /\ q[x].slot = q[x].chunk % 3
    BY <1>1, <1>2, <1>7 DEF Moves
  <2>8. p[1].slot = q[x].slot
    BY <1>7, <2>7 DEF Same
  <2> QED BY <2>1, <2>2, <2>3, <2>4, <2>6, <2>8 DEF Marks, ready
<1>8. ASSUME Marks(p[1], q[x].slot, q[x + 1].t) PROVE g[ready(q[x].slot)] >= q[x + 1].t
  <2>1. p[1].do = "record" /\ p[1].on = ready(q[x].slot) /\ p[1].t = q[x + 1].t
    BY <1>8 DEF Marks
  <2> QED BY <1>4, <2>1
<1>9. f[ready(q[x].slot)] >= q[x + 1].t => g[ready(q[x].slot)] >= q[x + 1].t
  BY <1>4
<1> QED BY <1>5, <1>6, <1>7, <1>8, <1>9

\* An event of the second queue has fired.
LEMMA LinkFires ==
  ASSUME NEW p, NEW fill, NEW q, NEW drain, NEW f, NEW g,
         q \in Seq(Ops), drain \in {"gather", "to_cpu", "to_device", "scatter"},
         f \in [Events -> Nat], g \in [Events -> Nat],
         Link(p, fill, q, drain, f), Shaped(q, drain, "ready", "free", 0),
         \A e \in Events : f[e] <= g[e]
  PROVE  Link(p, fill, q, drain, g)
<1>1. SUFFICES ASSUME NEW x \in 1 .. Len(q), q[x].do = drain
               PROVE  \/ \E y \in 1 .. Len(p) : p[y].do = fill /\ Same(p[y], q[x])
                      \/ Len(p) > 0 /\ Marks(p[1], q[x].slot, q[x + 1].t)
                      \/ g[ready(q[x].slot)] >= q[x + 1].t
  BY DEF Link
<1>2. x + 1 <= Len(q) /\ q[x + 1].do = "record" /\ q[x].slot \in Slots /\ Len(q) \in Nat
  <2>1. x + 1 <= Len(q) /\ q[x + 1].do = "record"
    BY <1>1 DEF Shaped
  <2>2. q[x].slot \in Slots
    BY <1>1, OpFacts
  <2> QED BY <2>1, <2>2
<1>3. q[x + 1].t \in Nat /\ ready(q[x].slot) \in Events
  <2>1. x + 1 \in 1 .. Len(q)
    BY <1>1, <1>2
  <2>2. q[x + 1].t \in Nat
    BY <1>2, <2>1, OpFacts
  <2> QED BY <1>2, <2>2 DEF Events
<1>4. f[ready(q[x].slot)] >= q[x + 1].t => g[ready(q[x].slot)] >= q[x + 1].t
  BY <1>3
<1>5. \/ \E y \in 1 .. Len(p) : p[y].do = fill /\ Same(p[y], q[x])
      \/ Len(p) > 0 /\ Marks(p[1], q[x].slot, q[x + 1].t)
      \/ f[ready(q[x].slot)] >= q[x + 1].t
  BY <1>1 DEF Link
<1> QED BY <1>4, <1>5

\* Operations have been enqueued.
LEMMA LinkMore ==
  ASSUME NEW p, NEW u, NEW fill, NEW q, NEW v, NEW drain, NEW f,
         p \in Seq(Ops), u \in Seq(Ops), q \in Seq(Ops), v \in Seq(Ops),
         Link(p, fill, q, drain, f), Shaped(q, drain, "ready", "free", 0),
         Len(p) <= Len(u), \A x \in 1 .. Len(p) : u[x] = p[x],
         Len(q) <= Len(v), \A x \in 1 .. Len(q) : v[x] = q[x],
         \A x \in (Len(q) + 1) .. Len(v) : v[x].do = drain =>
           \E y \in 1 .. Len(u) : u[y].do = fill /\ Same(u[y], v[x])
  PROVE  Link(u, fill, v, drain, f)
<1>1. Len(p) \in Nat /\ Len(u) \in Nat /\ Len(q) \in Nat /\ Len(v) \in Nat
  OBVIOUS
<1>2. SUFFICES ASSUME NEW x \in 1 .. Len(v), v[x].do = drain
               PROVE  \/ \E y \in 1 .. Len(u) : u[y].do = fill /\ Same(u[y], v[x])
                      \/ Len(u) > 0 /\ Marks(u[1], v[x].slot, v[x + 1].t)
                      \/ f[ready(v[x].slot)] >= v[x + 1].t
  BY DEF Link
<1>3. CASE x \in (Len(q) + 1) .. Len(v)
  BY <1>2, <1>3
<1>4. CASE x \in 1 .. Len(q)
  <2>1. v[x] = q[x]
    BY <1>4
  <2>2. x + 1 <= Len(q)
    BY <1>2, <1>4, <2>1 DEF Shaped
  <2>3. v[x + 1] = q[x + 1]
    BY <1>1, <1>4, <2>2
  <2>4. \/ \E y \in 1 .. Len(p) : p[y].do = fill /\ Same(p[y], q[x])
        \/ Len(p) > 0 /\ Marks(p[1], q[x].slot, q[x + 1].t)
        \/ f[ready(q[x].slot)] >= q[x + 1].t
    BY <1>2, <1>4, <2>1 DEF Link
  <2>5. Len(p) > 0 => Len(u) > 0 /\ u[1] = p[1]
    <3>1. Len(p) > 0 => 1 \in 1 .. Len(p)
      BY <1>1
    <3> QED BY <1>1, <3>1
  <2>6. \A y \in 1 .. Len(p) : y \in 1 .. Len(u) /\ u[y] = p[y]
    BY <1>1
  <2> QED BY <2>1, <2>3, <2>4, <2>5, <2>6
<1> QED BY <1>1, <1>3, <1>4
\* The moves of chunk i, at the ends of the two queues.
LEMMA IssueFacts ==
  ASSUME TypeInv, NEW skip \in Nat, Issues(skip)
  PROVE  /\ Filling' \in Seq(Ops) /\ Draining' \in Seq(Ops)
         /\ Len(Filling') = Len(Filling) + 3 /\ Len(Draining') = Len(Draining) + 3
         /\ \A x \in 1 .. Len(Filling) : Filling'[x] = Filling[x]
         /\ \A x \in 1 .. Len(Draining) : Draining'[x] = Draining[x]
         /\ Filling'[Len(Filling) + 1].do = "wait"
         /\ Draining'[Len(Draining) + 1].do = "wait"
         /\ Filling'[Len(Filling) + 2] = Move(Fill, Slot, call.no, i, 0)
         /\ Draining'[Len(Draining) + 2] = Move(Drain, Slot, call.no, i, skip)
         /\ Filling'[Len(Filling) + 3] = RecordNext(ready(Slot))
         /\ Draining'[Len(Draining) + 3] = RecordNext(free(Slot))
<1>1. /\ i \in Nat /\ issued \in [Events -> Nat] /\ call.no \in Nat
      /\ dir \in {"to_host", "from_host"}
  BY DEF TypeInv
<1>2. /\ Slot \in Slots
      /\ \A s \in Slots : ready(s) \in Events /\ free(s) \in Events
      /\ \A e \in Events, t \in Nat : Wait(e, t) \in Ops /\ Record(e, t) \in Ops
      /\ \A what \in {"gather", "to_cpu", "to_device", "scatter"}, z \in Nat :
           Move(what, Slot, call.no, i, z) \in Ops
  BY <1>1, SlotType
<1>3. Filling \in Seq(Ops) /\ Draining \in Seq(Ops)
  BY QueueType
<1> DEFINE A == Wait(free(Slot), issued[free(Slot)])
           B == Wait(ready(Slot), issued[ready(Slot)] + 1)
           F == Move(Fill, Slot, call.no, i, 0)
           D == Move(Drain, Slot, call.no, i, skip)
           R == RecordNext(ready(Slot))
           E == RecordNext(free(Slot))
<1>4. A \in Ops /\ B \in Ops /\ R \in Ops /\ E \in Ops
  BY <1>1, <1>2 DEF RecordNext
<1>5. F \in Ops /\ D \in Ops
  BY <1>1, <1>2 DEF Fill, Drain
<1>6. A.do = "wait" /\ B.do = "wait"
  BY DEF Wait
<1>7. Filling' = Filling \o <<A, F, R>> /\ Draining' = Draining \o <<B, D, E>>
  BY DEF Issues
<1> HIDE DEF A, B, F, D, R, E
<1>8. /\ Filling' \in Seq(Ops) /\ Len(Filling') = Len(Filling) + 3
      /\ \A x \in 1 .. Len(Filling) : Filling'[x] = Filling[x]
      /\ Filling'[Len(Filling) + 1] = A /\ Filling'[Len(Filling) + 2] = F
      /\ Filling'[Len(Filling) + 3] = R
  BY <1>3, <1>4, <1>5, <1>7, TripleFacts
<1>9. /\ Draining' \in Seq(Ops) /\ Len(Draining') = Len(Draining) + 3
      /\ \A x \in 1 .. Len(Draining) : Draining'[x] = Draining[x]
      /\ Draining'[Len(Draining) + 1] = B /\ Draining'[Len(Draining) + 2] = D
      /\ Draining'[Len(Draining) + 3] = E
  BY <1>3, <1>4, <1>5, <1>7, TripleFacts
<1> QED BY <1>6, <1>8, <1>9 DEF F, D, R, E

\* A drain at the head of its queue has waited for the fill of its chunk.
LEMMA HeadDrain ==
  ASSUME TypeInv, StreamInv, PairInv, Draining # <<>>, Draining[1].do = Drain,
         NEW y \in 1 .. Len(Filling), Filling[y].do = Fill
  PROVE  ~Same(Draining[1], Filling[y])
<1> DEFINE p == Filling
           q == Draining
<1>1. SUFFICES ASSUME Same(q[1], p[y]) PROVE FALSE
  OBVIOUS
<1>2. p \in Seq(Ops) /\ q \in Seq(Ops)
  BY QueueType
<1>3. Len(q) \in Nat /\ Len(q) > 0 /\ 1 \in 1 .. Len(q) /\ Len(p) \in Nat
  BY <1>2, TailFacts
<1>4. /\ Shaped(p, Fill, "free", "ready", 1) /\ Passed(q, Drain, "ready", 0, fired)
      /\ Numbered(p, "ready", "begin", fired, issued) /\ Moves(q, Drain, call.no, Started)
      /\ Moves(p, Fill, call.no, Started) /\ Converse(p, Fill, q, Drain)
      /\ Shaped(q, Drain, "ready", "free", 0)
  BY DEF StreamInv, PairInv
<1>5. Fill \in {"gather", "to_cpu", "to_device", "scatter"}
      /\ Drain \in {"gather", "to_cpu", "to_device", "scatter"} /\ fired \in [Events -> Nat]
  BY DEF TypeInv, Fill, Drain
<1> HIDE DEF p, q
<1>6. p[y].do = Fill /\ q[1].do = Drain /\ y \in 1 .. Len(p)
  BY DEF p, q
<1>7. PICK x \in 1 .. Len(q) : q[x].do = Drain /\ Same(q[x], p[y]) /\ q[x + 1].t = p[y + 1].t
  BY <1>4, <1>6 DEF Converse
<1>8. Same(q[x], q[1])
  BY <1>1, <1>7 DEF Same
<1>9. x = 1
  BY <1>3, <1>4, <1>6, <1>7, <1>8 DEF Moves
<1>10. fired[<<"ready", q[1].slot>>] + 0 >= q[2].t
  BY <1>3, <1>4, <1>6 DEF Passed
<1>11. y + 1 \in 1 .. Len(p) /\ p[y + 1].do = "record" /\ p[y + 1].on = <<"ready", p[y].slot>>
  BY <1>3, <1>4, <1>6 DEF Shaped
<1>12. p[y].slot = q[1].slot
  BY <1>1, <1>3, <1>4, <1>6 DEF Moves, Same
<1>13. fired[p[y + 1].on] < p[y + 1].t
  BY <1>4, <1>11 DEF Numbered
<1>14. p[y + 1].on \in Events /\ p[y + 1].t \in Nat
  BY <1>2, <1>11, OpFacts
<1> QED BY <1>5, <1>7, <1>9, <1>10, <1>11, <1>12, <1>13, <1>14

\* A record at the end of a queue.
LEMMA RecordFacts ==
  ASSUME TypeInv, NEW q \in Seq(Ops), NEW e \in {begin, end}
  PROVE  /\ q \o <<RecordNext(e)>> \in Seq(Ops)
         /\ Len(q) \in Nat /\ Len(q \o <<RecordNext(e)>>) = Len(q) + 1
         /\ \A x \in 1 .. Len(q) : (q \o <<RecordNext(e)>>)[x] = q[x]
         /\ \A x \in (Len(q) + 1) .. (Len(q) + 1) : (q \o <<RecordNext(e)>>)[x].do = "record"
<1> DEFINE c == RecordNext(e)
<1>1. /\ i \in Nat /\ issued \in [Events -> Nat] /\ call.no \in Nat
  BY DEF TypeInv
<1>2. begin \in Events /\ end \in Events /\ \A z \in Events, t \in Nat : Record(z, t) \in Ops
  BY <1>1, SlotType
<1>3. c \in Ops /\ c.do = "record"
  BY <1>1, <1>2 DEF RecordNext, Record
<1> HIDE DEF c
<1>4. /\ q \o <<c>> \in Seq(Ops) /\ Len(q) \in Nat /\ Len(q \o <<c>>) = Len(q) + 1
      /\ \A x \in 1 .. Len(q) : (q \o <<c>>)[x] = q[x]
      /\ (q \o <<c>>)[Len(q) + 1] = c
  BY <1>3, MoreFacts
<1>5. \A x \in (Len(q) + 1) .. (Len(q) + 1) : x = Len(q) + 1
  BY <1>4
<1> QED BY <1>3, <1>4, <1>5 DEF c

\* Every step keeps PairInv.
LEMMA PairStep ==
  ASSUME TypeInv, StreamInv, PairInv, [Next]_vars
  PROVE  PairInv'
<1> DEFINE p == Filling
           q == Draining
           T == {"gather", "to_cpu", "to_device", "scatter"}
<1>1. /\ p \in Seq(Ops) /\ q \in Seq(Ops) /\ dir \in {"to_host", "from_host"}
      /\ fired \in [Events -> Nat] /\ issued \in [Events -> Nat]
      /\ call.no \in Nat /\ i \in Nat /\ Started \in Nat
  BY QueueType DEF TypeInv, Started
<1>2. Fill \in T /\ Drain \in T
  BY <1>1 DEF Fill, Drain
<1>3. /\ Shaped(p, Fill, "free", "ready", 1) /\ Shaped(q, Drain, "ready", "free", 0)
      /\ Numbered(p, "ready", "begin", fired, issued)
      /\ Numbered(q, "free", "end", fired, issued)
      /\ \A e \in Events : fired[e] <= issued[e]
  BY DEF StreamInv
<1>4. /\ Moves(p, Fill, call.no, Started) /\ Moves(q, Drain, call.no, Started)
      /\ Converse(p, Fill, q, Drain) /\ Link(p, Fill, q, Drain, fired)
  BY DEF PairInv
<1>5. ASSUME dir' = dir,
             Moves(p', Fill, call'.no, Started'), Moves(q', Drain, call'.no, Started'),
             Converse(p', Fill, q', Drain), Link(p', Fill, q', Drain, fired')
      PROVE  PairInv'
  <2>1. Fill' = Fill /\ Drain' = Drain
    BY <1>5 DEF Fill, Drain
  <2> QED BY <1>5, <2>1 DEF PairInv
<1>6. CASE UNCHANGED <<dir, streams, fired>>
  <2>1. p' = p /\ q' = q /\ dir' = dir /\ fired' = fired
    BY <1>6 DEF Filling, Draining, First, Second
  <2>2. CASE call' = call /\ Started' = Started
    BY <1>4, <1>5, <2>1, <2>2
  <2>3. CASE call'.no = call.no + 1 /\ Started' = 0
    <3>1. Moves(p, Fill, call.no + 1, 0) /\ Moves(q, Drain, call.no + 1, 0)
      BY <1>1, <1>2, <1>4, MovesLater
    <3> QED BY <1>4, <1>5, <2>1, <2>3, <3>1
  <2>4. CASE Enter
    <3>1. call'.no = call.no + 1 /\ pc' = "begin" /\ i' = 0
      BY <2>4 DEF Enter
    <3>2. Started' = 0
      BY <3>1 DEF Started
    <3> QED BY <2>3, <3>1, <3>2
  <2>5. CASE ToHostExtract
    <3>1. pc = "extract" /\ pc' = "chunk" /\ i' = i + 1 /\ call' = call
      BY <2>5 DEF ToHostExtract
    <3>2. Started' = Started
      BY <3>1 DEF Started
    <3> QED BY <2>2, <3>1, <3>2
  <2>6. CASE Returns
    <3>1. pc # "extract" /\ pc' # "extract" /\ i' = i /\ call' = call
      BY <2>6 DEF Returns
    <3>2. Started' = Started
      BY <3>1 DEF Started
    <3> QED BY <2>2, <3>1, <3>2
  <2>7. CASE UNCHANGED hostVars
    <3>1. Started' = Started /\ call' = call
      BY <2>7 DEF Started, hostVars
    <3> QED BY <2>2, <3>1
  <2>8. UNCHANGED vars => UNCHANGED hostVars
    BY DEF vars
  <2>9. CASE DeviceStep
    <3>1. UNCHANGED hostVars
      BY <2>9 DEF DeviceStep, Waits, Records, Fills, Drains, RunForward
    <3> QED BY <2>7, <3>1
  <2>10. CASE Begins \/ Ends
    <3>1. call' = call /\ pc # "extract" /\ pc' # "extract" /\ i' = i
      BY <2>10 DEF Begins, Ends
    <3>2. Started' = Started
      BY <3>1 DEF Started
    <3> QED BY <2>2, <3>1, <3>2
  <2>11. ASSUME NEW skip \in Nat, Issues(skip) PROVE FALSE
    <3>0. Len(Filling') = Len(Filling) + 3
      BY <2>11, IssueFacts
    <3>1. Len(p') = Len(p) + 3 /\ Len(p) \in Nat
      BY <1>1, <3>0
    <3> QED BY <2>1, <3>1
  <2>12. ~IssuesToHost /\ ~IssuesFromHost
    <3>1. Skip \in Nat
      BY DEF Skip, TypeInv
    <3> QED BY <2>11, <3>1 DEF IssuesToHost, IssuesFromHost
  <2> QED BY <2>4, <2>5, <2>6, <2>7, <2>8, <2>9, <2>10, <2>12, NextSteps DEF Step
<1>7. ASSUME p # <<>>, p' = Tail(p), q' = q, UNCHANGED <<dir, hostVars>>,
             fired' \in [Events -> Nat], \A e \in Events : fired[e] <= fired'[e],
             p[1].do = "record" => fired'[p[1].on] = p[1].t
      PROVE  PairInv'
  <2>1. Started' = Started /\ call' = call
    BY <1>7 DEF Started, hostVars
  <2>2. Moves(Tail(p), Fill, call.no, Started)
    BY <1>1, <1>4, <1>7, MovesTail
  <2>3. Converse(Tail(p), Fill, q, Drain)
    BY <1>1, <1>3, <1>4, <1>7, ConverseFirst
  <2>4. Link(Tail(p), Fill, q, Drain, fired')
    <3> HIDE DEF p, q
    <3> DEFINE g == fired'
    <3> HIDE DEF g
    <3>1. g \in [Events -> Nat] /\ \A e \in Events : fired[e] <= g[e]
      BY <1>7 DEF g
    <3>2. p[1].do = "record" => g[p[1].on] = p[1].t
      BY <1>7 DEF g
    <3>3. Link(Tail(p), Fill, q, Drain, g)
      BY <1>1, <1>2, <1>3, <1>4, <1>7, <3>1, <3>2, LinkFirst
    <3> QED BY <3>3 DEF g
  <2> HIDE DEF p, q
  <2> QED BY <1>4, <1>5, <1>7, <2>1, <2>2, <2>3, <2>4
<1>8. ASSUME q # <<>>, q' = Tail(q), p' = p, UNCHANGED <<dir, hostVars>>,
             fired' \in [Events -> Nat], \A e \in Events : fired[e] <= fired'[e]
      PROVE  PairInv'
  <2>1. Started' = Started /\ call' = call
    BY <1>8 DEF Started, hostVars
  <2>2. Moves(Tail(q), Drain, call.no, Started)
    BY <1>1, <1>4, <1>8, MovesTail
  <2>3. \A y \in 1 .. Len(p) : p[y].do = Fill =>
          ~(q[1].do = Drain /\ Same(q[1], p[y]) /\ q[2].t = p[y + 1].t)
    BY <1>8, HeadDrain
  <2> HIDE DEF p, q
  <2>4. Converse(p, Fill, Tail(q), Drain)
    BY <1>1, <1>3, <1>4, <1>8, <2>3, ConverseSecond
  <2>5. Link(p, Fill, Tail(q), Drain, fired) /\ Tail(q) \in Seq(Ops)
    BY <1>1, <1>3, <1>4, <1>8, LinkSecond, TailFacts
  <2>6. Shaped(Tail(q), Drain, "ready", "free", 0)
    BY <1>1, <1>3, <1>8, ShapedTail
  <2>7. Link(p, Fill, Tail(q), Drain, fired')
    <3> DEFINE g == fired'
               w == Tail(q)
    <3> HIDE DEF g, w
    <3>1. g \in [Events -> Nat] /\ \A e \in Events : fired[e] <= g[e]
      BY <1>8 DEF g
    <3>2. w \in Seq(Ops) /\ Link(p, Fill, w, Drain, fired) /\ Shaped(w, Drain, "ready", "free", 0)
      BY <2>5, <2>6 DEF w
    <3>3. Link(p, Fill, w, Drain, g)
      BY <1>1, <1>2, <3>1, <3>2, LinkFires
    <3> QED BY <3>3 DEF g, w
  <2> QED BY <1>4, <1>5, <1>8, <2>1, <2>2, <2>4, <2>7
<1>9. \A e \in Events : fired[e] <= fired[e]
  BY <1>1
<1>10. CASE DeviceStep /\ ~UNCHANGED <<dir, streams, fired>>
  <2>1. CASE (PopsFirst("wait") /\ Waits(p)) \/ Fills
    <3>1. /\ p # <<>> /\ p' = Tail(p) /\ q' = q /\ fired' = fired /\ UNCHANGED <<dir, hostVars>>
          /\ p[1].do # "record"
      BY <1>2, <2>1 DEF PopsFirst, Waits, Fills
    <3> HIDE DEF p, q
    <3> QED BY <1>1, <1>7, <1>9, <3>1
  <2>2. CASE (PopsSecond("wait") /\ Waits(q)) \/ Drains
    <3>1. q # <<>> /\ q' = Tail(q) /\ p' = p /\ fired' = fired /\ UNCHANGED <<dir, hostVars>>
      BY <2>2 DEF PopsSecond, Waits, Drains
    <3> HIDE DEF p, q
    <3> QED BY <1>1, <1>8, <1>9, <3>1
  <2>3. CASE (PopsFirst("record") /\ Records(p))
    <3>1. /\ p # <<>> /\ p' = Tail(p) /\ q' = q /\ UNCHANGED <<dir, hostVars>>
          /\ p[1].do = "record" /\ fired' = [fired EXCEPT ![p[1].on] = p[1].t]
      BY <2>3 DEF PopsFirst, Records
    <3> HIDE DEF p, q
    <3>2. /\ p[1].on \in Events /\ fired' \in [Events -> Nat]
          /\ \A e \in Events : fired[e] <= fired'[e]
      <4> DEFINE g == [fired EXCEPT ![p[1].on] = p[1].t]
      <4>0. /\ p \in Seq(Ops) /\ p # <<>> /\ p[1].do = "record"
            /\ Numbered(p, "ready", "begin", fired, issued)
            /\ fired \in [Events -> Nat] /\ issued \in [Events -> Nat]
            /\ \A e \in Events : fired[e] <= issued[e]
        BY <1>1, <1>3, <3>1
      <4>1. /\ p[1].on \in Events /\ g \in [Events -> Nat]
            /\ \A e \in Events : fired[e] <= g[e] /\ g[e] <= issued[e]
        BY <4>0, FiresUp
      <4> QED BY <3>1, <4>1
    <3>3. fired'[p[1].on] = p[1].t
      BY <1>1, <3>1, <3>2
    <3> QED BY <1>7, <3>1, <3>2, <3>3
  <2>4. CASE (PopsSecond("record") /\ Records(q))
    <3>1. /\ q # <<>> /\ q' = Tail(q) /\ p' = p /\ UNCHANGED <<dir, hostVars>>
          /\ q[1].do = "record" /\ fired' = [fired EXCEPT ![q[1].on] = q[1].t]
      BY <2>4 DEF PopsSecond, Records
    <3> HIDE DEF p, q
    <3>2. /\ q[1].on \in Events /\ fired' \in [Events -> Nat]
          /\ \A e \in Events : fired[e] <= fired'[e]
      <4> DEFINE g == [fired EXCEPT ![q[1].on] = q[1].t]
      <4>0. /\ q \in Seq(Ops) /\ q # <<>> /\ q[1].do = "record"
            /\ Numbered(q, "free", "end", fired, issued)
            /\ fired \in [Events -> Nat] /\ issued \in [Events -> Nat]
            /\ \A e \in Events : fired[e] <= issued[e]
        BY <1>1, <1>3, <3>1
      <4>1. /\ q[1].on \in Events /\ g \in [Events -> Nat]
            /\ \A e \in Events : fired[e] <= g[e] /\ g[e] <= issued[e]
        BY <4>0, FiresUp
      <4> QED BY <3>1, <4>1
    <3> QED BY <1>8, <3>1, <3>2
  <2>5. ~(RunForward /\ UNCHANGED <<dir, hostVars>>)
    BY <1>10 DEF RunForward
  <2> QED BY <1>10, <2>1, <2>2, <2>3, <2>4, <2>5 DEF DeviceStep
<1>11. ASSUME p' \in Seq(Ops), q' \in Seq(Ops), dir' = dir, fired' = fired,
              call' = call, Started' \in Nat, Started <= Started',
              Len(p) <= Len(p'), \A x \in 1 .. Len(p) : p'[x] = p[x],
              Len(q) <= Len(q'), \A x \in 1 .. Len(q) : q'[x] = q[x],
              \A x \in (Len(p) + 1) .. Len(p') : p'[x].do = Fill =>
                /\ x = Len(p) + 2 /\ p'[x].slot = p'[x].chunk % 3 /\ p'[x].call = call.no
                /\ p'[x].chunk = Started /\ Started < Started',
              \A x \in (Len(q) + 1) .. Len(q') : q'[x].do = Drain =>
                /\ x = Len(q) + 2 /\ q'[x].slot = q'[x].chunk % 3 /\ q'[x].call = call.no
                /\ q'[x].chunk = Started /\ Started < Started',
              \A y \in (Len(p) + 1) .. Len(p') : p'[y].do = Fill =>
                \E x \in 1 .. Len(q') :
                  q'[x].do = Drain /\ Same(q'[x], p'[y]) /\ q'[x + 1].t = p'[y + 1].t,
              \A x \in (Len(q) + 1) .. Len(q') : q'[x].do = Drain =>
                \E y \in 1 .. Len(p') : p'[y].do = Fill /\ Same(p'[y], q'[x])
       PROVE  PairInv'
  <2> DEFINE u == p'
             v == q'
             k == Started'
             n == Started
  <2> HIDE DEF u, v, k, n, p, q
  <2>1. u \in Seq(Ops) /\ v \in Seq(Ops) /\ k \in Nat /\ n \in Nat /\ n <= k
    BY <1>1, <1>11 DEF u, v, k, n
  <2>2. /\ Len(p) <= Len(u) /\ (\A x \in 1 .. Len(p) : u[x] = p[x])
        /\ Len(q) <= Len(v) /\ (\A x \in 1 .. Len(q) : v[x] = q[x])
    BY <1>11 DEF u, v
  <2>3. \A x \in (Len(p) + 1) .. Len(u) : u[x].do = Fill =>
          /\ x = Len(p) + 2 /\ u[x].slot = u[x].chunk % 3 /\ u[x].call = call.no
          /\ u[x].chunk = n /\ n < k
    BY <1>11 DEF u, n, k
  <2>4. \A x \in (Len(q) + 1) .. Len(v) : v[x].do = Drain =>
          /\ x = Len(q) + 2 /\ v[x].slot = v[x].chunk % 3 /\ v[x].call = call.no
          /\ v[x].chunk = n /\ n < k
    BY <1>11 DEF v, n, k
  <2>5. \A y \in (Len(p) + 1) .. Len(u) : u[y].do = Fill =>
          \E x \in 1 .. Len(v) :
            v[x].do = Drain /\ Same(v[x], u[y]) /\ v[x + 1].t = u[y + 1].t
    BY <1>11 DEF u, v
  <2>6. \A x \in (Len(q) + 1) .. Len(v) : v[x].do = Drain =>
          \E y \in 1 .. Len(u) : u[y].do = Fill /\ Same(u[y], v[x])
    BY <1>11 DEF u, v
  <2>7. Moves(p, Fill, call.no, n) /\ Moves(q, Drain, call.no, n)
    BY <1>4 DEF n
  <2>8. Moves(u, Fill, call.no, k)
    BY <1>1, <1>2, <2>1, <2>2, <2>3, <2>7, MovesMore
  <2>9. Moves(v, Drain, call.no, k)
    BY <1>1, <1>2, <2>1, <2>2, <2>4, <2>7, MovesMore
  <2>10. Converse(u, Fill, v, Drain)
    BY <1>1, <1>3, <1>4, <2>1, <2>2, <2>5, ConverseMore
  <2>11. Link(u, Fill, v, Drain, fired)
    BY <1>1, <1>3, <1>4, <2>1, <2>2, <2>6, LinkMore
  <2> QED BY <1>5, <1>11, <2>8, <2>9, <2>10, <2>11 DEF u, v, k
<1>12. CASE Begins \/ Ends
  <2>1. /\ dir' = dir /\ fired' = fired /\ call' = call /\ i' = i
        /\ pc # "extract" /\ pc' # "extract"
    BY <1>12 DEF Begins, Ends
  <2>2. Started' = Started /\ Started <= Started
    BY <1>1, <2>1 DEF Started
  <2>3. Fill # "record" /\ Drain # "record"
    BY <1>2
  <2>4. Len(p) \in Nat /\ Len(q) \in Nat
    BY <1>1
  <2>5. (Len(p) + 1) .. Len(p) = {} /\ (Len(q) + 1) .. Len(q) = {}
    BY <2>4
  <2>6. CASE Begins
    <3> HIDE DEF p, q
    <3>1. p' = p \o <<RecordNext(begin)>> /\ q' = q
      BY <2>6 DEF Begins, p, q
    <3>2. /\ p' \in Seq(Ops) /\ Len(p') = Len(p) + 1 /\ \A x \in 1 .. Len(p) : p'[x] = p[x]
          /\ \A x \in (Len(p) + 1) .. Len(p') : p'[x].do = "record"
      <4> DEFINE w == p \o <<RecordNext(begin)>>
      <4>1. /\ w \in Seq(Ops) /\ Len(p) \in Nat /\ Len(w) = Len(p) + 1
            /\ \A x \in 1 .. Len(p) : w[x] = p[x]
            /\ \A x \in (Len(p) + 1) .. (Len(p) + 1) : w[x].do = "record"
        BY <1>1, RecordFacts
      <4> HIDE DEF w
      <4>2. p' = w
        BY <3>1 DEF w
      <4> QED BY <4>1, <4>2
    <3>3. /\ Len(p) <= Len(p') /\ Len(q) <= Len(q')
          /\ q' \in Seq(Ops) /\ \A x \in 1 .. Len(q) : q'[x] = q[x]
      BY <1>1, <2>4, <3>1, <3>2
    <3>4. \A x \in (Len(p) + 1) .. Len(p') : p'[x].do # Fill
      BY <2>3, <3>2
    <3>5. \A x \in (Len(q) + 1) .. Len(q') : q'[x].do # Drain
      BY <2>5, <3>1
    <3>6. Started' \in Nat /\ Started <= Started'
      BY <1>1, <2>2
    <3> QED BY <1>11, <2>1, <3>2, <3>3, <3>4, <3>5, <3>6
  <2>7. CASE Ends
    <3> HIDE DEF p, q
    <3>1. q' = q \o <<RecordNext(end)>> /\ p' = p
      BY <2>7 DEF Ends, p, q
    <3>2. /\ q' \in Seq(Ops) /\ Len(q') = Len(q) + 1 /\ \A x \in 1 .. Len(q) : q'[x] = q[x]
          /\ \A x \in (Len(q) + 1) .. Len(q') : q'[x].do = "record"
      <4> DEFINE w == q \o <<RecordNext(end)>>
      <4>1. /\ w \in Seq(Ops) /\ Len(q) \in Nat /\ Len(w) = Len(q) + 1
            /\ \A x \in 1 .. Len(q) : w[x] = q[x]
            /\ \A x \in (Len(q) + 1) .. (Len(q) + 1) : w[x].do = "record"
        BY <1>1, RecordFacts
      <4> HIDE DEF w
      <4>2. q' = w
        BY <3>1 DEF w
      <4> QED BY <4>1, <4>2
    <3>3. /\ Len(q) <= Len(q') /\ Len(p) <= Len(p')
          /\ p' \in Seq(Ops) /\ \A x \in 1 .. Len(p) : p'[x] = p[x]
      BY <1>1, <2>4, <3>1, <3>2
    <3>4. \A x \in (Len(q) + 1) .. Len(q') : q'[x].do # Drain
      BY <2>3, <3>2
    <3>5. \A x \in (Len(p) + 1) .. Len(p') : p'[x].do # Fill
      BY <2>5, <3>1
    <3>6. Started' \in Nat /\ Started <= Started'
      BY <1>1, <2>2
    <3> QED BY <1>11, <2>1, <3>2, <3>3, <3>4, <3>5, <3>6
  <2> QED BY <1>12, <2>6, <2>7
<1>13. CASE IssuesToHost \/ IssuesFromHost
  <2>1. PICK skip \in Nat : Issues(skip)
    <3>1. Skip \in Nat
      BY DEF Skip, TypeInv
    <3> QED BY <1>13, <3>1 DEF IssuesToHost, IssuesFromHost
  <2>2. dir' = dir /\ fired' = fired /\ call' = call /\ pc = "chunk"
    BY <2>1 DEF Issues
  <2>3. Started = i /\ Started' = i + 1
    BY <1>13, <2>2 DEF Started, IssuesToHost, IssuesFromHost
  <2> HIDE DEF p, q
  <2>4. /\ p' \in Seq(Ops) /\ q' \in Seq(Ops)
        /\ Len(p') = Len(p) + 3 /\ Len(q') = Len(q) + 3
        /\ \A x \in 1 .. Len(p) : p'[x] = p[x]
        /\ \A x \in 1 .. Len(q) : q'[x] = q[x]
        /\ p'[Len(p) + 1].do = "wait" /\ q'[Len(q) + 1].do = "wait"
        /\ p'[Len(p) + 2] = Move(Fill, Slot, call.no, i, 0)
        /\ q'[Len(q) + 2] = Move(Drain, Slot, call.no, i, skip)
        /\ p'[Len(p) + 3] = RecordNext(ready(Slot)) /\ q'[Len(q) + 3] = RecordNext(free(Slot))
    BY <2>1, IssueFacts DEF p, q
  <2>5. /\ p'[Len(p) + 2].do = Fill /\ p'[Len(p) + 2].slot = i % 3
        /\ p'[Len(p) + 2].call = call.no /\ p'[Len(p) + 2].chunk = i
    BY <2>4 DEF Move, Slot
  <2>6. /\ q'[Len(q) + 2].do = Drain /\ q'[Len(q) + 2].slot = i % 3
        /\ q'[Len(q) + 2].call = call.no /\ q'[Len(q) + 2].chunk = i
    BY <2>4 DEF Move, Slot
  <2>7. Slot \in Slots
    BY <1>1, SlotType
  <2>8. /\ p'[Len(p) + 3].do = "record" /\ q'[Len(q) + 3].do = "record"
        /\ p'[Len(p) + 3].t = q'[Len(q) + 3].t
    <3>1. issued[ready(Slot)] = issued[free(Slot)]
      BY <2>7 DEF StreamInv
    <3> QED BY <2>4, <3>1 DEF RecordNext, Record
  <2>9. Len(p) \in Nat /\ Len(q) \in Nat
    BY <1>1
  <2> DEFINE a == Len(p)
             b == Len(q)
             u == p'
             v == q'
  <2>10. a \in Nat /\ b \in Nat /\ Len(u) = a + 3 /\ Len(v) = b + 3
    BY <2>4, <2>9
  <2>11. /\ u[a + 1].do = "wait" /\ u[a + 3].do = "record" /\ u[a + 2].do = Fill
         /\ u[a + 2].slot = i % 3 /\ u[a + 2].call = call.no /\ u[a + 2].chunk = i
         /\ v[b + 1].do = "wait" /\ v[b + 3].do = "record" /\ v[b + 2].do = Drain
         /\ v[b + 2].slot = i % 3 /\ v[b + 2].call = call.no /\ v[b + 2].chunk = i
         /\ u[a + 3].t = v[b + 3].t
    BY <2>4, <2>5, <2>6, <2>8
  <2> HIDE DEF a, b, u, v
  <2>12. \A x \in (a + 1) .. Len(u) : u[x].do = Fill => x = a + 2
    <3>1. \A x \in (a + 1) .. Len(u) : x = a + 1 \/ x = a + 2 \/ x = a + 3
      BY <2>10
    <3> QED BY <1>2, <2>11, <3>1
  <2>13. \A x \in (b + 1) .. Len(v) : v[x].do = Drain => x = b + 2
    <3>1. \A x \in (b + 1) .. Len(v) : x = b + 1 \/ x = b + 2 \/ x = b + 3
      BY <2>10
    <3> QED BY <1>2, <2>11, <3>1
  <2>14. Same(v[b + 2], u[a + 2]) /\ Same(u[a + 2], v[b + 2])
    BY <2>11 DEF Same
  <2>15. a + 2 \in 1 .. Len(u) /\ b + 2 \in 1 .. Len(v) /\ (a + 2) + 1 = a + 3 /\ (b + 2) + 1 = b + 3
    BY <2>10
  <2>16. \A y \in (a + 1) .. Len(u) : u[y].do = Fill =>
           \E x \in 1 .. Len(v) :
             v[x].do = Drain /\ Same(v[x], u[y]) /\ v[x + 1].t = u[y + 1].t
    BY <2>11, <2>12, <2>14, <2>15
  <2>17. \A x \in (b + 1) .. Len(v) : v[x].do = Drain =>
           \E y \in 1 .. Len(u) : u[y].do = Fill /\ Same(u[y], v[x])
    BY <2>11, <2>13, <2>14, <2>15
  <2>18. /\ \A x \in (a + 1) .. Len(u) : u[x].do = Fill =>
              /\ x = a + 2 /\ u[x].slot = u[x].chunk % 3 /\ u[x].call = call.no /\ u[x].chunk = i
         /\ \A x \in (b + 1) .. Len(v) : v[x].do = Drain =>
              /\ x = b + 2 /\ v[x].slot = v[x].chunk % 3 /\ v[x].call = call.no /\ v[x].chunk = i
    BY <2>11, <2>12, <2>13
  <2>19. Len(p) <= Len(p') /\ Len(q) <= Len(q') /\ i + 1 \in Nat /\ i <= i + 1 /\ i < i + 1
    BY <1>1, <2>10 DEF a, b, u, v
  <2> QED BY <1>11, <2>2, <2>3, <2>4, <2>16, <2>17, <2>18, <2>19 DEF a, b, u, v
<1>14. CASE Enter \/ Returns \/ ToHostExtract \/ UNCHANGED vars
  <2>1. UNCHANGED <<dir, streams, fired>>
    BY <1>14 DEF Enter, Returns, ToHostExtract, vars, devVars
  <2> QED BY <1>6, <2>1
<1> QED BY <1>6, <1>10, <1>12, <1>13, <1>14, NextSteps DEF Step
-----------------------------------------------------------------------------

(***************************************************************************)
(* ToHostInv.                                                              *)
(***************************************************************************)

\* What a queue that has run its first operation is still to move.
LEMMA HasTail ==
  ASSUME NEW q, NEW what, NEW no, NEW k, q \in Seq(Ops), q # <<>>
  PROVE  /\ Has(Tail(q), what, no, k) => Has(q, what, no, k)
         /\ Has(q, what, no, k) /\ ~(q[1].do = what /\ q[1].call = no /\ q[1].chunk = k) =>
              Has(Tail(q), what, no, k)
<1> DEFINE p == Tail(q)
<1>1. /\ Len(q) \in Nat /\ Len(p) = Len(q) - 1
      /\ \A x \in 1 .. Len(p) : x + 1 \in 1 .. Len(q) /\ p[x] = q[x + 1]
  BY TailFacts
<1> HIDE DEF p
<1>2. Has(p, what, no, k) => Has(q, what, no, k)
  BY <1>1 DEF Has
<1>3. ASSUME NEW x \in 1 .. Len(q), q[x].do = what, q[x].call = no, q[x].chunk = k, x # 1
      PROVE  Has(p, what, no, k)
  <2> DEFINE z == x - 1
  <2>1. z \in 1 .. Len(p) /\ z + 1 = x
    BY <1>1, <1>3
  <2> HIDE DEF z
  <2>2. p[z] = q[x]
    BY <1>1, <2>1
  <2> QED BY <1>3, <2>1, <2>2 DEF Has
<1>4. Has(q, what, no, k) /\ ~(q[1].do = what /\ q[1].call = no /\ q[1].chunk = k) =>
        Has(p, what, no, k)
  BY <1>3 DEF Has
<1> QED BY <1>2, <1>4 DEF p

\* It moves a chunk once.
LEMMA HasOnce ==
  ASSUME NEW q, NEW what, NEW no, NEW n, NEW k,
         q \in Seq(Ops), q # <<>>, Moves(q, what, no, n),
         q[1].do = what, q[1].call = no, q[1].chunk = k
  PROVE  Has(q, what, no, k) /\ ~Has(Tail(q), what, no, k)
<1> DEFINE p == Tail(q)
<1>1. /\ Len(q) \in Nat /\ Len(p) = Len(q) - 1 /\ 1 \in 1 .. Len(q)
      /\ \A x \in 1 .. Len(p) : x + 1 \in 1 .. Len(q) /\ p[x] = q[x + 1]
  BY TailFacts
<1> HIDE DEF p
<1>2. ASSUME NEW x \in 1 .. Len(p), p[x].do = what, p[x].call = no, p[x].chunk = k PROVE FALSE
  <2>1. x + 1 \in 1 .. Len(q) /\ q[x + 1].do = what /\ Same(q[x + 1], q[1])
    BY <1>1, <1>2 DEF Same
  <2>2. x + 1 = 1
    BY <1>1, <2>1 DEF Moves
  <2> QED BY <2>2
<1>3. Has(q, what, no, k)
  BY <1>1 DEF Has
<1> QED BY <1>2, <1>3 DEF Has, p

\* What a queue that got operations is to move.
LEMMA HasMore ==
  ASSUME NEW q, NEW p, NEW what, NEW no, NEW k,
         q \in Seq(Ops), p \in Seq(Ops), Len(q) <= Len(p), \A x \in 1 .. Len(q) : p[x] = q[x]
  PROVE  /\ Has(q, what, no, k) => Has(p, what, no, k)
         /\ Has(p, what, no, k) =>
              \/ Has(q, what, no, k)
              \/ \E x \in (Len(q) + 1) .. Len(p) :
                   p[x].do = what /\ p[x].call = no /\ p[x].chunk = k
<1>1. Len(q) \in Nat /\ Len(p) \in Nat
  OBVIOUS
<1>2. \A x \in 1 .. Len(q) : x \in 1 .. Len(p)
  BY <1>1
<1>3. \A x \in 1 .. Len(p) : x \in 1 .. Len(q) \/ x \in (Len(q) + 1) .. Len(p)
  BY <1>1
<1> QED BY <1>2, <1>3 DEF Has

\* A chunk to be filled is to be drained.
LEMMA FilledIsDrained ==
  ASSUME PairInv, NEW k, ToFill(k)
  PROVE  ToDrain(k)
<1>1. PICK y \in 1 .. Len(Filling) :
        Filling[y].do = Fill /\ Filling[y].call = call.no /\ Filling[y].chunk = k
  BY DEF ToFill, Has
<1>2. PICK x \in 1 .. Len(Draining) : Draining[x].do = Drain /\ Same(Draining[x], Filling[y])
  BY <1>1 DEF PairInv, Converse
<1> QED BY <1>1, <1>2 DEF ToDrain, Has, Same

\* A slot whose event free was awaited has nothing to be drained.
LEMMA DrainedSlot ==
  ASSUME TypeInv, StreamInv, PairInv, Synchronized(free(Slot)),
         NEW k, k % 3 = Slot
  PROVE  ~ToDrain(k)
<1> DEFINE q == Draining
<1>1. SUFFICES ASSUME NEW x \in 1 .. Len(q), q[x].do = Drain, q[x].chunk = k PROVE FALSE
  BY DEF ToDrain, Has
<1>2. /\ q \in Seq(Ops) /\ Shaped(q, Drain, "ready", "free", 0) /\ Moves(q, Drain, call.no, Started)
      /\ Numbered(q, "free", "end", fired, issued)
  BY QueueType DEF StreamInv, PairInv
<1>3. /\ i \in Nat /\ issued \in [Events -> Nat] /\ fired \in [Events -> Nat]
      /\ fired[free(Slot)] >= issued[free(Slot)]
  BY DEF TypeInv, Synchronized
<1> HIDE DEF q
<1>4. q[x].slot = Slot
  BY <1>1, <1>2 DEF Moves
<1>5. x + 1 <= Len(q) /\ q[x + 1].do = "record" /\ q[x + 1].on = <<"free", q[x].slot>>
  BY <1>1, <1>2 DEF Shaped
<1>6. x + 1 \in 1 .. Len(q)
  BY <1>1, <1>2, <1>5
<1>7. q[x + 1].on = free(Slot)
  BY <1>4, <1>5 DEF free
<1>8. fired[free(Slot)] < q[x + 1].t /\ q[x + 1].t <= issued[free(Slot)]
  BY <1>2, <1>5, <1>6, <1>7 DEF Numbered
<1>9. q[x + 1].t \in Nat /\ free(Slot) \in Events
  BY <1>2, <1>5, <1>6, <1>7, OpFacts
<1> QED BY <1>3, <1>8, <1>9

\* The blocks of a chunk of the call are in the KV cache.
LEMMA ChunkBlocks ==
  ASSUME TypeInv, HostInv, call.no > 0, NEW k \in Nat, k < call.n, NEW b \in Blocks
  PROVE  <<call.no, k, b>> \in DOMAIN kv
<1>1. call.no \in Calls /\ call.n \in CallSizes /\ DOMAIN kv = Calls \X Chunks \X Blocks
  BY DEF TypeInv
<1>2. call.n \in Nat
  BY DEF TypeInv
<1>3. k \in 0 .. (call.n - 1)
  BY <1>2
<1>4. k \in Chunks
  BY <1>1, <1>3 DEF Chunks
<1> QED BY <1>1, <1>4

\* A call that has not enqueued a chunk's operations, or has awaited them,
\* has none of them in a queue.
Quiet == /\ \A x \in 1 .. Len(Filling) : Filling[x].do # Fill
         /\ \A x \in 1 .. Len(Draining) : Draining[x].do # Drain

\* to_host goes on with a chunk when the last one is out.
LEMMA ToHostAppends ==
  ASSUME NEW n, NEW f, NEW v, NEW c, n \in Nat, c = [k \in 1 .. n |-> f[k]], v = f[n + 1]
  PROVE  Append(c, v) = [k \in 1 .. (n + 1) |-> f[k]]
<1> DEFINE S == {f[k] : k \in 1 .. (n + 1)}
<1>1. \A k \in 1 .. n : f[k] \in S
  OBVIOUS
<1>2. c \in [1 .. n -> S]
  BY <1>1
<1>3. v \in S
  OBVIOUS
<1> HIDE DEF S
<1>4. c \in Seq(S) /\ Len(c) = n
  BY <1>2
<1>5. /\ Append(c, v) \in Seq(S) /\ Len(Append(c, v)) = n + 1
      /\ \A k \in 1 .. n : Append(c, v)[k] = c[k]
      /\ Append(c, v)[n + 1] = v
  BY <1>3, <1>4
<1>6. DOMAIN Append(c, v) = 1 .. (n + 1) /\ Append(c, v) = [k \in DOMAIN Append(c, v) |-> Append(c, v)[k]]
  BY <1>5
<1>7. \A k \in 1 .. (n + 1) : k \in 1 .. n \/ k = n + 1
  OBVIOUS
<1>8. \A k \in 1 .. (n + 1) : Append(c, v)[k] = f[k]
  BY <1>5, <1>7
<1> QED BY <1>6, <1>8

\* Every step keeps ToHostInv.
LEMMA ToHostStep ==
  ASSUME TypeInv, StreamInv, PairInv, HostInv, ToHostInv, [Next]_vars
  PROVE  ToHostInv'
<1> DEFINE p == Filling
           q == Draining
           T == {"gather", "to_cpu", "to_device", "scatter"}
<1>1. dir' = dir
  BY DEF Next, Host, Enter, Begin, ToHostChunk, ToHostExtract, FromHostChunk, FromHostRaise, End,
         Return, Leave, Device, vars
<1>2. SUFFICES ASSUME dir = "to_host" PROVE ToHostInv'
  BY <1>1 DEF ToHostInv
<1>3. /\ p \in Seq(Ops) /\ q \in Seq(Ops) /\ i \in Nat /\ call.no \in Nat /\ call.n \in Nat
      /\ Fill \in T /\ Drain \in T /\ Fill' = Fill /\ Drain' = Drain
      /\ issued \in [Events -> Nat] /\ fired \in [Events -> Nat] /\ forward \in BOOLEAN
  BY <1>1, <1>2, QueueType DEF TypeInv, Fill, Drain
<1>4. /\ \A x \in DOMAIN kv : x[1] = call.no /\ ~forward => kv[x] = x
      /\ chunks = [k \in 1 .. i |-> Right(call.no, k - 1)]
      /\ \A x \in 1 .. Len(p) : p[x].do = Fill =>
           pc = "extract" /\ p[x].call = call.no /\ p[x].chunk = i
      /\ \A x \in 1 .. Len(q) : q[x].do = Drain =>
           pc = "extract" /\ q[x].call = call.no /\ q[x].chunk = i
      /\ pc = "extract" =>
           IF ToDrain(i) THEN ToFill(i) \/ staging[i % 3] = Right(call.no, i)
           ELSE cpu_bufs[i % 3] = Right(call.no, i)
  BY <1>2 DEF ToHostInv
<1>5. ASSUME \A x \in DOMAIN kv' : x[1] = call'.no /\ ~forward' => kv'[x] = x,
             chunks' = [k \in 1 .. i' |-> Right(call'.no, k - 1)],
             \A x \in 1 .. Len(p') : p'[x].do = Fill =>
               pc' = "extract" /\ p'[x].call = call'.no /\ p'[x].chunk = i',
             \A x \in 1 .. Len(q') : q'[x].do = Drain =>
               pc' = "extract" /\ q'[x].call = call'.no /\ q'[x].chunk = i',
             pc' = "extract" =>
               IF Has(q', Drain, call'.no, i')
               THEN Has(p', Fill, call'.no, i') \/ staging'[i' % 3] = Right(call'.no, i')
               ELSE cpu_bufs'[i' % 3] = Right(call'.no, i')
      PROVE  ToHostInv'
  BY <1>1, <1>3, <1>5 DEF ToHostInv, ToFill, ToDrain, Right, Blocks
<1>6. pc # "extract" => Quiet
  BY <1>4 DEF Quiet
\* Nothing moves before or after: the queues have no moves.
<1>7. ASSUME Quiet', pc' # "extract",
             \A x \in DOMAIN kv' : x[1] = call'.no /\ ~forward' => kv'[x] = x,
             chunks' = [k \in 1 .. i' |-> Right(call'.no, k - 1)]
      PROVE  ToHostInv'
  BY <1>3, <1>5, <1>7 DEF Quiet
<1>8. CASE UNCHANGED vars
  <2>1. p' = p /\ q' = q
    BY <1>8 DEF vars, devVars, Filling, Draining, First, Second
  <2> QED BY <1>4, <1>5, <1>8, <2>1 DEF vars, devVars, hostVars, ToFill, ToDrain
<1>9. CASE Enter
  <2>1. pc = "idle" /\ pc' = "begin" /\ i' = 0 /\ chunks' = <<>> /\ forward' /\ streams' = streams
    BY <1>2, <1>9 DEF Enter
  <2>2. p' = p /\ q' = q
    BY <1>1, <2>1 DEF Filling, Draining, First, Second
  <2>3. Quiet'
    BY <1>3, <1>6, <2>1, <2>2 DEF Quiet
  <2>4. chunks' = [k \in 1 .. i' |-> Right(call'.no, k - 1)]
    BY <2>1
  <2> QED BY <1>7, <2>1, <2>3, <2>4
<1>10. CASE Begins \/ Ends
  <2>1. /\ pc # "extract" /\ pc' # "extract" /\ call' = call /\ i' = i /\ chunks' = chunks
        /\ kv' = kv /\ forward' = forward
    BY <1>10 DEF Begins, Ends
  <2>2. Fill # "record" /\ Drain # "record" /\ Quiet
    BY <1>3, <1>6, <2>1
  <2>3. CASE Begins
    <3>1. p' = p \o <<RecordNext(begin)>> /\ q' = q
      BY <2>3 DEF Begins
    <3>2. /\ Len(p) \in Nat /\ Len(p') = Len(p) + 1 /\ \A x \in 1 .. Len(p) : p'[x] = p[x]
          /\ \A x \in (Len(p) + 1) .. (Len(p) + 1) : p'[x].do = "record"
      BY <1>3, <3>1, RecordFacts
    <3>3. \A x \in 1 .. Len(p') : x \in 1 .. Len(p) \/ x \in (Len(p) + 1) .. (Len(p) + 1)
      BY <3>2
    <3>4. Quiet'
      BY <1>3, <2>2, <3>1, <3>2, <3>3 DEF Quiet
    <3> QED BY <1>4, <1>7, <2>1, <3>4
  <2>4. CASE Ends
    <3>1. q' = q \o <<RecordNext(end)>> /\ p' = p
      BY <2>4 DEF Ends
    <3>2. /\ Len(q) \in Nat /\ Len(q') = Len(q) + 1 /\ \A x \in 1 .. Len(q) : q'[x] = q[x]
          /\ \A x \in (Len(q) + 1) .. (Len(q) + 1) : q'[x].do = "record"
      BY <1>3, <3>1, RecordFacts
    <3>3. \A x \in 1 .. Len(q') : x \in 1 .. Len(q) \/ x \in (Len(q) + 1) .. (Len(q) + 1)
      BY <3>2
    <3>4. Quiet'
      BY <1>3, <2>2, <3>1, <3>2, <3>3 DEF Quiet
    <3> QED BY <1>4, <1>7, <2>1, <3>4
  <2> QED BY <1>10, <2>3, <2>4
<1>11. CASE Returns
  <2>1. /\ pc # "extract" /\ pc' # "extract" /\ call' = call /\ i' = i /\ chunks' = chunks
        /\ kv' = kv /\ forward' = forward /\ streams' = streams
    BY <1>11 DEF Returns, devVars
  <2>2. p' = p /\ q' = q
    BY <1>1, <2>1 DEF Filling, Draining, First, Second
  <2>3. Quiet'
    BY <1>3, <1>6, <2>1, <2>2 DEF Quiet
  <2> QED BY <1>4, <1>7, <2>1, <2>3
<1>12. CASE ToHostExtract
  <2>1. /\ pc = "extract" /\ pc' = "chunk" /\ call' = call /\ i' = i + 1 /\ UNCHANGED devVars
        /\ Synchronized(free(Slot)) /\ chunks' = Append(chunks, cpu_bufs[Slot])
    BY <1>12 DEF ToHostExtract
  <2>2. p' = p /\ q' = q /\ kv' = kv /\ forward' = forward
    BY <1>1, <2>1 DEF Filling, Draining, First, Second, devVars
  <2>3. ~ToDrain(i)
    BY <2>1, DrainedSlot DEF Slot
  <2>4. \A x \in 1 .. Len(q) : q[x].do # Drain
    BY <1>4, <2>3 DEF ToDrain, Has
  <2>5. ~ToFill(i)
    BY <2>3, FilledIsDrained
  <2>6. \A x \in 1 .. Len(p) : p[x].do # Fill
    BY <1>4, <2>5 DEF ToFill, Has
  <2>7. Quiet'
    BY <1>3, <2>2, <2>4, <2>6 DEF Quiet
  <2>8. cpu_bufs[Slot] = Right(call.no, i)
    BY <1>4, <2>1, <2>3 DEF Slot
  <2>9. Append(chunks, cpu_bufs[Slot]) = [k \in 1 .. (i + 1) |-> Right(call.no, k - 1)]
    <3> DEFINE f == [k \in 1 .. (i + 1) |-> Right(call.no, k - 1)]
    <3>1. \A k \in 1 .. i : k \in 1 .. (i + 1)
      BY <1>3
    <3>2. chunks = [k \in 1 .. i |-> f[k]]
      BY <1>4, <3>1
    <3>3. i + 1 \in 1 .. (i + 1) /\ (i + 1) - 1 = i
      BY <1>3
    <3>4. f[i + 1] = Right(call.no, i)
      BY <3>3
    <3>5. f = [k \in 1 .. (i + 1) |-> f[k]]
      OBVIOUS
    <3> HIDE DEF f
    <3>6. Append(chunks, cpu_bufs[Slot]) = [k \in 1 .. (i + 1) |-> f[k]]
      BY <1>3, <2>8, <3>2, <3>4, ToHostAppends
    <3> QED BY <3>5, <3>6 DEF f
  <2> QED BY <1>4, <1>7, <2>1, <2>2, <2>7, <2>9
<1>13. CASE IssuesToHost
  <2>1. /\ Issues(0) /\ pc = "chunk" /\ pc' = "extract" /\ i' = i /\ call' = call /\ kv' = kv
        /\ forward' = forward /\ chunks' = chunks
    BY <1>13 DEF IssuesToHost, Issues
  <2>2. Quiet
    BY <1>6, <2>1
  <2>3. /\ Len(p') = Len(p) + 3 /\ Len(q') = Len(q) + 3
        /\ \A x \in 1 .. Len(p) : p'[x] = p[x]
        /\ \A x \in 1 .. Len(q) : q'[x] = q[x]
        /\ p'[Len(p) + 1].do = "wait" /\ q'[Len(q) + 1].do = "wait"
        /\ p'[Len(p) + 2] = Move(Fill, Slot, call.no, i, 0)
        /\ q'[Len(q) + 2] = Move(Drain, Slot, call.no, i, 0)
        /\ p'[Len(p) + 3] = RecordNext(ready(Slot)) /\ q'[Len(q) + 3] = RecordNext(free(Slot))
    BY <2>1, IssueFacts
  <2> DEFINE a == Len(p)
             b == Len(q)
             u == p'
             v == q'
  <2>4. /\ u[a + 1].do = "wait" /\ u[a + 3].do = "record" /\ u[a + 2].do = Fill
        /\ u[a + 2].call = call.no /\ u[a + 2].chunk = i
        /\ v[b + 1].do = "wait" /\ v[b + 3].do = "record" /\ v[b + 2].do = Drain
        /\ v[b + 2].call = call.no /\ v[b + 2].chunk = i
    BY <2>3 DEF Move, RecordNext, Record
  <2>5. a \in Nat /\ b \in Nat /\ Len(u) = a + 3 /\ Len(v) = b + 3
    BY <1>3, <2>3
  <2>6. /\ \A x \in 1 .. a : u[x] = p[x] /\ u[x].do # Fill
        /\ \A x \in 1 .. b : v[x] = q[x] /\ v[x].do # Drain
    BY <2>2, <2>3 DEF Quiet
  <2> HIDE DEF a, b, u, v
  <2>7. /\ \A x \in 1 .. Len(u) : x \in 1 .. a \/ x = a + 1 \/ x = a + 2 \/ x = a + 3
        /\ \A x \in 1 .. Len(v) : x \in 1 .. b \/ x = b + 1 \/ x = b + 2 \/ x = b + 3
        /\ a + 2 \in 1 .. Len(u)
    BY <2>5
  <2>8. \A x \in 1 .. Len(u) : u[x].do = Fill => u[x].call = call.no /\ u[x].chunk = i
    BY <1>3, <2>4, <2>6, <2>7
  <2>9. \A x \in 1 .. Len(v) : v[x].do = Drain => v[x].call = call.no /\ v[x].chunk = i
    BY <1>3, <2>4, <2>6, <2>7
  <2>10. Has(u, Fill, call.no, i)
    BY <2>4, <2>7 DEF Has
  <2>11. b + 2 \in 1 .. Len(v)
    BY <2>5
  <2>12. Has(v, Drain, call.no, i)
    BY <2>4, <2>11 DEF Has
  <2> QED BY <1>4, <1>5, <2>1, <2>8, <2>9, <2>10, <2>12 DEF u, v
<1>14. ~IssuesFromHost
  BY <1>2 DEF IssuesFromHost
<1>15. CASE RunForward /\ UNCHANGED <<dir, hostVars>>
  <2>1. /\ pc = "begin" /\ pc' = pc /\ call' = call /\ i' = i /\ chunks' = chunks /\ streams' = streams
        /\ kv' = [x \in DOMAIN kv |-> IF x[1] = call.no THEN x ELSE kv[x]]
    BY <1>15 DEF RunForward, hostVars, HostInv
  <2>2. p' = p /\ q' = q
    BY <1>1, <2>1 DEF Filling, Draining, First, Second
  <2>3. Quiet'
    BY <1>3, <1>6, <2>1, <2>2 DEF Quiet
  <2> QED BY <1>4, <1>7, <2>1, <2>3
\* An operation that moves nothing has run.
<1>16. ASSUME UNCHANGED <<hostVars, staging, cpu_bufs, kv, forward>>,
              \/ p # <<>> /\ p[1].do # Fill /\ p' = Tail(p) /\ q' = q
              \/ q # <<>> /\ q[1].do # Drain /\ q' = Tail(q) /\ p' = p
       PROVE  ToHostInv'
  <2> DEFINE Here(w, what) == \A x \in 1 .. Len(w) : w[x].do = what =>
               pc = "extract" /\ w[x].call = call.no /\ w[x].chunk = i
  <2>0. Here(p, Fill) /\ Here(q, Drain)
    BY <1>4
  <2>1. Here(p', Fill) /\ Here(q', Drain)
    <3>1. ASSUME NEW w \in Seq(Ops), w # <<>>, NEW what, Here(w, what)
          PROVE  Here(Tail(w), what)
      <4>1. \A x \in 1 .. Len(Tail(w)) : x + 1 \in 1 .. Len(w) /\ Tail(w)[x] = w[x + 1]
        BY <3>1, TailFacts
      <4> QED BY <3>1, <4>1
    <3> HIDE DEF p, q, Here
    <3> QED BY <1>3, <1>16, <2>0, <3>1
  <2>2. /\ Has(p', Fill, call.no, i) <=> ToFill(i)
        /\ Has(q', Drain, call.no, i) <=> ToDrain(i)
    <3>1. /\ ToFill(i) <=> Has(p, Fill, call.no, i)
          /\ ToDrain(i) <=> Has(q, Drain, call.no, i)
      BY DEF ToFill, ToDrain
    <3> HIDE DEF p, q
    <3>2. p # <<>> /\ p[1].do # Fill => (Has(Tail(p), Fill, call.no, i) <=> Has(p, Fill, call.no, i))
      BY <1>3, HasTail
    <3>3. q # <<>> /\ q[1].do # Drain => (Has(Tail(q), Drain, call.no, i) <=> Has(q, Drain, call.no, i))
      BY <1>3, HasTail
    <3> QED BY <1>16, <3>1, <3>2, <3>3
  <2>3. pc = "extract" =>
          IF Has(q', Drain, call.no, i)
          THEN Has(p', Fill, call.no, i) \/ staging[i % 3] = Right(call.no, i)
          ELSE cpu_bufs[i % 3] = Right(call.no, i)
    BY <1>4, <2>2
  <2>4. UNCHANGED <<call, pc, i, chunks, staging, cpu_bufs, kv, forward>>
    BY <1>16 DEF hostVars
  <2> QED BY <1>4, <1>5, <2>1, <2>3, <2>4
<1>17. CASE Fills
  <2>1. /\ p # <<>> /\ p[1].do = Fill /\ p' = Tail(p) /\ q' = q
        /\ staging' = [staging EXCEPT ![p[1].slot] =
                         [b \in Blocks |-> kv[<<p[1].call, p[1].chunk, b>>]]]
        /\ UNCHANGED <<call, pc, i, chunks, cpu_bufs, kv, forward>>
    BY <1>2, <1>17 DEF Fills, PopsFirst, hostVars
  <2>2. 1 \in 1 .. Len(p) /\ \A x \in 1 .. Len(p') : x + 1 \in 1 .. Len(p) /\ p'[x] = p[x + 1]
    BY <1>3, <2>1, TailFacts
  <2>3. pc = "extract" /\ p[1].call = call.no /\ p[1].chunk = i
    BY <1>4, <2>1, <2>2
  <2>4. p[1].slot = i % 3
    BY <2>1, <2>2, <2>3 DEF PairInv, Moves
  <2>5. i % 3 \in Slots /\ DOMAIN staging = Slots
    BY <1>3 DEF Slots, TypeInv
  <2>6. \A b \in Blocks : kv[<<call.no, i, b>>] = <<call.no, i, b>>
    <3>1. call.no > 0 /\ i < call.n /\ ~forward
      BY <2>3 DEF HostInv
    <3>2. \A b \in Blocks : <<call.no, i, b>> \in DOMAIN kv /\ <<call.no, i, b>>[1] = call.no
      BY <1>3, <3>1, ChunkBlocks
    <3> QED BY <1>4, <3>1, <3>2
  <2>7. staging'[i % 3] = Right(call.no, i)
    BY <2>1, <2>3, <2>4, <2>5, <2>6 DEF Right
  <2>8. \A x \in 1 .. Len(p') : p'[x].do = Fill =>
          pc = "extract" /\ p'[x].call = call.no /\ p'[x].chunk = i
    BY <1>4, <2>2
  <2>9. ~ToDrain(i) => cpu_bufs[i % 3] = Right(call.no, i)
    BY <1>4, <2>3
  <2> QED BY <1>4, <1>5, <2>1, <2>7, <2>8, <2>9 DEF ToDrain
<1>18. CASE Drains
  <2>1. /\ q # <<>> /\ q[1].do = Drain /\ q' = Tail(q) /\ p' = p
        /\ cpu_bufs' = [cpu_bufs EXCEPT ![q[1].slot] = staging[q[1].slot]]
        /\ UNCHANGED <<call, pc, i, chunks, staging, kv, forward>>
    BY <1>2, <1>18 DEF Drains, PopsSecond, hostVars
  <2>2. 1 \in 1 .. Len(q) /\ \A x \in 1 .. Len(q') : x + 1 \in 1 .. Len(q) /\ q'[x] = q[x + 1]
    BY <1>3, <2>1, TailFacts
  <2>3. pc = "extract" /\ q[1].call = call.no /\ q[1].chunk = i
    BY <1>4, <2>1, <2>2
  <2>4. q[1].slot = i % 3
    BY <2>1, <2>2, <2>3 DEF PairInv, Moves
  <2>5. i % 3 \in Slots /\ DOMAIN cpu_bufs = Slots
    BY <1>3 DEF Slots, TypeInv
  <2>6. ToDrain(i)
    BY <2>1, <2>2, <2>3 DEF ToDrain, Has
  <2>7. ~ToFill(i)
    <3>1. \A y \in 1 .. Len(p) : p[y].do = Fill => ~Same(q[1], p[y])
      BY <2>1, HeadDrain
    <3> QED BY <2>3, <3>1 DEF ToFill, Has, Same
  <2>8. staging[i % 3] = Right(call.no, i)
    BY <1>4, <2>3, <2>6, <2>7
  <2>9. cpu_bufs'[i % 3] = Right(call.no, i)
    BY <2>1, <2>4, <2>5, <2>8
  <2>10. \A x \in 1 .. Len(q') : q'[x].do = Drain =>
           pc = "extract" /\ q'[x].call = call.no /\ q'[x].chunk = i
    BY <1>4, <2>2
  <2> QED BY <1>4, <1>5, <2>1, <2>8, <2>9, <2>10
<1>19. CASE DeviceStep
  <2>1. Fill \notin {"wait", "record"} /\ Drain \notin {"wait", "record"}
    BY <1>3
  <2>2. CASE (PopsFirst("wait") /\ Waits(p)) \/ (PopsFirst("record") /\ Records(p))
    <3>1. /\ UNCHANGED <<hostVars, staging, cpu_bufs, kv, forward>>
          /\ p # <<>> /\ p[1].do # Fill /\ p' = Tail(p) /\ q' = q
      BY <2>1, <2>2 DEF PopsFirst, Waits, Records
    <3> QED BY <1>16, <3>1
  <2>3. CASE (PopsSecond("wait") /\ Waits(q)) \/ (PopsSecond("record") /\ Records(q))
    <3>1. /\ UNCHANGED <<hostVars, staging, cpu_bufs, kv, forward>>
          /\ q # <<>> /\ q[1].do # Drain /\ q' = Tail(q) /\ p' = p
      BY <2>1, <2>3 DEF PopsSecond, Waits, Records
    <3> QED BY <1>16, <3>1
  <2>4. \/ (PopsFirst("wait") /\ Waits(p)) \/ (PopsFirst("record") /\ Records(p))
        \/ (PopsSecond("wait") /\ Waits(q)) \/ (PopsSecond("record") /\ Records(q))
        \/ Fills \/ Drains \/ (RunForward /\ UNCHANGED <<dir, hostVars>>)
    BY <1>19 DEF DeviceStep
  <2> QED BY <1>15, <1>17, <1>18, <2>2, <2>3, <2>4
<1> QED BY <1>8, <1>9, <1>10, <1>11, <1>12, <1>13, <1>14, <1>19, NextSteps DEF Step
-----------------------------------------------------------------------------

(***************************************************************************)
(* FromHostInv.                                                            *)
(***************************************************************************)

\* A chunk that awaits its drain is safe in its slot: the fill that runs next
\* is of another slot.
LEMMA SlotIsSafe ==
  ASSUME TypeInv, StreamInv, PairInv, Filling # <<>>, Filling[1].do = Fill,
         NEW k, ToDrain(k), ~ToFill(k)
  PROVE  Filling[1].slot # k % 3
<1> DEFINE p == Filling
           q == Draining
<1>1. /\ p \in Seq(Ops) /\ q \in Seq(Ops) /\ fired \in [Events -> Nat]
      /\ Fill \in {"gather", "to_cpu", "to_device", "scatter"} /\ Fill # "record"
      /\ Drain \in {"gather", "to_cpu", "to_device", "scatter"}
  BY QueueType DEF TypeInv, Fill, Drain
<1>2. /\ Shaped(p, Fill, "free", "ready", 1) /\ Shaped(q, Drain, "ready", "free", 0)
      /\ Passed(p, Fill, "free", 1, fired)
      /\ Numbered(p, "ready", "begin", fired, issued)
      /\ Numbered(q, "free", "end", fired, issued)
      /\ Moves(q, Drain, call.no, Started) /\ Link(p, Fill, q, Drain, fired)
  BY DEF StreamInv, PairInv
<1>3. PICK x \in 1 .. Len(q) : q[x].do = Drain /\ q[x].call = call.no /\ q[x].chunk = k
  BY DEF ToDrain, Has
<1>4. \A y \in 1 .. Len(p) : ~(p[y].do = Fill /\ Same(p[y], q[x]))
  BY <1>3 DEF ToFill, Has, Same
<1>5. p # <<>> /\ p[1].do = Fill
  OBVIOUS
<1> HIDE DEF p, q
<1>6. SUFFICES ASSUME p[1].slot = k % 3 PROVE FALSE
  BY DEF p
<1>7. Len(p) \in Nat /\ Len(p) > 0 /\ 1 \in 1 .. Len(p) /\ Len(q) \in Nat
  BY <1>1, <1>5, TailFacts
<1>8. 2 \in 1 .. Len(p) /\ p[2].do = "record" /\ p[2].on = <<"ready", p[1].slot>>
  BY <1>2, <1>5, <1>7 DEF Shaped
<1>9. x + 1 \in 1 .. Len(q) /\ q[x + 1].do = "record" /\ q[x + 1].on = <<"free", q[x].slot>>
  BY <1>2, <1>3, <1>7 DEF Shaped
<1> DEFINE s == p[1].slot
           t == p[2].t
           z == q[x + 1].t
<1>10. q[x].slot = s
  BY <1>2, <1>3, <1>6 DEF Moves
<1>11. t \in Nat /\ z \in Nat /\ ready(s) \in Events /\ free(s) \in Events
  <2>1. t \in Nat /\ p[2].on \in Events
    BY <1>1, <1>8, OpFacts
  <2>2. z \in Nat /\ q[x + 1].on \in Events
    BY <1>1, <1>9, OpFacts
  <2> QED BY <1>8, <1>9, <1>10, <2>1, <2>2 DEF ready, free
<1>12. fired[ready(s)] < t
  BY <1>2, <1>8 DEF Numbered, ready
<1>13. fired[free(s)] < z
  BY <1>2, <1>9, <1>10 DEF Numbered, free
<1>14. fired[free(s)] + 1 >= t
  BY <1>2, <1>5, <1>7 DEF Passed, free
<1>15. fired[ready(s)] >= z
  <2>1. ~Marks(p[1], q[x].slot, q[x + 1].t)
    BY <1>1, <1>5 DEF Marks
  <2> QED BY <1>2, <1>3, <1>4, <1>10, <2>1 DEF Link
<1>16. fired[ready(s)] \in Nat /\ fired[free(s)] \in Nat
  BY <1>1, <1>11
<1> HIDE DEF s, t, z
<1> QED BY <1>11, <1>12, <1>13, <1>14, <1>15, <1>16

\* A slot is used again three chunks later at the earliest.
LEMMA SlotReuse ==
  ASSUME NEW k \in Nat, NEW n \in Nat, k < n, k % 3 = n % 3
  PROVE  n >= 3
<1>1. SUFFICES ASSUME n < 3 PROVE FALSE
  OBVIOUS
<1>2. (n = 1 \/ n = 2) /\ (k = 0 \/ k = 1)
  BY <1>1
<1>3. 0 % 3 = 0 /\ 1 % 3 = 1 /\ 2 % 3 = 2
  OBVIOUS
<1> QED BY <1>2, <1>3

\* Every step keeps FromHostInv.
LEMMA FromHostStep ==
  ASSUME TypeInv, StreamInv, PairInv, HostInv, FromHostInv, [Next]_vars
  PROVE  FromHostInv'
<1> DEFINE p == Filling
           q == Draining
           T == {"gather", "to_cpu", "to_device", "scatter"}
<1>1. dir' = dir
  BY DEF Next, Host, Enter, Begin, ToHostChunk, ToHostExtract, FromHostChunk, FromHostRaise, End,
         Return, Leave, Device, vars
<1>2. SUFFICES ASSUME dir = "from_host" PROVE FromHostInv'
  BY <1>1 DEF FromHostInv
<1>3. /\ p \in Seq(Ops) /\ q \in Seq(Ops) /\ i \in Nat /\ call.no \in Nat /\ call.n \in Nat
      /\ Fill \in T /\ Drain \in T /\ Fill' = Fill /\ Drain' = Drain /\ call.skip \in Nat
      /\ issued \in [Events -> Nat] /\ fired \in [Events -> Nat]
  BY <1>1, <1>2, QueueType DEF TypeInv, Fill, Drain
<1>4. /\ pc = "returned" => Len(q) = 0
      /\ \A x \in 1 .. Len(q) :
           q[x].do = Drain /\ q[x].call = call.no => q[x].skip = SkipAt(call, q[x].chunk)
      /\ \A x \in DOMAIN kv :
           x[1] > call.no \/ (x[1] = call.no /\ x[2] = 0 /\ x[3] < call.skip) => kv[x] = Stale
      /\ \A k \in 0 .. (i - 1) :
           /\ ToFill(k) => cpu_bufs[k % 3] = Right(call.no, k)
           /\ ToDrain(k) /\ ~ToFill(k) => staging[k % 3] = Right(call.no, k)
           /\ ~ToDrain(k) => \A b \in Blocks : b >= SkipAt(call, k) => kv[<<call.no, k, b>>] = <<call.no, k, b>>
  BY <1>2 DEF FromHostInv, Skips, Untouched, Landed, ToFill, ToDrain
<1>5. ASSUME pc' = "returned" => Len(q') = 0, Skips(q', Drain, call'), Untouched(kv', call'),
             Landed(p', Fill, q', Drain, call', i', cpu_bufs', staging', kv')
      PROVE  FromHostInv'
  BY <1>1, <1>3, <1>5 DEF FromHostInv
<1>6. pc # "extract" /\ ~forward /\ Started = i
  BY <1>2 DEF HostInv, Started
<1>7. /\ Moves(p, Fill, call.no, i) /\ Moves(q, Drain, call.no, i)
  BY <1>6 DEF PairInv
\* The same chunks are to be filled and to be drained.
<1>8. ASSUME \A k \in 0 .. (i - 1) : /\ Has(p', Fill, call.no, k) <=> ToFill(k)
                                     /\ Has(q', Drain, call.no, k) <=> ToDrain(k),
             Skips(q', Drain, call), pc' = "returned" => Len(q') = 0,
             UNCHANGED <<call, i, staging, cpu_bufs, kv>>
      PROVE  FromHostInv'
  <2> HIDE DEF p, q
  <2>1. Untouched(kv, call)
    BY <1>4 DEF Untouched
  <2>2. Landed(p', Fill, q', Drain, call, i, cpu_bufs, staging, kv)
    BY <1>4, <1>8 DEF Landed
  <2> QED BY <1>5, <1>8, <2>1, <2>2
<1>9. /\ \A k : ToFill(k) <=> Has(p, Fill, call.no, k)
      /\ \A k : ToDrain(k) <=> Has(q, Drain, call.no, k)
  BY DEF ToFill, ToDrain
<1>10. CASE UNCHANGED vars \/ Returns
  <2>1. UNCHANGED <<dir, call, i, streams, staging, cpu_bufs, kv>>
    BY <1>10 DEF vars, devVars, hostVars, Returns
  <2>2. p' = p /\ q' = q
    BY <2>1 DEF Filling, Draining, First, Second
  <2>3. pc' = "returned" => Len(q) = 0
    <3>1. CASE UNCHANGED vars
      BY <1>4, <3>1 DEF vars, hostVars
    <3>2. CASE Returns
      <4>1. pc' = "returned" => q = <<>>
        BY <1>2, <3>2 DEF Returns
      <4> QED BY <4>1
    <3> QED BY <1>10, <3>1, <3>2
  <2> HIDE DEF p, q
  <2>4. Skips(q, Drain, call)
    BY <1>4 DEF Skips
  <2> QED BY <1>8, <1>9, <2>1, <2>2, <2>3, <2>4
<1>11. CASE Enter
  <2>1. PICK n \in CallSizes, skip \in Blocks : call' = [no |-> call.no + 1, n |-> n, skip |-> skip]
    BY <1>11 DEF Enter
  <2>2. call'.no = call.no + 1 /\ i' = 0 /\ pc' = "begin" /\ streams' = streams /\ kv' = kv
    BY <1>11, <2>1 DEF Enter
  <2>3. p' = p /\ q' = q
    BY <1>1, <2>2 DEF Filling, Draining, First, Second
  <2>4. \A x \in 1 .. Len(q) : q[x].do = Drain => q[x].call # call.no + 1
    <3>1. \A x \in 1 .. Len(q) : q[x].do = Drain => q[x].call \in Nat /\ q[x].call <= call.no
      BY <1>3, <1>7, OpFacts DEF Moves
    <3> QED BY <1>3, <3>1
  <2>5. \A x \in DOMAIN kv : x[1] >= call.no + 1 => kv[x] = Stale
    <3>1. \A x \in DOMAIN kv : x[1] \in Nat
      BY TransferAssumption DEF TypeInv, Calls
    <3> QED BY <1>3, <1>4, <3>1
  <2>6. \A x \in DOMAIN kv' :
          x[1] > call'.no \/ (x[1] = call'.no /\ x[2] = 0 /\ x[3] < call'.skip) => kv'[x] = Stale
    <3>1. \A x \in DOMAIN kv : x[1] \in Nat
      BY TransferAssumption DEF TypeInv, Calls
    <3> QED BY <1>3, <2>2, <2>5, <3>1
  <2>7. 0 .. (0 - 1) = {}
    OBVIOUS
  <2> HIDE DEF p, q
  <2>8. Landed(p', Fill, q', Drain, call', i', cpu_bufs', staging', kv')
    BY <2>2, <2>7 DEF Landed
  <2>9. Untouched(kv', call') /\ Skips(q', Drain, call')
    BY <2>2, <2>3, <2>4, <2>6 DEF Untouched, Skips
  <2> QED BY <1>5, <2>2, <2>8, <2>9
<1>12. ~IssuesToHost /\ ~ToHostExtract /\ ~RunForward
  BY <1>2, <1>6 DEF IssuesToHost, ToHostExtract, RunForward
<1>13. CASE Begins \/ Ends
  <2>1. UNCHANGED <<call, i, staging, cpu_bufs, kv>> /\ pc' # "returned"
    BY <1>13 DEF Begins, Ends
  <2>2. Fill # "record" /\ Drain # "record"
    BY <1>3
  <2>3. CASE Begins
    <3> HIDE DEF p, q
    <3>1. p' = p \o <<RecordNext(begin)>> /\ q' = q
      BY <2>3 DEF Begins, p, q
    <3>2. /\ p' \in Seq(Ops) /\ Len(p) \in Nat /\ Len(p') = Len(p) + 1
          /\ \A x \in 1 .. Len(p) : p'[x] = p[x]
          /\ \A x \in (Len(p) + 1) .. Len(p') : p'[x].do = "record"
      <4> DEFINE w == p \o <<RecordNext(begin)>>
      <4>1. /\ w \in Seq(Ops) /\ Len(p) \in Nat /\ Len(w) = Len(p) + 1
            /\ \A x \in 1 .. Len(p) : w[x] = p[x]
            /\ \A x \in (Len(p) + 1) .. (Len(p) + 1) : w[x].do = "record"
        BY <1>3, RecordFacts
      <4> HIDE DEF w
      <4>2. p' = w
        BY <3>1 DEF w
      <4> QED BY <4>1, <4>2
    <3>3. Len(p) <= Len(p')
      BY <3>2
    <3>4. \A k : Has(p', Fill, call.no, k) <=> Has(p, Fill, call.no, k)
      <4>1. ASSUME NEW k PROVE Has(p', Fill, call.no, k) <=> Has(p, Fill, call.no, k)
        <5>1. /\ Has(p, Fill, call.no, k) => Has(p', Fill, call.no, k)
              /\ Has(p', Fill, call.no, k) =>
                   \/ Has(p, Fill, call.no, k)
                   \/ \E x \in (Len(p) + 1) .. Len(p') :
                        p'[x].do = Fill /\ p'[x].call = call.no /\ p'[x].chunk = k
          BY <1>3, <3>2, <3>3, HasMore
        <5> QED BY <2>2, <3>2, <5>1
      <4> QED BY <4>1
    <3>5. Skips(q', Drain, call)
      BY <1>4, <3>1 DEF Skips
    <3> QED BY <1>8, <1>9, <2>1, <3>1, <3>4, <3>5
  <2>4. CASE Ends
    <3> HIDE DEF p, q
    <3>1. q' = q \o <<RecordNext(end)>> /\ p' = p
      BY <2>4 DEF Ends, p, q
    <3>2. /\ q' \in Seq(Ops) /\ Len(q) \in Nat /\ Len(q') = Len(q) + 1
          /\ \A x \in 1 .. Len(q) : q'[x] = q[x]
          /\ \A x \in (Len(q) + 1) .. Len(q') : q'[x].do = "record"
      <4> DEFINE w == q \o <<RecordNext(end)>>
      <4>1. /\ w \in Seq(Ops) /\ Len(q) \in Nat /\ Len(w) = Len(q) + 1
            /\ \A x \in 1 .. Len(q) : w[x] = q[x]
            /\ \A x \in (Len(q) + 1) .. (Len(q) + 1) : w[x].do = "record"
        BY <1>3, RecordFacts
      <4> HIDE DEF w
      <4>2. q' = w
        BY <3>1 DEF w
      <4> QED BY <4>1, <4>2
    <3>3. Len(q) <= Len(q')
      BY <3>2
    <3>4. \A k : Has(q', Drain, call.no, k) <=> Has(q, Drain, call.no, k)
      <4>1. ASSUME NEW k PROVE Has(q', Drain, call.no, k) <=> Has(q, Drain, call.no, k)
        <5>1. /\ Has(q, Drain, call.no, k) => Has(q', Drain, call.no, k)
              /\ Has(q', Drain, call.no, k) =>
                   \/ Has(q, Drain, call.no, k)
                   \/ \E x \in (Len(q) + 1) .. Len(q') :
                        q'[x].do = Drain /\ q'[x].call = call.no /\ q'[x].chunk = k
          BY <1>3, <3>2, <3>3, HasMore
        <5> QED BY <2>2, <3>2, <5>1
      <4> QED BY <4>1
    <3>5. \A x \in 1 .. Len(q') : x \in 1 .. Len(q) \/ x \in (Len(q) + 1) .. Len(q')
      BY <3>2
    <3>6. \A x \in 1 .. Len(q') :
            q'[x].do = Drain /\ q'[x].call = call.no => q'[x].skip = SkipAt(call, q'[x].chunk)
      BY <1>4, <2>2, <3>2, <3>5
    <3>7. Skips(q', Drain, call)
      BY <3>6 DEF Skips
    <3> QED BY <1>8, <1>9, <2>1, <3>1, <3>4, <3>7
  <2> QED BY <1>13, <2>3, <2>4
<1>14. CASE IssuesFromHost
  <2>1. /\ Issues(Skip) /\ BufferConsumed /\ cpu_bufs' = [cpu_bufs EXCEPT ![Slot] = Right(call.no, i)]
        /\ i' = i + 1 /\ pc' = "chunk" /\ UNCHANGED <<call, staging, kv>>
    BY <1>14 DEF IssuesFromHost, Issues
  <2>2. Skip \in Nat /\ Skip = SkipAt(call, i) /\ Slot = i % 3 /\ Slot \in Slots
    BY <1>3, SlotType DEF Skip, SkipAt, Slot
  <2>3. /\ p' \in Seq(Ops) /\ q' \in Seq(Ops) /\ Len(p') = Len(p) + 3 /\ Len(q') = Len(q) + 3
        /\ \A x \in 1 .. Len(p) : p'[x] = p[x]
        /\ \A x \in 1 .. Len(q) : q'[x] = q[x]
        /\ p'[Len(p) + 1].do = "wait" /\ q'[Len(q) + 1].do = "wait"
        /\ p'[Len(p) + 2] = Move(Fill, Slot, call.no, i, 0)
        /\ q'[Len(q) + 2] = Move(Drain, Slot, call.no, i, Skip)
        /\ p'[Len(p) + 3] = RecordNext(ready(Slot)) /\ q'[Len(q) + 3] = RecordNext(free(Slot))
    BY <2>1, <2>2, IssueFacts
  <2> DEFINE a == Len(p)
             b == Len(q)
             u == p'
             v == q'
  <2>4. /\ u[a + 1].do = "wait" /\ u[a + 3].do = "record" /\ u[a + 2].do = Fill
        /\ u[a + 2].call = call.no /\ u[a + 2].chunk = i
        /\ v[b + 1].do = "wait" /\ v[b + 3].do = "record" /\ v[b + 2].do = Drain
        /\ v[b + 2].call = call.no /\ v[b + 2].chunk = i /\ v[b + 2].skip = SkipAt(call, i)
    BY <2>2, <2>3 DEF Move, RecordNext, Record
  <2>5. a \in Nat /\ b \in Nat /\ Len(u) = a + 3 /\ Len(v) = b + 3 /\ a <= Len(u) /\ b <= Len(v)
    <3>1. Len(p) \in Nat /\ Len(q) \in Nat
      BY <1>3
    <3> QED BY <2>3, <3>1
  <2>6. /\ u \in Seq(Ops) /\ v \in Seq(Ops)
        /\ \A x \in 1 .. a : u[x] = p[x]
        /\ \A x \in 1 .. b : v[x] = q[x]
    BY <2>3
  <2> HIDE DEF a, b, u, v, p, q
  <2>7. /\ \A x \in (a + 1) .. Len(u) : x = a + 1 \/ x = a + 2 \/ x = a + 3
        /\ \A x \in (b + 1) .. Len(v) : x = b + 1 \/ x = b + 2 \/ x = b + 3
        /\ a + 2 \in 1 .. Len(u) /\ b + 2 \in 1 .. Len(v)
        /\ \A x \in 1 .. Len(v) : x \in 1 .. b \/ x \in (b + 1) .. Len(v)
    BY <2>5
  <2>8. /\ \A x \in (a + 1) .. Len(u) : u[x].do = Fill => u[x].chunk = i
        /\ \A x \in (b + 1) .. Len(v) : v[x].do = Drain => v[x].chunk = i /\ v[x].skip = SkipAt(call, i)
    BY <1>3, <2>4, <2>7
  <2>9. Has(u, Fill, call.no, i) /\ Has(v, Drain, call.no, i)
    BY <2>4, <2>7 DEF Has
  <2>10. \A k \in 0 .. (i - 1) : /\ Has(u, Fill, call.no, k) <=> ToFill(k)
                                 /\ Has(v, Drain, call.no, k) <=> ToDrain(k)
    <3>1. ASSUME NEW k \in 0 .. (i - 1)
          PROVE  Has(u, Fill, call.no, k) <=> ToFill(k)
      <4>1. k # i
        BY <1>3
      <4>2. /\ p \in Seq(Ops) /\ u \in Seq(Ops) /\ Len(p) <= Len(u)
            /\ \A x \in 1 .. Len(p) : u[x] = p[x]
        BY <1>3, <2>5, <2>6 DEF a
      <4>3. ~\E x \in (Len(p) + 1) .. Len(u) :
               u[x].do = Fill /\ u[x].call = call.no /\ u[x].chunk = k
        BY <2>8, <4>1 DEF a
      <4>4. /\ Has(p, Fill, call.no, k) => Has(u, Fill, call.no, k)
            /\ Has(u, Fill, call.no, k) =>
                 \/ Has(p, Fill, call.no, k)
                 \/ \E x \in (Len(p) + 1) .. Len(u) :
                      u[x].do = Fill /\ u[x].call = call.no /\ u[x].chunk = k
        BY <4>2, HasMore
      <4> QED BY <1>9, <4>3, <4>4
    <3>2. ASSUME NEW k \in 0 .. (i - 1)
          PROVE  Has(v, Drain, call.no, k) <=> ToDrain(k)
      <4>1. k # i
        BY <1>3
      <4>2. /\ q \in Seq(Ops) /\ v \in Seq(Ops) /\ Len(q) <= Len(v)
            /\ \A x \in 1 .. Len(q) : v[x] = q[x]
        BY <1>3, <2>5, <2>6 DEF b
      <4>3. ~\E x \in (Len(q) + 1) .. Len(v) :
               v[x].do = Drain /\ v[x].call = call.no /\ v[x].chunk = k
        BY <2>8, <4>1 DEF b
      <4>4. /\ Has(q, Drain, call.no, k) => Has(v, Drain, call.no, k)
            /\ Has(v, Drain, call.no, k) =>
                 \/ Has(q, Drain, call.no, k)
                 \/ \E x \in (Len(q) + 1) .. Len(v) :
                      v[x].do = Drain /\ v[x].call = call.no /\ v[x].chunk = k
        BY <4>2, HasMore
      <4> QED BY <1>9, <4>3, <4>4
    <3> QED BY <3>1, <3>2
  <2>12. \A x \in 1 .. Len(v) :
           v[x].do = Drain /\ v[x].call = call.no => v[x].skip = SkipAt(call, v[x].chunk)
    <3>1. \A x \in 1 .. b :
           v[x].do = Drain /\ v[x].call = call.no => v[x].skip = SkipAt(call, v[x].chunk)
      BY <1>4, <2>6 DEF b
    <3> QED BY <2>7, <2>8, <3>1
  <2>13. DOMAIN cpu_bufs = Slots
    BY DEF TypeInv
  <2>14. cpu_bufs'[i % 3] = Right(call.no, i)
    BY <2>1, <2>2, <2>13
  <2>15. ASSUME NEW k \in 0 .. (i - 1), ToFill(k)
         PROVE  cpu_bufs'[k % 3] = Right(call.no, k)
    <3>1. k \in Nat /\ k < i
      BY <1>3
    <3>2. k % 3 # Slot
      <4>1. SUFFICES ASSUME k % 3 = Slot PROVE FALSE
        OBVIOUS
      <4>2. i >= 3
        BY <1>3, <2>2, <3>1, <4>1, SlotReuse
      <4>3. Synchronized(free(Slot))
        BY <2>1, <4>2 DEF BufferConsumed
      <4>4. ~ToDrain(k)
        BY <4>1, <4>3, DrainedSlot
      <4> QED BY <2>15, <4>4, FilledIsDrained
    <3>3. cpu_bufs[k % 3] = Right(call.no, k)
      BY <1>4, <2>15
    <3>4. cpu_bufs'[k % 3] = cpu_bufs[k % 3]
      <4>1. k % 3 \in Slots
        BY <3>1 DEF Slots
      <4> QED BY <2>1, <2>13, <3>2, <4>1
    <3> QED BY <3>3, <3>4
  <2>16. \A k \in 0 .. (i' - 1) : k \in 0 .. (i - 1) \/ k = i
    BY <1>3, <2>1
  <2>17. \A k \in 0 .. (i' - 1) :
           /\ Has(u, Fill, call.no, k) => cpu_bufs'[k % 3] = Right(call.no, k)
           /\ Has(v, Drain, call.no, k) /\ ~Has(u, Fill, call.no, k) =>
                staging[k % 3] = Right(call.no, k)
           /\ ~Has(v, Drain, call.no, k) =>
                \A bl \in Blocks : bl >= SkipAt(call, k) => kv[<<call.no, k, bl>>] = <<call.no, k, bl>>
    BY <1>4, <2>9, <2>10, <2>14, <2>15, <2>16
  <2>18. Landed(u, Fill, v, Drain, call, i', cpu_bufs', staging, kv)
    BY <2>17 DEF Landed
  <2>19. Skips(v, Drain, call) /\ Untouched(kv, call)
    BY <1>4, <2>12 DEF Skips, Untouched
  <2> QED BY <1>5, <2>1, <2>18, <2>19 DEF u, v
\* An operation that moves nothing has run.
<1>15. ASSUME UNCHANGED <<hostVars, staging, cpu_bufs, kv>>,
              \/ p # <<>> /\ p[1].do # Fill /\ p' = Tail(p) /\ q' = q
              \/ q # <<>> /\ q[1].do # Drain /\ q' = Tail(q) /\ p' = p
       PROVE  FromHostInv'
  <2>1. UNCHANGED <<call, pc, i, staging, cpu_bufs, kv>>
    BY <1>15 DEF hostVars
  <2> HIDE DEF p, q
  <2>2. p # <<>> /\ p[1].do # Fill =>
          \A k : Has(Tail(p), Fill, call.no, k) <=> Has(p, Fill, call.no, k)
    BY <1>3, HasTail
  <2>3. q # <<>> /\ q[1].do # Drain =>
          \A k : Has(Tail(q), Drain, call.no, k) <=> Has(q, Drain, call.no, k)
    BY <1>3, HasTail
  <2>4. /\ \A k : Has(p', Fill, call.no, k) <=> ToFill(k)
        /\ \A k : Has(q', Drain, call.no, k) <=> ToDrain(k)
    BY <1>9, <1>15, <2>2, <2>3
  <2>5. /\ \A x \in 1 .. Len(q') :
             q'[x].do = Drain /\ q'[x].call = call.no => q'[x].skip = SkipAt(call, q'[x].chunk)
        /\ pc = "returned" => Len(q') = 0
    <3>1. CASE q' = q
      BY <1>4, <3>1
    <3>2. CASE q # <<>> /\ q' = Tail(q)
      <4>1. Len(q) # 0 /\ \A x \in 1 .. Len(q') : x + 1 \in 1 .. Len(q) /\ q'[x] = q[x + 1]
        BY <1>3, <3>2, TailFacts
      <4> QED BY <1>4, <4>1
    <3> QED BY <1>15, <3>1, <3>2
  <2>6. Skips(q', Drain, call)
    BY <2>5 DEF Skips
  <2> QED BY <1>8, <2>1, <2>4, <2>5, <2>6
<1>16. CASE Fills
  <2>1. /\ p # <<>> /\ p[1].do = Fill /\ p' = Tail(p) /\ q' = q
        /\ staging' = [staging EXCEPT ![p[1].slot] = cpu_bufs[p[1].slot]]
        /\ UNCHANGED <<call, pc, i, cpu_bufs, kv>>
    BY <1>2, <1>16 DEF Fills, PopsFirst, hostVars
  <2>2. \A k : ToDrain(k) /\ ~ToFill(k) => p[1].slot # k % 3
    BY <2>1, SlotIsSafe
  <2>4. DOMAIN staging = Slots
    BY DEF TypeInv
  <2>5. \A k : ToFill(k) => ToDrain(k)
    BY FilledIsDrained
  <2> HIDE DEF p, q
  <2>6. 1 \in 1 .. Len(p) /\ p[1].slot = p[1].chunk % 3
    BY <1>3, <1>7, <2>1, TailFacts DEF Moves
  <2>7. p[1].slot \in Slots
    BY <1>3, <2>1, <2>6, OpFacts
  <2> DEFINE Now(k) == p[1].call = call.no /\ p[1].chunk = k
  <2>8. \A k : Has(p', Fill, call.no, k) => ToFill(k)
    BY <1>3, <1>9, <2>1, HasTail
  <2>9. \A k : ToFill(k) /\ ~Now(k) => Has(p', Fill, call.no, k)
    BY <1>3, <1>9, <2>1, HasTail
  <2>10. \A k : Now(k) => ToFill(k)
    BY <1>9, <2>1, <2>6 DEF Has
  <2>11. ASSUME NEW k \in 0 .. (i - 1), Has(q', Drain, call.no, k), ~Has(p', Fill, call.no, k)
         PROVE  staging'[k % 3] = Right(call.no, k)
    <3>1. CASE Now(k)
      <4>1. cpu_bufs[k % 3] = Right(call.no, k)
        BY <1>4, <2>10, <3>1
      <4>2. p[1].slot = k % 3
        BY <2>6, <3>1
      <4> QED BY <2>1, <2>4, <2>7, <4>1, <4>2
    <3>2. CASE ~Now(k)
      <4>1. ToDrain(k) /\ ~ToFill(k)
        BY <1>9, <2>1, <2>9, <2>11, <3>2
      <4>2. staging[k % 3] = Right(call.no, k) /\ p[1].slot # k % 3
        BY <1>4, <2>2, <4>1
      <4>3. k % 3 \in Slots
        BY <1>3 DEF Slots
      <4> QED BY <2>1, <2>4, <4>2, <4>3
    <3> QED BY <3>1, <3>2
  <2>12. \A k \in 0 .. (i - 1) :
           /\ Has(p', Fill, call.no, k) => cpu_bufs[k % 3] = Right(call.no, k)
           /\ ~Has(q', Drain, call.no, k) =>
                \A b \in Blocks : b >= SkipAt(call, k) => kv[<<call.no, k, b>>] = <<call.no, k, b>>
    BY <1>4, <1>9, <2>1, <2>8
  <2>13. Landed(p', Fill, q', Drain, call, i, cpu_bufs, staging', kv)
    BY <2>11, <2>12 DEF Landed
  <2>14. Skips(q, Drain, call) /\ Untouched(kv, call)
    BY <1>4 DEF Skips, Untouched
  <2> QED BY <1>4, <1>5, <2>1, <2>13, <2>14
<1>17. CASE Drains
  <2> DEFINE o == q[1]
  <2>1. /\ q # <<>> /\ o.do = Drain /\ q' = Tail(q) /\ p' = p
        /\ kv' = [x \in DOMAIN kv |->
                    IF x[1] = o.call /\ x[2] = o.chunk /\ x[3] >= o.skip
                    THEN staging[o.slot][x[3]] ELSE kv[x]]
        /\ UNCHANGED <<call, pc, i, staging>> /\ cpu_bufs' = cpu_bufs
    BY <1>2, <1>17 DEF Drains, PopsSecond, hostVars
  <2>2. \A k : o.call = call.no /\ o.chunk = k => ~ToFill(k)
    <3>1. \A y \in 1 .. Len(p) : p[y].do = Fill => ~Same(o, p[y])
      BY <2>1, HeadDrain
    <3> QED BY <3>1 DEF ToFill, Has, Same
  <2>4. DOMAIN kv = Calls \X Chunks \X Blocks
    BY DEF TypeInv
  <2>5. \A k \in 0 .. (i - 1), b \in Blocks : <<call.no, k, b>> \in DOMAIN kv
    <3>1. ASSUME NEW k \in 0 .. (i - 1), NEW b \in Blocks PROVE <<call.no, k, b>> \in DOMAIN kv
      <4>1. i <= call.n /\ k \in Nat /\ k < call.n
        BY <1>3 DEF HostInv
      <4>2. call.no > 0
        <5>1. call.no # 0
          BY <1>3 DEF HostInv
        <5> QED BY <1>3, <5>1
      <4> QED BY <4>1, <4>2, ChunkBlocks
    <3> QED BY <3>1
  <2> HIDE DEF p, q
  <2>6. 1 \in 1 .. Len(q) /\ o.slot = o.chunk % 3
    BY <1>3, <1>7, <2>1, TailFacts DEF Moves
  <2>7. /\ o.call \in Nat /\ o.chunk \in Nat /\ o.skip \in Nat /\ o.call <= call.no
        /\ o.call = call.no => o.chunk < i /\ o.skip = SkipAt(call, o.chunk)
    <3>1. o.call \in Nat /\ o.chunk \in Nat /\ o.skip \in Nat
      BY <1>3, <2>1, <2>6, OpFacts
    <3>2. o.call <= call.no /\ (o.call = call.no => o.chunk < i)
      BY <1>7, <2>1, <2>6 DEF Moves
    <3>3. o.call = call.no => o.skip = SkipAt(call, o.chunk)
      BY <1>4, <2>1, <2>6
    <3> QED BY <3>1, <3>2, <3>3
  <2> DEFINE Now(k) == o.call = call.no /\ o.chunk = k
  <2>8. \A k : Has(q', Drain, call.no, k) => ToDrain(k)
    BY <1>3, <1>9, <2>1, HasTail
  <2>9. \A k : ToDrain(k) /\ ~Now(k) => Has(q', Drain, call.no, k)
    BY <1>3, <1>9, <2>1, HasTail
  <2>10. \A k : Now(k) => ToDrain(k)
    BY <1>9, <2>1, <2>6 DEF Has
  <2> HIDE DEF o
  <2>11. ASSUME NEW k \in 0 .. (i - 1), ~Has(q', Drain, call.no, k),
                NEW b \in Blocks, b >= SkipAt(call, k)
         PROVE  kv'[<<call.no, k, b>>] = <<call.no, k, b>>
    <3> DEFINE x == <<call.no, k, b>>
    <3>1. x \in DOMAIN kv /\ x[1] = call.no /\ x[2] = k /\ x[3] = b
      BY <2>5
    <3>2. kv'[x] = IF x[1] = o.call /\ x[2] = o.chunk /\ x[3] >= o.skip
                   THEN staging[o.slot][x[3]] ELSE kv[x]
      BY <2>1, <3>1
    <3>3. CASE Now(k)
      <4>1. staging[k % 3] = Right(call.no, k)
        BY <1>4, <2>2, <2>10, <3>3
      <4>2. o.slot = k % 3 /\ o.skip = SkipAt(call, k)
        BY <2>6, <2>7, <3>3
      <4>3. kv'[x] = staging[k % 3][b]
        BY <2>11, <3>1, <3>2, <3>3, <4>2
      <4> QED BY <4>1, <4>3 DEF Right
    <3>4. CASE ~Now(k)
      <4>1. kv[x] = x
        BY <1>4, <2>9, <2>11, <3>4
      <4> QED BY <3>1, <3>2, <3>4, <4>1
    <3> QED BY <3>3, <3>4
  <2>12. ASSUME NEW x \in DOMAIN kv,
                x[1] > call.no \/ (x[1] = call.no /\ x[2] = 0 /\ x[3] < call.skip)
         PROVE  kv'[x] = Stale
    <3>1. x[1] \in Nat /\ x[3] \in Nat
      BY <2>4, TransferAssumption, LayoutAssumption DEF Calls, Blocks
    <3>2. ~(x[1] = o.call /\ x[2] = o.chunk /\ x[3] >= o.skip)
      <4>1. CASE x[1] > call.no
        BY <1>3, <2>7, <3>1, <4>1
      <4>2. CASE x[1] = call.no /\ x[2] = 0 /\ x[3] < call.skip
        <5>1. o.call = call.no /\ o.chunk = 0 => o.skip = call.skip
          BY <2>7 DEF SkipAt
        <5> QED BY <1>3, <3>1, <4>2, <5>1
      <4> QED BY <2>12, <4>1, <4>2
    <3> QED BY <1>4, <2>1, <2>12, <3>2
  <2>13. /\ \A x \in 1 .. Len(q') :
              q'[x].do = Drain /\ q'[x].call = call.no => q'[x].skip = SkipAt(call, q'[x].chunk)
         /\ pc # "returned"
    <3>1. Len(q) # 0 /\ \A x \in 1 .. Len(q') : x + 1 \in 1 .. Len(q) /\ q'[x] = q[x + 1]
      BY <1>3, <2>1, TailFacts
    <3> QED BY <1>4, <3>1
  <2>14. \A k \in 0 .. (i - 1) :
           /\ Has(p', Fill, call.no, k) => cpu_bufs[k % 3] = Right(call.no, k)
           /\ Has(q', Drain, call.no, k) /\ ~Has(p', Fill, call.no, k) =>
                staging[k % 3] = Right(call.no, k)
    BY <1>4, <1>9, <2>1, <2>8
  <2>15. DOMAIN kv' = DOMAIN kv
    BY <2>1
  <2>16. Landed(p', Fill, q', Drain, call, i, cpu_bufs, staging, kv')
    BY <2>11, <2>14 DEF Landed
  <2>17. Skips(q', Drain, call) /\ Untouched(kv', call)
    BY <2>12, <2>13, <2>15 DEF Skips, Untouched
  <2> QED BY <1>5, <2>1, <2>13, <2>16, <2>17
<1>18. CASE DeviceStep
  <2>1. Fill \notin {"wait", "record"} /\ Drain \notin {"wait", "record"}
    BY <1>3
  <2>2. CASE (PopsFirst("wait") /\ Waits(p)) \/ (PopsFirst("record") /\ Records(p))
    <3>1. /\ UNCHANGED <<hostVars, staging, cpu_bufs, kv>>
          /\ p # <<>> /\ p[1].do # Fill /\ p' = Tail(p) /\ q' = q
      BY <2>1, <2>2 DEF PopsFirst, Waits, Records
    <3> QED BY <1>15, <3>1
  <2>3. CASE (PopsSecond("wait") /\ Waits(q)) \/ (PopsSecond("record") /\ Records(q))
    <3>1. /\ UNCHANGED <<hostVars, staging, cpu_bufs, kv>>
          /\ q # <<>> /\ q[1].do # Drain /\ q' = Tail(q) /\ p' = p
      BY <2>1, <2>3 DEF PopsSecond, Waits, Records
    <3> QED BY <1>15, <3>1
  <2>4. \/ (PopsFirst("wait") /\ Waits(p)) \/ (PopsFirst("record") /\ Records(p))
        \/ (PopsSecond("wait") /\ Waits(q)) \/ (PopsSecond("record") /\ Records(q))
        \/ Fills \/ Drains
    BY <1>12, <1>18 DEF DeviceStep
  <2> QED BY <1>16, <1>17, <2>2, <2>3, <2>4
<1> QED BY <1>10, <1>11, <1>12, <1>13, <1>14, <1>18, NextSteps DEF Step
-----------------------------------------------------------------------------

\* The inductive invariant.
IInv == TypeInv /\ StreamInv /\ PairInv /\ HostInv /\ ToHostInv /\ FromHostInv

\* It holds in every reachable state.
LEMMA Invariance == Spec => []IInv
<1>1. Init => IInv
  BY InitFacts DEF IInv
<1>2. IInv /\ [Next]_vars => IInv'
  BY TypeStep, StreamStep, PairStep, HostStep, ToHostStep, FromHostStep DEF IInv
<1> QED BY <1>1, <1>2, PTL DEF Spec

\* Whatever the streams' speeds, to_host returns every chunk's own computed
\* bytes, in order, although three buffers serve them all: for any number of
\* calls and of chunks.
THEOREM ChunksLeaveWhole == Spec => []ExtractsOwnBytes
<1>1. IInv => ExtractsOwnBytes
  BY DEF IInv, HostInv, ToHostInv, ExtractsOwnBytes
<1> QED BY <1>1, Invariance, PTL

\* When from_host returns, every block behind the skipped ones holds its own
\* bytes and the skipped ones are untouched, although the host reuses a pinned
\* buffer and the copy stream a staging buffer every third chunk.
THEOREM ChunksLandWhole == Spec => []LandsOwnBytes
<1>1. ASSUME IInv PROVE LandsOwnBytes
  <2>1. SUFFICES ASSUME dir = "from_host", pc = "returned",
                        NEW k \in 0 .. (call.n - 1), NEW b \in Blocks
                 PROVE  kv[<<call.no, k, b>>] =
                          IF k = 0 /\ b < call.skip THEN Stale ELSE <<call.no, k, b>>
    BY DEF LandsOwnBytes
  <2>2. i = call.n /\ call.no > 0 /\ Len(Draining) = 0
    BY <1>1, <2>1 DEF IInv, HostInv, FromHostInv
  <2>3. /\ call.n \in Nat /\ call.skip \in Nat /\ call.no \in Nat /\ k \in Nat /\ k < call.n
        /\ b \in Nat
    BY <1>1, <2>1, LayoutAssumption DEF IInv, TypeInv, Blocks
  <2>4. ~ToDrain(k)
    BY <2>2 DEF ToDrain, Has
  <2>5. b >= SkipAt(call, k) => kv[<<call.no, k, b>>] = <<call.no, k, b>>
    BY <1>1, <2>1, <2>2, <2>4 DEF IInv, FromHostInv, Landed, ToDrain
  <2>6. <<call.no, k, b>> \in DOMAIN kv
    BY <1>1, <2>1, <2>2, <2>3, ChunkBlocks DEF IInv
  <2>7. k = 0 /\ b < call.skip => kv[<<call.no, k, b>>] = Stale
    BY <1>1, <2>1, <2>6 DEF IInv, FromHostInv, Untouched
  <2> QED BY <2>3, <2>5, <2>7 DEF SkipAt
<1> QED BY <1>1, Invariance, PTL

-----------------------------------------------------------------------------

(***************************************************************************)
(* The layouts.  What the code finds out about the registered tensors when *)
(* a worker starts does not depend on the transfers; what the flattening   *)
(* of their tuples computes is shown by the least counterexample.          *)
(***************************************************************************)

\* A nonempty set of naturals has a least element.
LEMMA LeastNat ==
  ASSUME NEW T, T \subseteq Nat, T # {}
  PROVE  \E x \in T : \A y \in T : ~(y < x)
<1>1. IsWellFoundedOn(OpToRel(<, Nat), Nat)
  BY NatLessThanWellFounded
<1>2. PICK x \in T : \A y \in T : ~(<<y, x>> \in OpToRel(<, Nat))
  BY <1>1, WFMin
<1>3. \A y \in T : <<y, x>> \in OpToRel(<, Nat) <=> y < x
  BY DEF OpToRel
<1> QED BY <1>2, <1>3

\* g flattens the first n sequences of s.
IsFlat(g, n, s) ==
  g = [k \in 1 .. n |-> IF k = 1 THEN s[k] ELSE g[k - 1] \o s[k]]

\* The recursion of FlattenSeq has a solution.
LEMMA FlatExists ==
  ASSUME NEW N \in Nat, NEW s
  PROVE  \E g : IsFlat(g, N, s)
<1> DEFINE T == {n \in Nat : ~ \E g : IsFlat(g, n, s)}
<1> SUFFICES ASSUME T # {} PROVE FALSE
  OBVIOUS
<1>1. PICK n \in T : \A y \in T : ~(y < n)
  BY LeastNat
<1>2. n \in Nat /\ ~ \E g : IsFlat(g, n, s)
  BY <1>1
<1>3. CASE n = 0
  <2> DEFINE g == [k \in 1 .. n |-> s[k]]
  <2>1. 1 .. n = {}
    BY <1>3
  <2>2. IsFlat(g, n, s)
    BY <2>1 DEF IsFlat
  <2> QED BY <1>2, <2>2
<1>4. CASE n # 0
  <2>1. n - 1 \in Nat /\ n - 1 < n
    BY <1>2, <1>4
  <2>2. PICK g : IsFlat(g, n - 1, s)
    BY <1>1, <2>1
  <2> DEFINE last == IF n = 1 THEN s[n] ELSE g[n - 1] \o s[n]
  <2> HIDE DEF last
  <2> DEFINE f == [k \in 1 .. n |-> IF k = n THEN last ELSE g[k]]
  <2>3. \A k \in 1 .. (n - 1) : g[k] = IF k = 1 THEN s[k] ELSE g[k - 1] \o s[k]
    BY <2>2 DEF IsFlat
  <2>4. \A k \in 1 .. n : f[k] = IF k = 1 THEN s[k] ELSE f[k - 1] \o s[k]
    <3> TAKE k \in 1 .. n
    <3>1. CASE k = n
      <4>1. f[k] = last /\ (k # 1 => f[k - 1] = g[n - 1])
        BY <1>2, <1>4, <3>1
      <4> HIDE DEF f
      <4> QED BY <3>1, <4>1 DEF last
    <3>2. CASE k # n
      <4>1. k \in 1 .. (n - 1) /\ f[k] = g[k] /\ (k # 1 => f[k - 1] = g[k - 1])
        BY <1>2, <3>2
      <4> HIDE DEF f
      <4> QED BY <2>3, <4>1
    <3> QED BY <3>1, <3>2
  <2>5. f = [k \in 1 .. n |-> f[k]]
    OBVIOUS
  <2> HIDE DEF f
  <2>6. f = [k \in 1 .. n |-> IF k = 1 THEN s[k] ELSE f[k - 1] \o s[k]]
    BY <2>4, <2>5
  <2>7. IsFlat(f, n, s)
    BY <2>6 DEF IsFlat
  <2> QED BY <1>2, <2>7
<1> QED BY <1>3, <1>4

\* What FlattenSeq makes of nonempty sequences over U: a nonempty sequence
\* over U with the same first element.
LEMMA Flattened ==
  ASSUME NEW U, NEW N \in Nat \ {0}, NEW s, s = [l \in 1 .. N |-> s[l]],
         \A l \in 1 .. N : s[l] \in Seq(U) /\ Len(s[l]) # 0
  PROVE  /\ FlattenSeq(s) \in Seq(U)
         /\ Len(FlattenSeq(s)) # 0
         /\ FlattenSeq(s)[1] = s[1][1]
<1> DEFINE it == CHOOSE it : it = [k \in 1 .. N |->
                   IF k = 1 THEN s[k] ELSE it[k - 1] \o s[k]]
           Good(x) == x \in Seq(U) /\ Len(x) # 0 /\ x[1] = s[1][1]
           T == {k \in 1 .. N : ~Good(it[k])}
<1>1. Len(s) = N
  <2>1. s \in Seq(Seq(U))
    BY IsASeq
  <2>2. DOMAIN s = 1 .. N
    OBVIOUS
  <2>3. Len(s) \in Nat /\ DOMAIN s = 1 .. Len(s)
    BY <2>1
  <2> QED BY <2>2, <2>3
<1>2. FlattenSeq(s) = it[N]
  BY <1>1 DEF FlattenSeq
<1>3. \E g : IsFlat(g, N, s)
  BY FlatExists
<1>4. IsFlat(it, N, s)
  BY <1>3 DEF IsFlat
<1> HIDE DEF it
<1>5. \A k \in 1 .. N : it[k] = IF k = 1 THEN s[k] ELSE it[k - 1] \o s[k]
  BY <1>4 DEF IsFlat
<1>6. T = {}
  <2> SUFFICES ASSUME T # {} PROVE FALSE
    OBVIOUS
  <2>1. PICK k \in T : \A y \in T : ~(y < k)
    <3>1. T \subseteq Nat
      OBVIOUS
    <3> HIDE DEF T
    <3> QED BY <3>1, LeastNat
  <2>2. k \in 1 .. N /\ ~Good(it[k])
    BY <2>1
  <2>3. 1 \in 1 .. N
    OBVIOUS
  <2>4. k # 1
    BY <1>5, <2>2, <2>3
  <2>5. k - 1 \in 1 .. N /\ k - 1 < k
    BY <2>2, <2>4
  <2>6. Good(it[k - 1])
    BY <2>1, <2>5
  <2>7. it[k] = it[k - 1] \o s[k] /\ s[k] \in Seq(U)
    BY <1>5, <2>2, <2>4
  <2>8. Good(it[k - 1] \o s[k])
    <3>1. \A x, y \in Seq(U) : Len(x) # 0 =>
            x \o y \in Seq(U) /\ Len(x \o y) # 0 /\ (x \o y)[1] = x[1]
      BY ConcatProperties
    <3> QED BY <2>6, <2>7, <3>1
  <2> QED BY <2>2, <2>7, <2>8
<1>7. N \in 1 .. N
  OBVIOUS
<1>8. Good(it[N])
  BY <1>6, <1>7
<1> QED BY <1>2, <1>8

Tensors == {t \in [shape : Seq(Nat), axis : {1, 2}] : Len(t.shape) >= 2}

\* The backend of a layer.
LEMMA LayerCases ==
  ASSUME NEW m, NEW layer \in Layers(m)
  PROVE  \/ \E b, h, d \in AxisSizes : layer = <<Tensor(<<m, 2, b, h, d>>, 1)>>
         \/ \E b, h, d \in AxisSizes : layer = <<Tensor(<<2, m, b, h, d>>, 2)>>
         \/ \E b, h, d, e \in AxisSizes :
              layer = <<Tensor(<<m, b, h, d>>, 1), Tensor(<<m, b, h, e>>, 1)>>
         \/ \E b, d \in AxisSizes : layer = <<Tensor(<<m, b, d>>, 1)>>
<1> DEFINE FirstFA == {<<Tensor(<<m, 2, b, h, d>>, 1)>> : b, h, d \in AxisSizes}
           SecondFA == {<<Tensor(<<2, m, b, h, d>>, 2)>> : b, h, d \in AxisSizes}
           Split == {<<Tensor(<<m, b, h, d>>, 1), Tensor(<<m, b, h, e>>, 1)>> :
                       b, h, d, e \in AxisSizes}
           Latent == {<<Tensor(<<m, b, d>>, 1)>> : b, d \in AxisSizes}
<1>0. layer \in FirstFA \cup SecondFA \cup Split \cup Latent
  BY SMT DEF Layers, Tensor
<1>1. CASE layer \in FirstFA
  <2>1. \E b, h, d \in AxisSizes : layer = <<Tensor(<<m, 2, b, h, d>>, 1)>>
    BY <1>1 DEF Tensor
  <2> QED BY <2>1
<1>2. CASE layer \in SecondFA
  <2>1. \E b, h, d \in AxisSizes : layer = <<Tensor(<<2, m, b, h, d>>, 2)>>
    BY <1>2 DEF Tensor
  <2> QED BY <2>1
<1>3. CASE layer \in Split
  <2>1. \E b, h, d, e \in AxisSizes :
              layer = <<Tensor(<<m, b, h, d>>, 1), Tensor(<<m, b, h, e>>, 1)>>
    BY <1>3 DEF Tensor
  <2> QED BY <2>1
<1>4. CASE layer \in Latent
  <2>1. \E b, d \in AxisSizes : layer = <<Tensor(<<m, b, d>>, 1)>>
    BY <1>4 DEF Tensor
  <2> QED BY <2>1
<1> HIDE DEF FirstFA, SecondFA, Split, Latent
<1> QED BY <1>0, <1>1, <1>2, <1>3, <1>4

\* A layer has tensors, each with a shape and all with one block axis.
LEMMA LayersTyped ==
  ASSUME NEW m \in Nat, NEW layer \in Layers(m)
  PROVE  /\ layer \in Seq(Tensors) /\ Len(layer) # 0
         /\ \A j \in 1 .. Len(layer) : layer[j].axis = layer[1].axis
<1>0. AxisSizes \subseteq Nat
  BY LayoutAssumption
<1>1. CASE \E b, h, d \in AxisSizes : layer = <<Tensor(<<m, 2, b, h, d>>, 1)>>
  <2>1. PICK b, h, d \in AxisSizes : layer = <<Tensor(<<m, 2, b, h, d>>, 1)>>
    BY <1>1
  <2> DEFINE shape == <<m, 2, b, h, d>>
             t == Tensor(shape, 1)
  <2>2. shape \in Seq(Nat) /\ Len(shape) = 5 /\ layer = <<t>>
    BY <1>0, <2>1
  <2> HIDE DEF shape
  <2>3. Len(shape) >= 2 /\ t.axis \in {1, 2}
    BY <2>2 DEF Tensor
  <2>4. t \in Tensors
    BY <2>2, <2>3 DEF Tensors, Tensor
  <2> HIDE DEF t
  <2>5. Len(layer) = 1
    BY <2>2
  <2> QED BY <2>2, <2>4, <2>5
<1>2. CASE \E b, h, d \in AxisSizes : layer = <<Tensor(<<2, m, b, h, d>>, 2)>>
  <2>1. PICK b, h, d \in AxisSizes : layer = <<Tensor(<<2, m, b, h, d>>, 2)>>
    BY <1>2
  <2> DEFINE shape == <<2, m, b, h, d>>
             t == Tensor(shape, 2)
  <2>2. shape \in Seq(Nat) /\ Len(shape) = 5 /\ layer = <<t>>
    BY <1>0, <2>1
  <2> HIDE DEF shape
  <2>3. Len(shape) >= 2 /\ t.axis \in {1, 2}
    BY <2>2 DEF Tensor
  <2>4. t \in Tensors
    BY <2>2, <2>3 DEF Tensors, Tensor
  <2> HIDE DEF t
  <2>5. Len(layer) = 1
    BY <2>2
  <2> QED BY <2>2, <2>4, <2>5
<1>3. CASE \E b, h, d, e \in AxisSizes :
             layer = <<Tensor(<<m, b, h, d>>, 1), Tensor(<<m, b, h, e>>, 1)>>
  <2>1. PICK b, h, d, e \in AxisSizes :
          layer = <<Tensor(<<m, b, h, d>>, 1), Tensor(<<m, b, h, e>>, 1)>>
    BY <1>3
  <2> DEFINE k_shape == <<m, b, h, d>>
             v_shape == <<m, b, h, e>>
             k == Tensor(k_shape, 1)
             v == Tensor(v_shape, 1)
  <2>2. /\ k_shape \in Seq(Nat) /\ Len(k_shape) = 4
        /\ v_shape \in Seq(Nat) /\ Len(v_shape) = 4
        /\ layer = <<k, v>>
    BY <1>0, <2>1
  <2> HIDE DEF k_shape, v_shape
  <2>3. Len(k_shape) >= 2 /\ Len(v_shape) >= 2
    BY <2>2
  <2>4. k \in Tensors /\ v \in Tensors
    BY <2>2, <2>3 DEF Tensors, Tensor
  <2>5. k.axis = 1 /\ v.axis = 1
    BY DEF Tensor
  <2> HIDE DEF k, v
  <2>6. Len(layer) = 2 /\ layer[1] = k /\ layer[2] = v
    BY <2>2
  <2>7. 1 .. Len(layer) = {1, 2}
    BY <2>6
  <2> QED BY <2>2, <2>4, <2>5, <2>6, <2>7
<1>4. CASE \E b, d \in AxisSizes : layer = <<Tensor(<<m, b, d>>, 1)>>
  <2>1. PICK b, d \in AxisSizes : layer = <<Tensor(<<m, b, d>>, 1)>>
    BY <1>4
  <2> DEFINE shape == <<m, b, d>>
             t == Tensor(shape, 1)
  <2>2. shape \in Seq(Nat) /\ Len(shape) = 3 /\ layer = <<t>>
    BY <1>0, <2>1
  <2> HIDE DEF shape
  <2>3. Len(shape) >= 2 /\ t.axis \in {1, 2}
    BY <2>2 DEF Tensor
  <2>4. t \in Tensors
    BY <2>2, <2>3 DEF Tensors, Tensor
  <2> HIDE DEF t
  <2>5. Len(layer) = 1
    BY <2>2
  <2> QED BY <2>2, <2>4, <2>5
<1> QED BY <1>1, <1>2, <1>3, <1>4, LayerCases

\* The block axis of all tensors of a layer is the second exactly when the
\* shape of its first tensor is taken for FA_KV_FIRST.
LEMMA DetectsAxis ==
  ASSUME NEW n \in BlockCounts, NEW p \in Paddings, NEW nb \in {n, None},
         NEW layer \in Layers(n + p), detect(layer[1].shape, nb) # "unsupported"
  PROVE  \A t \in {layer[j] : j \in 1 .. Len(layer)} :
           t.axis = IF detect(layer[1].shape, nb) = "FA_KV_FIRST" THEN 2 ELSE 1
<1> DEFINE m == n + p
<1>0. m \in Nat /\ m # 2 /\ m # None /\ n # None /\ (nb # None => nb = n)
  BY LayoutAssumption DEF None
<1> HIDE DEF m
<1>a. layer \in Layers(m)
  BY DEF m
<1>1. CASE \E b, h, d \in AxisSizes : layer = <<Tensor(<<m, 2, b, h, d>>, 1)>>
  <2>1. PICK b, h, d \in AxisSizes : layer = <<Tensor(<<m, 2, b, h, d>>, 1)>>
    BY <1>1
  <2> DEFINE shape == <<m, 2, b, h, d>>
  <2>2. shape[1] # 2 /\ Len(shape) = 5
    BY <1>0
  <2>3. /\ Len(layer) = 1 /\ layer[1].shape = shape /\ layer[1].axis = 1
    BY <2>1 DEF Tensor
  <2> HIDE DEF shape
  <2>4. detect(shape, nb) # "FA_KV_FIRST"
    BY <2>2 DEF detect
  <2> QED BY <2>3, <2>4
<1>2. CASE \E b, h, d \in AxisSizes : layer = <<Tensor(<<2, m, b, h, d>>, 2)>>
  <2>1. PICK b, h, d \in AxisSizes : layer = <<Tensor(<<2, m, b, h, d>>, 2)>>
    BY <1>2
  <2> DEFINE shape == <<2, m, b, h, d>>
  <2>2. shape[1] = 2 /\ shape[2] # 2 /\ Len(shape) = 5
    BY <1>0
  <2>3. /\ Len(layer) = 1 /\ layer[1].shape = shape /\ layer[1].axis = 2
    BY <2>1 DEF Tensor
  <2> HIDE DEF shape
  <2>4. ~BlockFirst(shape, nb)
    BY <2>2 DEF BlockFirst
  <2>5. detect(shape, nb) = "FA_KV_FIRST"
    BY <2>2, <2>4 DEF detect
  <2> QED BY <2>3, <2>5
<1>3. CASE \E b, h, d, e \in AxisSizes :
             layer = <<Tensor(<<m, b, h, d>>, 1), Tensor(<<m, b, h, e>>, 1)>>
  <2>1. PICK b, h, d, e \in AxisSizes :
          layer = <<Tensor(<<m, b, h, d>>, 1), Tensor(<<m, b, h, e>>, 1)>>
    BY <1>3
  <2> DEFINE shape == <<m, b, h, d>>
  <2>2. Len(shape) = 4
    OBVIOUS
  <2>3. /\ Len(layer) = 2 /\ layer[1].shape = shape
        /\ layer[1].axis = 1 /\ layer[2].axis = 1
    BY <2>1 DEF Tensor
  <2> HIDE DEF shape
  <2>4. detect(shape, nb) # "FA_KV_FIRST"
    BY <2>2 DEF detect, BlockFirst
  <2> QED BY <2>3, <2>4
<1>4. CASE \E b, d \in AxisSizes : layer = <<Tensor(<<m, b, d>>, 1)>>
  <2>1. PICK b, d \in AxisSizes : layer = <<Tensor(<<m, b, d>>, 1)>>
    BY <1>4
  <2> DEFINE shape == <<m, b, d>>
  <2>2. Len(shape) = 3
    OBVIOUS
  <2>3. /\ Len(layer) = 1 /\ layer[1].shape = shape /\ layer[1].axis = 1
    BY <2>1 DEF Tensor
  <2> HIDE DEF shape
  <2>4. detect(shape, nb) # "FA_KV_FIRST"
    BY <2>2 DEF detect, BlockFirst
  <2> QED BY <2>3, <2>4
<1> QED BY <1>a, <1>1, <1>2, <1>3, <1>4, LayerCases

\* movedim(1, 0) swaps the first two axes and takes the block axis along.
LEMMA MoveDimFacts ==
  ASSUME NEW t \in Tensors
  PROVE  MoveDim(t) \in Tensors /\ MoveDim(t).axis = 3 - t.axis
<1> DEFINE s == t.shape
           front == <<s[2], s[1]>>
           back == SubSeq(s, 3, Len(s))
<1>1. s \in Seq(Nat) /\ Len(s) >= 2 /\ Len(s) \in Nat /\ t.axis \in {1, 2}
  BY DEF Tensors
<1> HIDE DEF s
<1>2. front \in Seq(Nat) /\ Len(front) = 2
  <2>1. s[1] \in Nat /\ s[2] \in Nat
    BY <1>1
  <2> QED BY <2>1
<1>3. back \in Seq(Nat)
  <2>1. \A k \in 3 .. Len(s) : s[k] \in Nat
    BY <1>1
  <2> QED BY <1>1, <2>1, SubSeqProperties
<1> HIDE DEF front, back
<1>4. front \o back \in Seq(Nat) /\ Len(front \o back) >= 2
  <2>1. Len(back) \in Nat
    BY <1>3
  <2>2. front \o back \in Seq(Nat) /\ Len(front \o back) = Len(front) + Len(back)
    BY <1>2, <1>3, ConcatProperties
  <2> QED BY <1>2, <2>1, <2>2
<1>5. MoveDim(t) = [shape |-> front \o back, axis |-> 3 - t.axis]
  <2>1. (CASE t.axis = 1 -> 2 [] t.axis = 2 -> 1 [] OTHER -> t.axis) = 3 - t.axis
    BY <1>1
  <2> QED BY <2>1 DEF MoveDim, Tensor, front, back, s
<1>6. 3 - t.axis \in {1, 2}
  BY <1>1
<1> QED BY <1>4, <1>5, <1>6 DEF Tensors

\* The views of a registration that succeeds, and the axis they begin with.
LEMMA ViewsFacts ==
  ASSUME NEW r \in Registered, SameAxis(r)
  PROVE  \A v \in DOMAIN Views(r) : Views(r)[v].axis = 1
<1>1. PICK n \in BlockCounts, p \in Paddings :
        \E layers \in [1 .. NumLayers -> Layers(n + p)], nb \in {n, None} :
          r = [caches |-> layers, num_blocks |-> nb]
  BY DEF Registered, Registrations
<1>2. PICK s \in [1 .. NumLayers -> Layers(n + p)], nb \in {n, None} :
        r = [caches |-> s, num_blocks |-> nb]
  BY <1>1
<1> DEFINE first == s[1][1]
           U == {t \in Tensors : t.axis = first.axis}
           F == FlattenSeq(s)
<1>3. /\ r.caches = s /\ r.num_blocks = nb
      /\ NumLayers \in Nat \ {0} /\ 1 \in 1 .. NumLayers
      /\ \A l \in 1 .. NumLayers : s[l] \in Layers(n + p)
  BY <1>2, LayoutAssumption
<1>4. ASSUME NEW l \in 1 .. NumLayers
      PROVE  /\ s[l] \in Seq(Tensors) /\ Len(s[l]) # 0
             /\ \A j \in 1 .. Len(s[l]) : s[l][j].axis = s[l][1].axis
  <2>1. n + p \in Nat /\ s[l] \in Layers(n + p)
    BY <1>3, LayoutAssumption
  <2> QED BY <2>1, LayersTyped
<1>5. ASSUME NEW l \in 1 .. NumLayers
      PROVE  s[l] \in Seq(U) /\ Len(s[l]) # 0
  <2>1. s[l][1].axis = first.axis
    BY <1>2, <1>3 DEF SameAxis
  <2>2. Len(s[l]) \in Nat /\ \A j \in 1 .. Len(s[l]) : s[l][j] \in U
    BY <1>4, <2>1
  <2>3. s[l] = [j \in 1 .. Len(s[l]) |-> s[l][j]]
    BY <1>4
  <2> HIDE DEF U
  <2>4. s[l] \in Seq(U)
    BY <2>2, <2>3, IsASeq
  <2> QED BY <1>4, <2>4
<1>6. detect(first.shape, nb) # "unsupported"
  BY <1>3 DEF Registered
<1>7. first.axis = IF detect(first.shape, nb) = "FA_KV_FIRST" THEN 2 ELSE 1
  <2>1. 1 \in 1 .. Len(s[1])
    BY <1>3, <1>4
  <2> QED BY <1>3, <1>6, <2>1, DetectsAxis
<1>8. F \in Seq(U) /\ Len(F) # 0 /\ F[1] = first
  <2>1. s = [l \in 1 .. NumLayers |-> s[l]]
    BY <1>2
  <2> HIDE DEF U
  <2> QED BY <1>3, <1>5, <2>1, Flattened
<1>9. Views(r) = normalize(F, nb)
  BY <1>3 DEF Views
<1> HIDE DEF F, first
<1>10. /\ Len(F) \in Nat
       /\ DOMAIN F = 1 .. Len(F)
       /\ \A v \in 1 .. Len(F) : F[v] \in Tensors /\ F[v].axis = first.axis
  BY <1>8
<1>11. CASE detect(first.shape, nb) = "FA_KV_FIRST"
  <2>1. Views(r) = [v \in 1 .. Len(F) |-> MoveDim(F[v])]
    BY <1>8, <1>9, <1>10, <1>11 DEF normalize
  <2>2. \A v \in 1 .. Len(F) : MoveDim(F[v]).axis = 1
    <3> TAKE v \in 1 .. Len(F)
    <3>1. F[v] \in Tensors /\ F[v].axis = 2
      BY <1>7, <1>10, <1>11
    <3>2. MoveDim(F[v]).axis = 3 - F[v].axis
      BY <3>1, MoveDimFacts
    <3> QED BY <3>1, <3>2
  <2> QED BY <2>1, <2>2
<1>12. CASE detect(first.shape, nb) # "FA_KV_FIRST"
  <2>1. Views(r) = F
    BY <1>8, <1>9, <1>12 DEF normalize
  <2> QED BY <1>7, <1>10, <1>12, <2>1
<1> QED BY <1>11, <1>12

\* The first axis of every view is the block axis, for any shapes.
LEMMA AxesFound == BlocksAreFound
BY ViewsFacts DEF BlocksAreFound

\* A worker copies whole blocks along the block axis its backend meant, for
\* any number of layers and blocks, any padding and any axis sizes, which may
\* differ from layer to layer.
THEOREM AxesAreBlocks == Spec => []BlocksAreFound
BY AxesFound, PTL
=============================================================================
