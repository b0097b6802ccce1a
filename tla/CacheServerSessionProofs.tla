---------------------- MODULE CacheServerSessionProofs ----------------------
(***************************************************************************)
(* What the connectors can rely on when requests run to their end: without *)
(* aborts and without timeouts every RETRIEVE finds and sends its chunks,  *)
(* and everything is given back.                                           *)
(***************************************************************************)
EXTENDS CacheServerProofs

\* Requests are not aborted, and lookups are awaited.
Patient == ~Aborts /\ Timeouts = {}

(***************************************************************************)
(* The session of a request.                                               *)
(***************************************************************************)
HandlersOf(r) == {h \in handlers : h.rid = r}

\* The keys of the chunks the connector found in vLLM, and of those it loads.
Locals(r) == {LookupKeys(r)[i] : i \in 1 .. (cl[r].vllm * WorldSize)}
Loads(r) == {LookupKeys(r)[i] : i \in (cl[r].vllm * WorldSize + 1) .. (cl[r].lm * WorldSize)}

\* A session begins with the keys a FREE will take.
LocalsHeld(r) ==
  /\ cl[r].vllm * WorldSize <= Len(held[r])
  /\ \A i \in 1 .. (cl[r].vllm * WorldSize) : held[r][i] = LookupKeys(r)[i]

\* The tracker and what is held for it.
TrackerInv(r) ==
  /\ cl[r].pc \in {"resolved", "load", "loading", "running"} => hits[r].state = "resolved"
  /\ cl[r].pc = "finished" => ~Ahead(r)
  /\ cl[r].pc \in {"looking", "resolved"} /\ hits[r].state = "resolved" =>
       /\ Begins(held[r], LookupKeys(r))
       /\ Len(held[r]) = hits[r].l1 + hits[r].l2
  /\ cl[r].pc = "resolved" => cl[r].lm * WorldSize <= Len(held[r])
  /\ cl[r].pc = "load" => Loads(r) \subseteq Range(held[r])
  /\ lost[r] = {}

\* When a handler may run, ...
Fits(h, r) ==
  /\ h.kind = "FREE" => cl[r].pc \in {"load", "loading", "running", "finished"}
  /\ h.kind = "RETRIEVE" => cl[r].pc \in {"loading", "running", "finished"}
  /\ h.kind = "RETRIEVE" /\ h.pc \in {"start", "send"} => cl[r].pc = "loading"
  /\ h.kind = "STORE" => cl[r].pc \in {"running", "finished"}
  /\ h.kind = "END" => cl[r].pc = "finished"

\* ... and what it finds: the keys a FREE takes are not those of a RETRIEVE,
\* which are held until they have been sent.
Finds(h, r) ==
  /\ h.kind = "FREE" /\ cl[r].pc \in {"load", "loading"} =>
       /\ h.pc = "start" => h.n = cl[r].vllm /\ LocalsHeld(r)
       /\ h.pc = "release" => Range(h.keys) \subseteq Locals(r)
  /\ h.kind = "RETRIEVE" /\ cl[r].pc = "loading" =>
       /\ Range(h.keys) \subseteq Loads(r)
       /\ h.pc \in {"start", "send"} => Range(h.keys) \subseteq Range(held[r])
  /\ h.kind = "END" /\ h.pc \in {"finish", "pop"} => held[r] = <<>>

\* The handlers of a request do not get into each other's way.
Apart2(h, g) ==
  /\ h.kind = "FREE" /\ g.kind = "FREE" => h = g
  /\ h.kind = "RETRIEVE" /\ g.kind = "RETRIEVE" /\ h # g => Range(h.keys) \cap Range(g.keys) = {}

\* A finished request is still to be ended, or it left nothing.
Ended(r) ==
  \/ \E h \in HandlersOf(r) : h.kind = "END"
  \/ hits[r] = Absent /\ held[r] = <<>>

Session(r) ==
  /\ TrackerInv(r)
  /\ \A h \in HandlersOf(r) : Fits(h, r) /\ Finds(h, r)
  /\ \A h, g \in HandlersOf(r) : Apart2(h, g)
  /\ cl[r].pc = "finished" => Ended(r)

SessionInv == \A r \in Requests : Session(r)

\* The slices a RETRIEVE is about to send are those of its chunks.
SendInv == \A h \in handlers : At(h, "RETRIEVE", "send") => Slices(h.objs, h.keys)

-----------------------------------------------------------------------------

(***************************************************************************)
(* Keys and lists.                                                         *)
(***************************************************************************)

\* Multiplication by a natural number keeps the order.
LEMMA Products ==
  ASSUME NEW a \in Nat, NEW b \in Nat, a <= b, NEW w \in Nat
  PROVE  a * w \in Nat /\ b * w \in Nat /\ a * w <= b * w
<1>1. b - a \in Nat
  OBVIOUS
<1>2. (b - a) * w \in Nat /\ b * w = a * w + (b - a) * w /\ a * w \in Nat
  BY <1>1
<1> DEFINE x == (b - a) * w
           y == a * w
           z == b * w
<1>3. x \in Nat /\ z = y + x /\ y \in Nat
  BY <1>2
<1> HIDE DEF x, y, z
<1>4. z \in Nat /\ y <= z
  BY <1>3
<1> QED BY <1>3, <1>4 DEF y, z

\* The key of a chunk and a rank among the keys of a lookup.
LEMMA KeyIndex ==
  ASSUME NEW r \in Requests, NEW rank \in Ranks, NEW c \in Nat, c < Len(Prompt[r])
  PROVE  /\ c * WorldSize + rank + 1 \in 1 .. (Len(Prompt[r]) * WorldSize)
         /\ LookupKeys(r)[c * WorldSize + rank + 1] = <<Prompt[r][c + 1], rank>>
<1> DEFINE w == WorldSize
           L == Len(Prompt[r])
           n == c * w + rank
<1>1. w \in Nat \ {0} /\ L \in Nat /\ rank \in 0 .. (w - 1) /\ c + 1 <= L
  BY LookupKey, ServerAssumption DEF Ranks
<1>2. /\ \A i \in 1 .. (L * w) :
           LookupKeys(r)[i] = <<Prompt[r][(i - 1) \div w + 1], (i - 1) % w>>
  BY LookupKey
<1> HIDE DEF L
<1>3. c * w \in Nat /\ (c + 1) * w = c * w + w /\ (c + 1) * w <= L * w /\ L * w \in Nat
  <2>1. c + 1 \in Nat /\ L - (c + 1) \in Nat
    BY <1>1
  <2>2. (L - (c + 1)) * w \in Nat /\ (c + 1) * w \in Nat /\ L * w = (c + 1) * w + (L - (c + 1)) * w
    BY <1>1, <2>1
  <2>3. c * w \in Nat /\ (c + 1) * w = c * w + w /\ L * w \in Nat
    BY <1>1
  <2> QED BY <2>2, <2>3
<1>4. n \in Nat /\ n + 1 \in 1 .. (L * w)
  BY <1>1, <1>3
<1>5. n \div w \in Nat /\ n % w \in 0 .. (w - 1) /\ n = w * (n \div w) + (n % w)
  BY <1>1, <1>4, Division
<1> DEFINE q == n \div w
           m == n % w
<1>6. q \in Nat /\ m \in 0 .. (w - 1) /\ c * w + rank = w * q + m
  BY <1>5
<1> HIDE DEF q, m, w
<1>7. q = c
  <2>1. ~(q <= c - 1)
    <3> SUFFICES ASSUME q <= c - 1 PROVE FALSE
      OBVIOUS
    <3>1. c - 1 - q \in Nat
      BY <1>6
    <3>2. (c - 1 - q) * w \in Nat /\ c * w = w * q + w + (c - 1 - q) * w
      BY <1>1, <1>6, <3>1
    <3> QED BY <1>1, <1>3, <1>6, <3>2
  <2>2. ~(q >= c + 1)
    <3> SUFFICES ASSUME q >= c + 1 PROVE FALSE
      OBVIOUS
    <3>1. q - c - 1 \in Nat
      BY <1>6
    <3>2. (q - c - 1) * w \in Nat /\ w * q = c * w + w + (q - c - 1) * w
      BY <1>1, <1>6, <3>1
    <3> QED BY <1>1, <1>3, <1>6, <3>2
  <2> QED BY <1>6, <2>1, <2>2
<1>8. m = rank
  <2>1. w * q = c * w
    BY <1>1, <1>7
  <2> QED BY <1>1, <1>3, <1>6, <2>1
<1>9. (n + 1) - 1 = n
  BY <1>4
<1>10. LookupKeys(r)[n + 1] = <<Prompt[r][q + 1], m>>
  BY <1>2, <1>4, <1>9 DEF q, m, w
<1> QED BY <1>4, <1>7, <1>8, <1>10 DEF w, L

\* What the head of a list keeps when none of it is taken out.
LEMMA SelectedBegins ==
  ASSUME NEW U, NEW s \in Seq(U), NEW S, NEW m \in 0 .. Len(s), \A i \in 1 .. m : s[i] \in S
  PROVE  m <= Len(Selected(s, S)) /\ \A i \in 1 .. m : Selected(s, S)[i] = s[i]
<1>0. PICK h : Selecting(h, s, S)
  BY SelectedRecursion
<1>1. /\ Selected(s, S) = h[Len(s)]
      /\ h[0] = <<>>
      /\ \A i \in 1 .. Len(s) :
           h[i] = IF s[i] \in S THEN Append(h[i - 1], s[i]) ELSE h[i - 1]
  BY <1>0 DEF Selecting
<1> DEFINE Ok(i) ==
      /\ h[i] \in Seq(U)
      /\ i <= m => Len(h[i]) = i
      /\ i >= m => Len(h[i]) >= m
      /\ \A j \in 1 .. m : j <= i => h[i][j] = s[j]
    T == {i \in 0 .. Len(s) : ~Ok(i)}
<1>2. Len(s) \in Nat /\ m \in Nat /\ m <= Len(s) /\ \A i \in 1 .. Len(s) : s[i] \in U
  OBVIOUS
<1>3. T = {}
  <2> SUFFICES ASSUME T # {} PROVE FALSE
    OBVIOUS
  <2>1. T \subseteq Nat
    BY <1>2
  <2>2. PICK k \in T : \A y \in T : ~(y < k)
    BY <2>1, LeastNat
  <2>3. k \in 0 .. Len(s) /\ ~Ok(k)
    BY <2>2
  <2>4. CASE k = 0
    <3> DEFINE e == <<>>
    <3>1. e \in Seq(U) /\ Len(e) = 0 /\ h[k] = e
      BY <1>1, <2>4
    <3> HIDE DEF e
    <3>2. \A j \in 1 .. m : ~(j <= k)
      BY <1>2, <2>4
    <3>3. k <= m /\ (k >= m => m = 0)
      BY <1>2, <2>4
    <3> QED BY <2>3, <2>4, <3>1, <3>2, <3>3
  <2>5. CASE k # 0
    <3>1. k - 1 \in 0 .. Len(s) /\ k - 1 < k /\ k \in 1 .. Len(s)
      BY <1>2, <2>3, <2>5
    <3>2. Ok(k - 1)
      BY <2>2, <3>1
    <3>3. h[k] = IF s[k] \in S THEN Append(h[k - 1], s[k]) ELSE h[k - 1]
      BY <1>1, <3>1
    <3> DEFINE t == h[k - 1]
    <3>4. t \in Seq(U) /\ Len(t) \in Nat /\ s[k] \in U
      BY <1>2, <3>1, <3>2
    <3>5. CASE s[k] \notin S
      <4>1. h[k] = t
        BY <3>3, <3>5
      <4>2. ~(k <= m)
        BY <1>2, <3>1, <3>5
      <4>3. k - 1 >= m /\ \A j \in 1 .. m : j <= k - 1
        BY <1>2, <3>1, <4>2
      <4> QED BY <2>3, <3>2, <4>1, <4>2, <4>3
    <3>6. CASE s[k] \in S
      <4>1. h[k] = Append(t, s[k])
        BY <3>3, <3>6
      <4>2. /\ h[k] \in Seq(U) /\ Len(h[k]) = Len(t) + 1
            /\ \A j \in 1 .. Len(t) : h[k][j] = t[j]
            /\ h[k][Len(t) + 1] = s[k]
        BY <3>4, <4>1, AppendProperties
      <4>3. /\ k - 1 <= m => Len(t) = k - 1
            /\ k - 1 >= m => Len(t) >= m
            /\ \A j \in 1 .. m : j <= k - 1 => t[j] = s[j]
        BY <3>2
      <4> HIDE DEF t
      <4>4. k <= m => Len(h[k]) = k
        BY <1>2, <3>1, <4>2, <4>3
      <4>5. k >= m => Len(h[k]) >= m
        BY <1>2, <3>1, <3>4, <4>2, <4>3
      <4>6. ASSUME NEW j \in 1 .. m, j <= k PROVE h[k][j] = s[j]
        <5>1. CASE j <= k - 1
          <6>1. j \in 1 .. Len(t)
            BY <1>2, <3>1, <3>4, <4>3, <5>1
          <6> QED BY <4>2, <4>3, <5>1, <6>1
        <5>2. CASE j = k
          <6>1. Len(t) + 1 = k
            BY <1>2, <3>1, <4>3, <5>2
          <6> QED BY <4>2, <5>2, <6>1
        <5> QED BY <3>1, <4>6, <5>1, <5>2
      <4> QED BY <2>3, <4>2, <4>4, <4>5, <4>6
    <3> QED BY <3>5, <3>6
  <2> QED BY <2>4, <2>5
<1>4. Ok(Len(s))
  <2>1. Len(s) \in 0 .. Len(s)
    BY <1>2
  <2> HIDE DEF Ok
  <2> QED BY <1>3, <2>1
<1> QED BY <1>1, <1>2, <1>4

\* The keys of a transfer of a rank are among those the request loads.
LEMMA TransferKeys ==
  ASSUME NEW r \in Requests, NEW rank \in Ranks, cl[r].vllm \in Nat, cl[r].lm \in Nat,
         cl[r].vllm <= cl[r].lm, cl[r].lm <= Len(Prompt[r])
  PROVE  /\ Range(op_keys(r, rank, cl[r].vllm, cl[r].lm)) \subseteq Loads(r)
         /\ \A k \in Range(op_keys(r, rank, cl[r].vllm, cl[r].lm)) : k[2] = rank
<1> DEFINE s == cl[r].vllm
           e == cl[r].lm
           w == WorldSize
           K == op_keys(r, rank, s, e)
           L == Len(Prompt[r])
<1>1. /\ K \in Seq(Keys) /\ Len(K) = e - s
      /\ \A i \in 1 .. (e - s) : K[i] = <<Prompt[r][s + i], rank>>
  BY OpKeys
<1>2. /\ w \in Nat \ {0} /\ rank \in 0 .. (w - 1) /\ s \in Nat /\ e \in Nat /\ s <= e
      /\ L \in Nat /\ e <= L
  BY LookupKey, ServerAssumption DEF Ranks
<1>3. Loads(r) = {LookupKeys(r)[i] : i \in (s * w + 1) .. (e * w)}
  BY DEF Loads
<1>4. \A c \in Nat : c < L => LookupKeys(r)[c * w + rank + 1] = <<Prompt[r][c + 1], rank>>
  BY KeyIndex
<1> HIDE DEF K, s, e, w, L
<1>5. ASSUME NEW i \in 1 .. (e - s) PROVE K[i] \in Loads(r) /\ K[i][2] = rank
  <2> DEFINE c == s + i - 1
  <2>1. c \in Nat /\ c + 1 = s + i /\ c < L /\ s <= c /\ c + 1 <= e
    BY <1>2
  <2>2. K[i] = <<Prompt[r][c + 1], rank>>
    BY <1>1, <2>1
  <2> HIDE DEF c
  <2>3. K[i] = LookupKeys(r)[c * w + rank + 1]
    BY <1>4, <2>1, <2>2
  <2>4. c * w + rank + 1 \in (s * w + 1) .. (e * w)
    <3>1. c - s \in Nat /\ e - (c + 1) \in Nat
      BY <1>2, <2>1
    <3>2. /\ (c - s) * w \in Nat /\ c * w = s * w + (c - s) * w
          /\ (e - (c + 1)) * w \in Nat /\ e * w = c * w + w + (e - (c + 1)) * w
          /\ c * w \in Nat /\ s * w \in Nat /\ e * w \in Nat
      BY <1>2, <2>1, <3>1
    <3> DEFINE cw == c * w
               sw == s * w
               ew == e * w
               x == (c - s) * w
               y == (e - (c + 1)) * w
    <3>3. /\ x \in Nat /\ y \in Nat /\ cw \in Nat /\ sw \in Nat /\ ew \in Nat
          /\ cw = sw + x /\ ew = cw + w + y
      BY <3>2
    <3> HIDE DEF cw, sw, ew, x, y
    <3>4. cw + rank + 1 \in (sw + 1) .. ew
      BY <1>2, <3>3
    <3> QED BY <3>4 DEF cw, sw, ew
  <2>5. K[i] \in Loads(r)
    BY <1>3, <2>3, <2>4
  <2> QED BY <2>2, <2>5
<1>6. \A k \in Range(K) : \E i \in 1 .. (e - s) : K[i] = k
  BY <1>1, RangeOf
<1>7. \A k \in Range(K) : k \in Loads(r) /\ k[2] = rank
  BY <1>5, <1>6
<1> QED BY <1>7 DEF K, s, e

\* What a FREE takes, no RETRIEVE is about to send.
LEMMA LocalsApart ==
  ASSUME NEW r \in Requests, cl[r].vllm \in Nat, cl[r].lm \in Nat, cl[r].lm <= Len(Prompt[r]),
         cl[r].vllm <= cl[r].lm
  PROVE  Locals(r) \cap Loads(r) = {}
<1> DEFINE v == cl[r].vllm * WorldSize
           l == cl[r].lm * WorldSize
           N == Len(LookupKeys(r))
<1>1. /\ WorldSize \in Nat \ {0} /\ LookupKeys(r) \in Seq(Keys) /\ IsInjective(LookupKeys(r))
      /\ N = Len(Prompt[r]) * WorldSize /\ Len(Prompt[r]) \in Nat
  BY LookupKey, LookupKeysDiffer, ServerAssumption
<1>2. /\ v \in Nat /\ l \in Nat /\ N \in Nat /\ v <= l /\ l <= N
  <2>1. Len(Prompt[r]) \in Nat /\ WorldSize \in Nat
    BY <1>1
  <2>2. cl[r].vllm * WorldSize <= cl[r].lm * WorldSize /\ cl[r].vllm * WorldSize \in Nat /\ cl[r].lm * WorldSize \in Nat
    BY <2>1, Products
  <2>3. cl[r].lm * WorldSize <= Len(Prompt[r]) * WorldSize /\ Len(Prompt[r]) * WorldSize \in Nat
    BY <2>1, Products
  <2> QED BY <1>1, <2>2, <2>3
<1>3. Locals(r) = {LookupKeys(r)[i] : i \in 1 .. v} /\ Loads(r) = {LookupKeys(r)[i] : i \in (v + 1) .. l}
  BY DEF Locals, Loads
<1>4. \A i, j \in 1 .. N : LookupKeys(r)[i] = LookupKeys(r)[j] => i = j
  BY <1>1, InjectiveIs
<1> HIDE DEF v, l, N
<1>5. \A i \in 1 .. v, j \in (v + 1) .. l : i \in 1 .. N /\ j \in 1 .. N /\ i # j
  BY <1>2
<1> QED BY <1>3, <1>4, <1>5

-----------------------------------------------------------------------------

(***************************************************************************)
(* Frames.                                                                 *)
(***************************************************************************)

\* A request nothing happens to.
LEMMA OtherSession ==
  ASSUME NEW q \in Requests, Session(q), cl'[q] = cl[q], hits'[q] = hits[q], held'[q] = held[q],
         lost'[q] = lost[q], HandlersOf(q)' = HandlersOf(q), Ahead(q)' => Ahead(q)
  PROVE  Session(q)'
<1>1. Locals(q)' = Locals(q) /\ Loads(q)' = Loads(q) /\ (LocalsHeld(q)' <=> LocalsHeld(q))
  BY DEF Locals, Loads, LocalsHeld
<1>2. TrackerInv(q)'
  BY <1>1 DEF Session, TrackerInv
<1>3. \A h \in HandlersOf(q) : Fits(h, q)' /\ Finds(h, q)'
  BY <1>1 DEF Session, Fits, Finds
<1>4. Ended(q) => Ended(q)'
  BY DEF Ended
<1> QED BY <1>2, <1>3, <1>4 DEF Session

\* The connector of r sets its tracker to c and starts the handlers new.
ClientMove(r, c, new) ==
  /\ c \in TrackerRec /\ c.pc # "new"
  /\ cl' = [cl EXCEPT ![r] = c]
  /\ handlers' = handlers \cup new
  /\ \A g \in new : g.rid = r /\ (g.kind = "LOOKUP" => cl[r].pc = "new")
  /\ UNCHANGED <<hits, held, lost, jobs, pf>>

\* A step of a connector: the other sessions stay as they are.
LEMMA ClientSession ==
  ASSUME Inv, SessionInv, NEW r \in Requests, NEW c, NEW new, ClientMove(r, c, new)
  PROVE  /\ HandlersOf(r)' = HandlersOf(r) \cup new /\ (Ahead(r)' => Ahead(r)) /\ cl'[r] = c
         /\ UNCHANGED <<hits, held, lost>> /\ (Session(r)' => SessionInv')
<1>0. /\ c \in TrackerRec /\ c.pc # "new" /\ cl' = [cl EXCEPT ![r] = c]
      /\ handlers' = handlers \cup new /\ UNCHANGED <<hits, held, lost, jobs, pf>>
      /\ \A g \in new : g.rid = r /\ (g.kind = "LOOKUP" => cl[r].pc = "new")
  BY DEF ClientMove
<1>1. cl \in [Requests -> TrackerRec]
  BY DEF Inv, ProtoInv, TypeInv, ServerType
<1>2. cl'[r] = c /\ \A q \in Requests : q # r => cl'[q] = cl[q]
  BY <1>0, <1>1
<1>3. HandlersOf(r)' = HandlersOf(r) \cup new /\ \A q \in Requests : q # r => HandlersOf(q)' = HandlersOf(q)
  BY <1>0 DEF HandlersOf
<1>4. \A q \in Requests : Queued(q)' <=> Queued(q)
  BY <1>0 DEF Queued
<1>5. \A q \in Requests : LookedUp(q)' => LookedUp(q) \/ (q = r /\ cl[r].pc = "new")
  <2>1. \A q \in Requests : Handler("LOOKUP", q, 0).rid = q /\ Handler("LOOKUP", q, 0).kind = "LOOKUP"
    BY DEF Handler
  <2> QED BY <1>0, <2>1 DEF LookedUp
<1>6. \A q \in Requests : Ahead(q)' => Ahead(q)
  BY <1>0, <1>2, <1>4, <1>5 DEF Ahead
<1>7. \A q \in Requests : q # r => Session(q)'
  BY <1>0, <1>2, <1>3, <1>6, OtherSession DEF SessionInv
<1> QED BY <1>0, <1>2, <1>3, <1>6, <1>7 DEF SessionInv

\* A handler h goes on as one of G, and nothing but its session moves.
HandlerStep(h, G) ==
  /\ handlers' = (handlers \ {h}) \cup G
  /\ h.kind # "LOOKUP" /\ \A g \in G : g.rid = h.rid /\ g.kind = h.kind
  /\ UNCHANGED <<jobs, pf, cl>>
  /\ \A q \in Requests : q # h.rid => hits'[q] = hits[q] /\ held'[q] = held[q] /\ lost'[q] = lost[q]

\* A step of a handler: the other sessions stay as they are.
LEMMA HandlerSession ==
  ASSUME Inv, SessionInv, NEW h \in handlers, NEW G, HandlerStep(h, G)
  PROVE  /\ HandlersOf(h.rid)' = (HandlersOf(h.rid) \ {h}) \cup G /\ h \in HandlersOf(h.rid)
         /\ (Ahead(h.rid)' => Ahead(h.rid)) /\ h.rid \in Requests /\ cl' = cl
         /\ (Session(h.rid)' => SessionInv')
<1>0. /\ handlers' = (handlers \ {h}) \cup G /\ h.kind # "LOOKUP"
      /\ \A g \in G : g.rid = h.rid /\ g.kind = h.kind
      /\ UNCHANGED <<jobs, pf, cl>>
      /\ \A q \in Requests : q # h.rid => hits'[q] = hits[q] /\ held'[q] = held[q] /\ lost'[q] = lost[q]
  BY DEF HandlerStep
<1> DEFINE r == h.rid
<1>1. r \in Requests
  BY HandlerFacts
<1>2. /\ HandlersOf(r)' = (HandlersOf(r) \ {h}) \cup G /\ h \in HandlersOf(r)
      /\ \A q \in Requests : q # r => HandlersOf(q)' = HandlersOf(q)
  BY <1>0 DEF HandlersOf
<1>3. \A q \in Requests : Queued(q)' <=> Queued(q)
  BY <1>0 DEF Queued
<1>4. \A q \in Requests : LookedUp(q)' => LookedUp(q)
  <2>1. \A q \in Requests : Handler("LOOKUP", q, 0).kind = "LOOKUP"
    BY DEF Handler
  <2> QED BY <1>0, <2>1 DEF LookedUp
<1>5. \A q \in Requests : Ahead(q)' => Ahead(q)
  BY <1>0, <1>3, <1>4 DEF Ahead
<1>6. \A q \in Requests : q # r => Session(q)'
  BY <1>0, <1>2, <1>5, OtherSession DEF SessionInv
<1> QED BY <1>0, <1>1, <1>2, <1>5, <1>6 DEF SessionInv

-----------------------------------------------------------------------------

(***************************************************************************)
(* The connectors.                                                         *)
(***************************************************************************)

\* A quotient times the divisor.
LEMMA QuotientTimes ==
  ASSUME NEW n \in Nat, NEW w \in Nat \ {0}
  PROVE  n \div w \in Nat /\ (n \div w) * w <= n
<1> DEFINE q == n \div w
           m == n % w
           x == q * w
<1>1. q \in Nat /\ m \in 0 .. (w - 1) /\ n = w * q + m
  BY Division
<1> HIDE DEF q, m
<1>2. x \in Nat /\ n = x + m /\ m \in Nat
  BY <1>1
<1> HIDE DEF x
<1>3. x <= n
  BY <1>2
<1> QED BY <1>1, <1>3 DEF q, x

\* What is known of the session of a request.
LEMMA SessionFacts ==
  ASSUME Inv, SessionInv, NEW r \in Requests
  PROVE  /\ Session(r) /\ TrackerInv(r)
         /\ \A h \in HandlersOf(r) : h \in handlers /\ h.rid = r /\ Fits(h, r) /\ Finds(h, r)
         /\ \A h, g \in HandlersOf(r) : Apart2(h, g)
         /\ held[r] \in Seq(Keys) /\ Len(held[r]) \in Nat
         /\ cl[r].pc \in {"resolved", "load", "loading", "running"} => ~Ahead(r)
<1>1. Session(r) /\ TrackerInv(r)
  BY DEF SessionInv, Session
<1>2. \A h \in HandlersOf(r) : h \in handlers /\ h.rid = r /\ Fits(h, r) /\ Finds(h, r)
  BY <1>1 DEF Session, HandlersOf
<1>3. \A h, g \in HandlersOf(r) : Apart2(h, g)
  BY <1>1 DEF Session
<1>4. held[r] \in Seq(Keys) /\ Len(held[r]) \in Nat
  BY DEF Inv, ProtoInv, TypeInv, ThreadType
<1>5. Ahead(r) => hits[r].state # "resolved"
  BY TrackerFacts
<1> QED BY <1>1, <1>2, <1>3, <1>4, <1>5 DEF TrackerInv

\* Before the connector acts on an answer only the lookup may be running.
LEMMA OnlyLookups ==
  ASSUME Inv, SessionInv, NEW r \in Requests, cl[r].pc \in {"looking", "resolved"},
         NEW h \in HandlersOf(r)
  PROVE  h.kind = "LOOKUP"
<1>1. Fits(h, r) /\ h \in handlers
  BY SessionFacts
<1>2. h.kind \in {"LOOKUP", "FREE", "END", "RETRIEVE", "STORE"}
  BY <1>1, HandlerFacts DEF HandlerRec
<1> QED BY <1>1, <1>2 DEF Fits

\* The lookup is sent.
LEMMA LookupSession ==
  ASSUME Inv, SessionInv, NEW r \in Requests, SubmitLookup(r)
  PROVE  SessionInv'
<1> DEFINE c == [cl[r] EXCEPT !.pc = "looking"]
           new == {Handler("LOOKUP", r, 0)}
<1>1. cl[r].pc = "new" /\ cl' = [cl EXCEPT ![r] = c] /\ handlers' = handlers \cup new
  BY DEF SubmitLookup, Spawn
<1>2. c \in TrackerRec /\ c.pc = "looking"
  BY TrackerFacts DEF TrackerRec
<1>3. \A g \in new : g.rid = r /\ g.kind = "LOOKUP"
  BY DEF Handler
<1>4. UNCHANGED <<hits, held, lost, jobs, pf>>
  BY DEF SubmitLookup, smVars, prefetchVars
<1> HIDE DEF c, new
<1>12. ClientMove(r, c, new)
  BY <1>1, <1>2, <1>3, <1>4 DEF ClientMove
<1>5. /\ HandlersOf(r)' = HandlersOf(r) \cup new /\ cl'[r] = c /\ (Session(r)' => SessionInv')
  BY <1>12, ClientSession
<1>6. hits[r].state # "resolved"
  BY <1>1, TrackerFacts DEF Ahead
<1>7. HandlersOf(r) = {}
  BY <1>1 DEF Inv, ProtoInv, OnceInv, HandlersOf
<1>8. TrackerInv(r)'
  BY <1>2, <1>4, <1>5, <1>6, SessionFacts DEF TrackerInv
<1>9. \A g \in new : Fits(g, r)' /\ Finds(g, r)'
  BY <1>3 DEF Fits, Finds
<1>10. \A g, f \in new : Apart2(g, f)
  BY <1>3 DEF Apart2
<1>11. Session(r)'
  BY <1>2, <1>5, <1>7, <1>8, <1>9, <1>10 DEF Session
<1> QED BY <1>5, <1>11

\* The answer of the lookup covers whole chunks that are held.
LEMMA QuerySession ==
  ASSUME Inv, SessionInv, NEW r \in Requests, Query(r)
  PROVE  SessionInv'
<1> DEFINE lm == (hits[r].l1 + hits[r].l2) \div WorldSize
<1>1. PICK vllm \in 0 .. Len(Prompt[r]) :
        cl' = [cl EXCEPT ![r] = [pc |-> "resolved", lm |-> lm, vllm |-> vllm, stored |-> lm]]
  BY DEF Query
<1> DEFINE c == [pc |-> "resolved", lm |-> lm, vllm |-> vllm, stored |-> lm]
           S == hits[r].l1 + hits[r].l2
<1>2. cl[r].pc = "looking" /\ hits[r].state = "resolved" /\ cl' = [cl EXCEPT ![r] = c]
  BY <1>1 DEF Query
<1>3. S \in Nat /\ WorldSize \in Nat \ {0} /\ Len(Prompt[r]) \in Nat
  BY TrackerFacts, ServerAssumption
<1>5. lm \in Nat /\ lm * WorldSize <= S
  BY <1>3, QuotientTimes
<1>6. UNCHANGED <<hits, held, lost, jobs, pf, handlers>>
  BY DEF Query, smVars, prefetchVars, serverVars
<1>7. vllm \in Nat
  BY <1>3
<1> HIDE DEF lm
<1>8. c \in TrackerRec /\ c.pc = "resolved" /\ c.lm = lm
  BY <1>5, <1>7 DEF TrackerRec
<1> HIDE DEF c
<1> DEFINE new == {}
<1>9. handlers' = handlers \cup new /\ (\A g \in new : g.rid = r) /\ \A g \in new : g.kind # "LOOKUP"
  BY <1>6
<1>4. ClientMove(r, c, new)
  BY <1>2, <1>6, <1>8, <1>9 DEF ClientMove
<1> HIDE DEF new
<1>10. HandlersOf(r)' = HandlersOf(r) \cup new /\ cl'[r] = c /\ (Session(r)' => SessionInv')
  BY <1>4, ClientSession
<1>11. HandlersOf(r)' = HandlersOf(r)
  BY <1>6 DEF HandlersOf
<1>12. TrackerInv(r)'
  <2>1. Begins(held[r], LookupKeys(r)) /\ Len(held[r]) = S /\ lost[r] = {}
    BY <1>2, SessionFacts DEF TrackerInv
  <2> HIDE DEF S
  <2>2. lm * WorldSize <= Len(held[r])
    BY <1>5, <2>1
  <2> QED BY <1>2, <1>6, <1>8, <1>10, <2>1, <2>2 DEF TrackerInv, S
<1>13. \A h \in HandlersOf(r) : h.kind = "LOOKUP"
  BY <1>2, OnlyLookups
<1>14. Session(r)'
  BY <1>8, <1>10, <1>11, <1>12, <1>13 DEF Session, Fits, Finds, Apart2
<1> QED BY <1>10, <1>14

\* A request that is about to load or run: what is held for it begins with
\* the keys of the chunks the answer covers.
LEMMA AnswerHeld ==
  ASSUME Inv, SessionInv, NEW r \in Requests, cl[r].pc = "resolved"
  PROVE  /\ Loads(r) \subseteq Range(held[r])
         /\ cl[r].vllm <= cl[r].lm => LocalsHeld(r)
<1> DEFINE v == cl[r].vllm * WorldSize
           l == cl[r].lm * WorldSize
           K == LookupKeys(r)
           s == held[r]
<1>1. /\ cl[r].vllm \in Nat /\ cl[r].lm \in Nat /\ WorldSize \in Nat
      /\ s \in Seq(Keys) /\ Len(s) \in Nat
  BY TrackerFacts, SessionFacts, ServerAssumption
<1>2. l <= Len(s) /\ Begins(s, K)
  BY SessionFacts DEF TrackerInv
<1>3. v \in Nat /\ l \in Nat /\ (cl[r].vllm <= cl[r].lm => v <= l)
  BY <1>1, Products
<1>4. /\ Loads(r) = {K[i] : i \in (v + 1) .. l}
      /\ LocalsHeld(r) <=> v <= Len(s) /\ \A i \in 1 .. v : s[i] = K[i]
  BY DEF Loads, LocalsHeld
<1>5. \A x : x \in Range(s) <=> \E i \in 1 .. Len(s) : s[i] = x
  BY <1>1, RangeOf
<1> HIDE DEF v, l, K, s
<1>6. \A i \in 1 .. Len(s) : s[i] = K[i]
  BY <1>2 DEF Begins
<1>7. /\ \A i \in (v + 1) .. l : i \in 1 .. Len(s)
      /\ v <= l => v <= Len(s) /\ \A i \in 1 .. v : i \in 1 .. Len(s)
  BY <1>1, <1>2, <1>3
<1>8. Loads(r) \subseteq Range(s)
  BY <1>4, <1>5, <1>6, <1>7
<1> QED BY <1>3, <1>4, <1>6, <1>7, <1>8 DEF s

\* The locks no RETRIEVE will use are freed.
LEMMA UpdateSession ==
  ASSUME Inv, SessionInv, NEW r \in Requests, NEW load_pending \in BOOLEAN,
         UpdateStateAfterAlloc(r, load_pending)
  PROVE  SessionInv'
<1> DEFINE n == IF load_pending THEN cl[r].vllm ELSE cl[r].lm
           pc == IF load_pending THEN "load" ELSE "running"
           new == IF n = 0 THEN {} ELSE {Handler("FREE", r, n)}
           c == [cl[r] EXCEPT !.pc = pc]
<1>1. /\ cl[r].pc = "resolved" /\ (load_pending => cl[r].lm > cl[r].vllm)
      /\ cl' = [cl EXCEPT ![r].pc = pc] /\ handlers' = handlers \cup new
      /\ UNCHANGED <<hits, held, lost, jobs, pf>>
  BY DEF UpdateStateAfterAlloc, Spawn, smVars, prefetchVars
<1>2. \A g \in new : g.rid = r /\ g.kind = "FREE" /\ g.pc = "start" /\ g.n = n
  BY DEF Handler
<1>3. /\ pc \in {"load", "running"} /\ (pc = "load" => load_pending /\ n = cl[r].vllm)
      /\ \A g, f \in new : g = f
  OBVIOUS
<1> HIDE DEF new, pc
<1>4. cl[r] \in TrackerRec
  BY TrackerFacts
<1>5. c \in TrackerRec /\ c.pc = pc /\ c.lm = cl[r].lm /\ c.vllm = cl[r].vllm
  BY <1>3, <1>4 DEF TrackerRec
<1> HIDE DEF c
<1>6. cl' = [cl EXCEPT ![r] = c]
  BY <1>1 DEF c
<1>7. ClientMove(r, c, new)
  BY <1>1, <1>2, <1>3, <1>5, <1>6 DEF ClientMove
<1>8. /\ HandlersOf(r)' = HandlersOf(r) \cup new /\ cl'[r] = c /\ UNCHANGED <<hits, held, lost>>
      /\ (Session(r)' => SessionInv')
  BY <1>7, ClientSession
<1>9. Loads(r)' = Loads(r) /\ (LocalsHeld(r)' <=> LocalsHeld(r))
  BY <1>5, <1>8 DEF Loads, LocalsHeld
<1>10. Loads(r) \subseteq Range(held[r]) /\ (load_pending => LocalsHeld(r))
  <2>1. load_pending => cl[r].vllm <= cl[r].lm
    BY <1>1, TrackerFacts
  <2> QED BY <1>1, <2>1, AnswerHeld
<1>11. TrackerInv(r)'
  <2>1. hits[r].state = "resolved" /\ lost[r] = {}
    BY <1>1, SessionFacts DEF TrackerInv
  <2> QED BY <1>3, <1>5, <1>8, <1>9, <1>10, <2>1 DEF TrackerInv
<1>12. \A g \in HandlersOf(r) : g.kind = "LOOKUP"
  BY <1>1, OnlyLookups
<1>13. \A g \in new : Fits(g, r)' /\ Finds(g, r)'
  <2> TAKE g \in new
  <2>1. Fits(g, r)'
    BY <1>2, <1>3, <1>5, <1>8 DEF Fits
  <2>2. pc = "load" => g.n = cl[r].vllm /\ LocalsHeld(r)'
    BY <1>2, <1>3, <1>9, <1>10
  <2>3. Finds(g, r)'
    BY <1>2, <1>3, <1>5, <1>8, <2>2 DEF Finds
  <2> QED BY <2>1, <2>3
<1>14. \A g \in HandlersOf(r) : Fits(g, r)' /\ Finds(g, r)'
  BY <1>12 DEF Fits, Finds
<1>15. \A g, f \in HandlersOf(r) \cup new : Apart2(g, f)
  BY <1>2, <1>3, <1>12 DEF Apart2
<1>16. Session(r)'
  BY <1>3, <1>5, <1>8, <1>11, <1>13, <1>14, <1>15 DEF Session
<1> QED BY <1>8, <1>16

\* Every rank retrieves its chunks.
LEMMA RetrieveSession ==
  ASSUME Inv, SessionInv, NEW r \in Requests, SubmitRetrieve(r)
  PROVE  SessionInv'
<1> DEFINE c == [cl[r] EXCEPT !.pc = "loading"]
           new == Transfers("RETRIEVE", r, cl[r].vllm, cl[r].lm)
<1>1. /\ cl[r].pc = "load" /\ cl' = [cl EXCEPT ![r] = c] /\ handlers' = handlers \cup new
      /\ UNCHANGED <<hits, held, lost, jobs, pf>>
  BY DEF SubmitRetrieve, Spawn, smVars, prefetchVars
<1>2. /\ cl[r].vllm \in Nat /\ cl[r].lm \in Nat /\ cl[r].vllm <= cl[r].lm
      /\ cl[r].lm <= Len(Prompt[r]) /\ cl[r] \in TrackerRec
  BY <1>1, TrackerFacts
<1>3. /\ \A g \in new : g.rid = r /\ g.kind = "RETRIEVE" /\ g.pc = "start"
      /\ \A g \in new : Range(g.keys) \subseteq Loads(r)
      /\ \A g, f \in new : g # f => Range(g.keys) \cap Range(f.keys) = {}
  <2> DEFINE T(rank) == [Handler("RETRIEVE", r, 0) EXCEPT
                           !.rank = rank, !.start = cl[r].vllm,
                           !.keys = op_keys(r, rank, cl[r].vllm, cl[r].lm)]
  <2>1. new = {T(rank) : rank \in Ranks}
    BY DEF Transfers
  <2>2. \A rank \in Ranks :
          /\ T(rank).rid = r /\ T(rank).kind = "RETRIEVE" /\ T(rank).pc = "start"
          /\ T(rank).keys = op_keys(r, rank, cl[r].vllm, cl[r].lm)
    BY DEF Handler
  <2> HIDE DEF T, new
  <2>3. \A rank \in Ranks : /\ Range(T(rank).keys) \subseteq Loads(r)
                            /\ \A k \in Range(T(rank).keys) : k[2] = rank
    BY <1>2, <2>2, TransferKeys
  <2>4. \A i, j \in Ranks : i # j => Range(T(i).keys) \cap Range(T(j).keys) = {}
    BY <2>3
  <2>5. \A g, f \in new : g # f => Range(g.keys) \cap Range(f.keys) = {}
    BY <2>1, <2>4
  <2> QED BY <2>1, <2>2, <2>3, <2>5
<1>4. c \in TrackerRec /\ c.pc = "loading" /\ c.lm = cl[r].lm /\ c.vllm = cl[r].vllm
  BY <1>2 DEF TrackerRec
<1> HIDE DEF c, new
<1>5. ClientMove(r, c, new)
  BY <1>1, <1>3, <1>4 DEF ClientMove
<1>6. /\ HandlersOf(r)' = HandlersOf(r) \cup new /\ cl'[r] = c /\ UNCHANGED <<hits, held, lost>>
      /\ (Session(r)' => SessionInv')
  BY <1>5, ClientSession
<1>7. Loads(r)' = Loads(r) /\ Locals(r)' = Locals(r) /\ (LocalsHeld(r)' <=> LocalsHeld(r))
  BY <1>4, <1>6 DEF Loads, Locals, LocalsHeld
<1>8. /\ hits[r].state = "resolved" /\ lost[r] = {} /\ Loads(r) \subseteq Range(held[r])
  BY <1>1, SessionFacts DEF TrackerInv
<1>9. TrackerInv(r)'
  BY <1>4, <1>6, <1>8 DEF TrackerInv
<1>10. \A g \in new : Fits(g, r)' /\ Finds(g, r)'
  <2> TAKE g \in new
  <2>1. Fits(g, r)'
    BY <1>3, <1>4, <1>6 DEF Fits
  <2>2. Range(g.keys) \subseteq Loads(r)' /\ Range(g.keys) \subseteq Range(held'[r])
    BY <1>3, <1>6, <1>7, <1>8
  <2>3. Finds(g, r)'
    BY <1>3, <2>2 DEF Finds
  <2> QED BY <2>1, <2>3
<1>11. \A g \in HandlersOf(r) : g.kind \in {"LOOKUP", "FREE"} /\ Fits(g, r)' /\ Finds(g, r)'
  <2> TAKE g \in HandlersOf(r)
  <2>1. Fits(g, r) /\ Finds(g, r) /\ g \in handlers
    BY SessionFacts
  <2>2. g.kind \in {"LOOKUP", "FREE", "END", "RETRIEVE", "STORE"}
    BY <2>1, HandlerFacts DEF HandlerRec
  <2>3. g.kind \in {"LOOKUP", "FREE"}
    BY <1>1, <2>1, <2>2 DEF Fits
  <2>4. Fits(g, r)'
    BY <1>4, <1>6, <2>3 DEF Fits
  <2>5. Finds(g, r)'
    BY <1>1, <1>4, <1>6, <1>7, <2>1, <2>3 DEF Finds
  <2> QED BY <2>3, <2>4, <2>5
<1>12. \A g, f \in HandlersOf(r) \cup new : Apart2(g, f)
  <2>1. \A g, f \in HandlersOf(r) : Apart2(g, f)
    BY SessionFacts
  <2>2. \A g, f \in new : Apart2(g, f)
    BY <1>3 DEF Apart2
  <2>3. \A g \in HandlersOf(r), f \in new : Apart2(g, f) /\ Apart2(f, g)
    BY <1>3, <1>11 DEF Apart2
  <2> QED BY <2>1, <2>2, <2>3
<1>13. Session(r)'
  BY <1>4, <1>6, <1>9, <1>10, <1>11, <1>12 DEF Session
<1> QED BY <1>6, <1>13

\* The loads are done and the request runs.
LEMMA LoadedSession ==
  ASSUME Inv, SessionInv, NEW r \in Requests, LoadsDone(r)
  PROVE  SessionInv'
<1> DEFINE c == [cl[r] EXCEPT !.pc = "running"]
           new == {}
<1>1. /\ cl[r].pc = "loading" /\ cl' = [cl EXCEPT ![r] = c] /\ handlers' = handlers \cup new
      /\ UNCHANGED <<hits, held, lost, jobs, pf>>
      /\ \A h \in handlers : h.kind = "RETRIEVE" /\ h.rid = r => h.pc \notin {"start", "send"}
  BY DEF LoadsDone, smVars, prefetchVars, serverVars
<1>2. cl[r] \in TrackerRec
  BY TrackerFacts
<1>3. c \in TrackerRec /\ c.pc = "running" /\ \A g \in new : FALSE
  BY <1>2 DEF TrackerRec
<1> HIDE DEF c, new
<1>4. ClientMove(r, c, new)
  BY <1>1, <1>3 DEF ClientMove
<1>5. /\ HandlersOf(r)' = HandlersOf(r) \cup new /\ cl'[r] = c /\ UNCHANGED <<hits, held, lost>>
      /\ (Session(r)' => SessionInv')
  BY <1>4, ClientSession
<1>6. TrackerInv(r)'
  BY <1>1, <1>3, <1>5, SessionFacts DEF TrackerInv
<1>7. ASSUME NEW g \in HandlersOf(r) PROVE Fits(g, r)' /\ Finds(g, r)'
  <2>1. Fits(g, r) /\ Finds(g, r) /\ g \in handlers /\ g.rid = r
    BY SessionFacts
  <2>2. g.kind = "RETRIEVE" => g.pc \notin {"start", "send"}
    BY <1>1, <2>1
  <2>3. g.kind # "END"
    BY <1>1, <2>1 DEF Fits
  <2>4. Fits(g, r)'
    BY <1>1, <1>3, <1>5, <2>1, <2>2, <2>3 DEF Fits
  <2>5. Finds(g, r)'
    BY <1>3, <1>5, <2>3 DEF Finds
  <2> QED BY <2>4, <2>5
<1>8. \A g, f \in HandlersOf(r) : Apart2(g, f)
  BY SessionFacts
<1>9. Session(r)'
  BY <1>3, <1>5, <1>6, <1>7, <1>8 DEF Session
<1> QED BY <1>5, <1>9

\* Every rank stores its chunks.
LEMMA StoreSession ==
  ASSUME Inv, SessionInv, NEW r \in Requests, NEW end \in 1 .. Len(Prompt[r]), SubmitStore(r, end)
  PROVE  SessionInv'
<1> DEFINE c == [cl[r] EXCEPT !.stored = end]
           new == Transfers("STORE", r, cl[r].stored, end)
<1>1. /\ cl[r].pc = "running" /\ cl' = [cl EXCEPT ![r] = c] /\ handlers' = handlers \cup new
      /\ UNCHANGED <<hits, held, lost, jobs, pf>>
      /\ end \in (cl[r].stored + 1) .. Len(Prompt[r])
  BY DEF SubmitStore, Spawn, smVars, prefetchVars
<1>2. cl[r] \in TrackerRec /\ cl[r].stored \in Nat /\ Len(Prompt[r]) \in Nat
  BY TrackerFacts
<1>3. end \in Nat /\ cl[r].stored <= end /\ end <= Len(Prompt[r])
  BY <1>1, <1>2
<1>4. c \in TrackerRec /\ c.pc = "running"
  BY <1>1, <1>2, <1>3 DEF TrackerRec
<1>5. \A g \in new : g.rid = r /\ g.kind = "STORE"
  BY <1>2, <1>3, NewTransfers
<1> HIDE DEF c, new
<1>6. ClientMove(r, c, new)
  BY <1>1, <1>4, <1>5 DEF ClientMove
<1>7. /\ HandlersOf(r)' = HandlersOf(r) \cup new /\ cl'[r] = c /\ UNCHANGED <<hits, held, lost>>
      /\ (Session(r)' => SessionInv')
  BY <1>6, ClientSession
<1>8. TrackerInv(r)'
  BY <1>1, <1>4, <1>7, SessionFacts DEF TrackerInv
<1>9. \A g \in new : Fits(g, r)' /\ Finds(g, r)'
  BY <1>4, <1>5, <1>7 DEF Fits, Finds
<1>10. ASSUME NEW g \in HandlersOf(r) PROVE Fits(g, r)' /\ Finds(g, r)'
  <2>1. Fits(g, r) /\ Finds(g, r)
    BY SessionFacts
  <2> QED BY <1>1, <1>4, <1>7, <2>1 DEF Fits, Finds
<1>11. \A g, f \in HandlersOf(r) \cup new : Apart2(g, f)
  <2>1. \A g, f \in HandlersOf(r) : Apart2(g, f)
    BY SessionFacts
  <2>2. \A g \in HandlersOf(r) \cup new, f \in new : Apart2(g, f) /\ Apart2(f, g)
    BY <1>5 DEF Apart2
  <2> QED BY <2>1, <2>2
<1>12. Session(r)'
  BY <1>4, <1>7, <1>8, <1>9, <1>10, <1>11 DEF Session
<1> QED BY <1>7, <1>12

\* A request that ran is finished, and its session is to be ended.
LEMMA FinishedSession ==
  ASSUME ~Aborts, Inv, SessionInv, NEW r \in Requests, RequestFinished(r)
  PROVE  SessionInv'
<1> DEFINE c == [NewTracker EXCEPT !.pc = "finished"]
           end == Handler("END", r, 0)
           new == {end}
<1>1. /\ cl[r].pc = "running" /\ cl' = [cl EXCEPT ![r] = c] /\ handlers' = handlers \cup new
      /\ UNCHANGED <<hits, held, lost, jobs, pf>>
  BY DEF RequestFinished, Spawn, smVars, prefetchVars
<1>2. c \in TrackerRec /\ c.pc = "finished"
  BY DEF TrackerRec, NewTracker
<1>3. end.rid = r /\ end.kind = "END" /\ end.pc = "start" /\ end \in new
  BY DEF Handler
<1>4. \A g \in new : g = end
  OBVIOUS
<1> HIDE DEF c, end, new
<1>5. ClientMove(r, c, new)
  BY <1>1, <1>2, <1>3, <1>4 DEF ClientMove
<1>6. /\ HandlersOf(r)' = HandlersOf(r) \cup new /\ cl'[r] = c /\ UNCHANGED <<hits, held, lost>>
      /\ (Ahead(r)' => Ahead(r)) /\ (Session(r)' => SessionInv')
  BY <1>5, ClientSession
<1>7. ~Ahead(r)' /\ lost[r] = {}
  <2>1. ~Ahead(r) /\ lost[r] = {}
    BY <1>1, SessionFacts DEF TrackerInv
  <2> QED BY <1>6, <2>1
<1>8. TrackerInv(r)'
  BY <1>2, <1>6, <1>7 DEF TrackerInv
<1>9. ASSUME NEW g \in HandlersOf(r) PROVE g.kind # "END" /\ Fits(g, r)' /\ Finds(g, r)'
  <2>1. Fits(g, r)
    BY SessionFacts
  <2>2. g.kind # "END"
    BY <1>1, <2>1 DEF Fits
  <2>3. Fits(g, r)'
    BY <1>1, <1>2, <1>6, <2>1 DEF Fits
  <2>4. Finds(g, r)'
    BY <1>2, <1>6, <2>2 DEF Finds
  <2> QED BY <2>2, <2>3, <2>4
<1>10. Fits(end, r)' /\ Finds(end, r)'
  BY <1>2, <1>3, <1>6 DEF Fits, Finds
<1>11. \A g, f \in HandlersOf(r) \cup new : Apart2(g, f)
  <2>1. \A g, f \in HandlersOf(r) : Apart2(g, f)
    BY SessionFacts
  <2>2. \A g \in HandlersOf(r) \cup new, f \in new : Apart2(g, f) /\ Apart2(f, g)
    BY <1>3, <1>4 DEF Apart2
  <2> QED BY <2>1, <2>2
<1>12. Ended(r)'
  BY <1>3, <1>6 DEF Ended
<1>13. Session(r)'
  BY <1>4, <1>6, <1>8, <1>9, <1>10, <1>11, <1>12 DEF Session
<1> QED BY <1>6, <1>13

\* Every step of a connector.
LEMMA ClientsSession ==
  ASSUME Patient, Inv, SessionInv, NEW r \in Requests, Client(r)
  PROVE  SessionInv'
<1>1. ~Aborts /\ ~QueryTimeout(r)
  BY DEF Patient, QueryTimeout
<1> QED BY <1>1, LookupSession, QuerySession, UpdateSession, RetrieveSession, LoadedSession,
           StoreSession, FinishedSession DEF Client

-----------------------------------------------------------------------------

(***************************************************************************)
(* The handlers.                                                           *)
(***************************************************************************)

\* A handler that leaves what is held alone.
LEMMA QuietHandler ==
  ASSUME Inv, SessionInv, NEW h \in handlers, NEW G, HandlerStep(h, G), UNCHANGED <<hits, held, lost>>,
         \A g \in G : Fits(g, h.rid) /\ Finds(g, h.rid),
         \A g \in G : g.kind = "RETRIEVE" => Range(g.keys) \subseteq Range(h.keys),
         \A g, f \in G : g = f, h.kind = "END" => G # {}
  PROVE  SessionInv'
<1> DEFINE r == h.rid
<1>1. /\ HandlersOf(r)' = (HandlersOf(r) \ {h}) \cup G /\ h \in HandlersOf(r)
      /\ (Ahead(r)' => Ahead(r)) /\ r \in Requests /\ cl' = cl /\ (Session(r)' => SessionInv')
  BY HandlerSession
<1>2. \A g \in G : g.rid = r /\ g.kind = h.kind
  BY DEF HandlerStep
<1> HIDE DEF r
<1>3. Locals(r)' = Locals(r) /\ Loads(r)' = Loads(r) /\ (LocalsHeld(r)' <=> LocalsHeld(r))
  BY <1>1 DEF Locals, Loads, LocalsHeld
<1>4. TrackerInv(r)'
  BY <1>1, <1>3, SessionFacts DEF TrackerInv
<1>5. \A g \in HandlersOf(r) \cup G : Fits(g, r) /\ Finds(g, r)
  BY <1>1, SessionFacts DEF r
<1>6. \A g \in HandlersOf(r) \cup G : Fits(g, r)' /\ Finds(g, r)'
  BY <1>1, <1>3, <1>5 DEF Fits, Finds
<1>7. \A g, f \in (HandlersOf(r) \ {h}) \cup G : Apart2(g, f)
  <2>1. \A g, f \in HandlersOf(r) : Apart2(g, f)
    BY <1>1, SessionFacts
  <2>2. \A g, f \in G : Apart2(g, f)
    BY DEF Apart2
  <2>3. ASSUME NEW g \in HandlersOf(r) \ {h}, NEW f \in G PROVE Apart2(g, f) /\ Apart2(f, g)
    <3>1. Apart2(g, h) /\ Apart2(h, g)
      BY <1>1, <2>1
    <3> QED BY <1>2, <3>1 DEF Apart2
  <2> QED BY <2>1, <2>2, <2>3
<1>8. cl[r].pc = "finished" => Ended(r)'
  <2> SUFFICES ASSUME cl[r].pc = "finished" PROVE Ended(r)'
    OBVIOUS
  <2>1. Ended(r)
    BY <1>1, SessionFacts DEF Session
  <2>2. CASE \E g \in HandlersOf(r) : g.kind = "END"
    <3>1. \E g \in (HandlersOf(r) \ {h}) \cup G : g.kind = "END"
      BY <1>2, <2>2
    <3> QED BY <1>1, <3>1 DEF Ended
  <2>3. CASE hits[r] = Absent /\ held[r] = <<>>
    BY <2>3 DEF Ended
  <2> QED BY <2>1, <2>2, <2>3 DEF Ended
<1>9. Session(r)'
  BY <1>1, <1>4, <1>6, <1>7, <1>8 DEF Session
<1> QED BY <1>1, <1>9

\* Handlers that only move on: RETRIEVE on its way, and STORE.
LEMMA MoveOn ==
  ASSUME Inv, SessionInv, NEW h \in handlers, NEW g, Becomes(h, g),
         g.rid = h.rid, g.kind = h.kind, h.kind \in {"RETRIEVE", "STORE"},
         h.kind = "RETRIEVE" => g.keys = h.keys /\ (g.pc \in {"start", "send"} => h.pc \in {"start", "send"}),
         UNCHANGED <<jobs, pf, cl, hits, held, lost>>
  PROVE  SessionInv'
<1> DEFINE G == {g}
<1>1. HandlerStep(h, G)
  BY DEF HandlerStep, Becomes
<1>2. h \in HandlersOf(h.rid) /\ h.rid \in Requests
  BY HandlerFacts DEF HandlersOf
<1>3. Fits(h, h.rid) /\ Finds(h, h.rid)
  BY <1>2, SessionFacts
<1>4. Fits(g, h.rid) /\ Finds(g, h.rid)
  BY <1>3 DEF Fits, Finds
<1>5. /\ \A f \in G : Fits(f, h.rid) /\ Finds(f, h.rid)
      /\ \A f \in G : f.kind = "RETRIEVE" => Range(f.keys) \subseteq Range(h.keys)
      /\ (\A f, e \in G : f = e) /\ (h.kind = "END" => G # {})
  BY <1>4
<1> HIDE DEF G
<1> QED BY <1>1, <1>5, QuietHandler

\* Handlers that end.
LEMMA MoveOff ==
  ASSUME Inv, SessionInv, NEW h \in handlers, Ends(h), h.kind \in {"FREE", "RETRIEVE", "STORE"},
         UNCHANGED <<jobs, pf, cl, hits, held, lost>>
  PROVE  SessionInv'
<1> DEFINE G == {}
<1>1. HandlerStep(h, G)
  BY DEF HandlerStep, Ends
<1>2. /\ \A f \in G : Fits(f, h.rid) /\ Finds(f, h.rid)
      /\ \A f \in G : f.kind = "RETRIEVE" => Range(f.keys) \subseteq Range(h.keys)
      /\ (\A f, e \in G : f = e) /\ (h.kind = "END" => G # {})
  OBVIOUS
<1> HIDE DEF G
<1> QED BY <1>1, <1>2, QuietHandler

\* A STORE, at any of its steps.
LEMMA StoresSession ==
  ASSUME Inv, SessionInv, NEW h \in handlers,
         StoreReserve(h) \/ StoreReserveNone(h) \/ StoreUnknown(h) \/ StoreCopy(h) \/ StoreFinish(h)
  PROVE  SessionInv'
<1>1. h.kind = "STORE" /\ UNCHANGED <<jobs, pf, cl, hits, held, lost>>
  BY DEF StoreReserve, StoreReserveNone, StoreUnknown, StoreCopy, StoreFinish, At, smVars, prefetchVars
<1>2. CASE Ends(h)
  BY <1>1, <1>2, MoveOff
<1>3. ASSUME NEW g, Becomes(h, g), g.rid = h.rid, g.kind = h.kind
      PROVE  SessionInv'
  BY <1>1, <1>3, MoveOn
<1>4. CASE StoreReserve(h)
  <2> DEFINE written == Selected(h.keys, Missing(Range(h.keys)))
             pc == IF written = <<>> THEN "finish" ELSE "copy"
             objs == [i \in 1 .. Len(written) |-> entries'[written[i]].obj]
  <2>1. Becomes(h, [h EXCEPT !.pc = pc, !.keys = written, !.objs = objs])
    BY <1>4 DEF StoreReserve
  <2> HIDE DEF written, pc, objs
  <2>2. h \in HandlerRec
    BY HandlerFacts
  <2>3. /\ [h EXCEPT !.pc = pc, !.keys = written, !.objs = objs].rid = h.rid
        /\ [h EXCEPT !.pc = pc, !.keys = written, !.objs = objs].kind = h.kind
    BY <2>2 DEF HandlerRec
  <2> QED BY <1>3, <2>1, <2>3
<1>5. CASE StoreReserveNone(h)
  <2> DEFINE none == <<>>
             pc == "finish"
  <2>1. Becomes(h, [h EXCEPT !.pc = pc, !.keys = none])
    BY <1>5 DEF StoreReserveNone
  <2> HIDE DEF none, pc
  <2>2. h \in HandlerRec
    BY HandlerFacts
  <2>3. /\ [h EXCEPT !.pc = pc, !.keys = none].rid = h.rid
        /\ [h EXCEPT !.pc = pc, !.keys = none].kind = h.kind
    BY <2>2 DEF HandlerRec
  <2> QED BY <1>3, <2>1, <2>3
<1>6. CASE StoreCopy(h)
  <2> DEFINE n == h.n + 1
             pc == IF h.n + 1 = Len(h.keys) THEN "finish" ELSE "copy"
  <2>1. Becomes(h, [h EXCEPT !.n = n, !.pc = pc])
    BY <1>6 DEF StoreCopy
  <2> HIDE DEF n, pc
  <2>2. h \in HandlerRec
    BY HandlerFacts
  <2>3. /\ [h EXCEPT !.n = n, !.pc = pc].rid = h.rid
        /\ [h EXCEPT !.n = n, !.pc = pc].kind = h.kind
    BY <2>2 DEF HandlerRec
  <2> QED BY <1>3, <2>1, <2>3
<1>7. StoreUnknown(h) \/ StoreFinish(h) => Ends(h)
  BY DEF StoreUnknown, StoreFinish
<1> QED BY <1>2, <1>4, <1>5, <1>6, <1>7

\* A RETRIEVE on its way to the release of its holds, and after it.
LEMMA RetrievesSession ==
  ASSUME Inv, SessionInv, NEW h \in handlers,
         RetrieveRead(h) \/ RetrieveSend(h) \/ RetrievePromote(h) \/ RetrieveFinish(h) \/ FreeFinish(h)
  PROVE  SessionInv'
<1>1. UNCHANGED <<jobs, pf, cl, hits, held, lost>>
  BY DEF RetrieveRead, RetrieveSend, RetrievePromote, RetrieveFinish, FreeFinish, FinishRelease, smVars,
         prefetchVars
<1>2. h \in HandlerRec
  BY HandlerFacts
<1>3. CASE Ends(h) /\ h.kind \in {"FREE", "RETRIEVE"}
  BY <1>1, <1>3, MoveOff
<1>4. ASSUME NEW pc, NEW objs, h.kind = "RETRIEVE", pc \in {"start", "send"} => h.pc \in {"start", "send"},
             Becomes(h, [h EXCEPT !.pc = pc, !.objs = objs])
      PROVE  SessionInv'
  <2> DEFINE g == [h EXCEPT !.pc = pc, !.objs = objs]
  <2>1. g.rid = h.rid /\ g.kind = h.kind /\ g.keys = h.keys /\ g.pc = pc
    BY <1>2 DEF HandlerRec
  <2>2. Becomes(h, g)
    BY <1>4
  <2> HIDE DEF g
  <2> QED BY <1>1, <1>4, <2>1, <2>2, MoveOn
<1>5. CASE RetrieveRead(h)
  <2>1. At(h, "RETRIEVE", "start")
    BY <1>5 DEF RetrieveRead
  <2>2. Ends(h) \/ Becomes(h, [h EXCEPT !.pc = "send", !.objs = ObjsOf(h.keys)])
    BY <1>5 DEF RetrieveRead
  <2>3. CASE Ends(h)
    BY <1>3, <2>1, <2>3 DEF At
  <2>4. CASE Becomes(h, [h EXCEPT !.pc = "send", !.objs = ObjsOf(h.keys)])
    BY <1>4, <2>1, <2>4 DEF At
  <2> QED BY <2>2, <2>3, <2>4
<1>6. CASE RetrieveSend(h)
  <2>1. h.kind = "RETRIEVE" /\ Becomes(h, [h EXCEPT !.pc = "promote", !.objs = <<>>])
    BY <1>6 DEF RetrieveSend, At
  <2> QED BY <1>4, <2>1
<1>7. CASE RetrievePromote(h)
  <2> DEFINE pc == "release"
             g == [h EXCEPT !.pc = pc]
  <2>1. h.kind = "RETRIEVE" /\ Becomes(h, g) /\ pc \notin {"start", "send"}
    BY <1>7 DEF RetrievePromote, At
  <2> HIDE DEF pc
  <2>2. g.rid = h.rid /\ g.kind = h.kind /\ g.keys = h.keys /\ g.pc = pc
    BY <1>2 DEF HandlerRec
  <2> HIDE DEF g
  <2> QED BY <1>1, <2>1, <2>2, MoveOn
<1>8. RetrieveFinish(h) \/ FreeFinish(h) => Ends(h) /\ h.kind \in {"FREE", "RETRIEVE"}
  BY DEF RetrieveFinish, FreeFinish, At
<1> QED BY <1>3, <1>5, <1>6, <1>7, <1>8

\* What the other handlers of a request need is not among the keys that a
\* handler h releases.
Spares(h, keys) ==
  /\ cl[h.rid].pc = "load" => Range(keys) \cap Loads(h.rid) = {}
  /\ cl[h.rid].pc \in {"load", "loading"} =>
       \A f \in HandlersOf(h.rid) \ {h} : At(f, "FREE", "start") => Range(keys) \cap Locals(h.rid) = {}
  /\ cl[h.rid].pc = "loading" =>
       \A f \in HandlersOf(h.rid) \ {h} : f.kind = "RETRIEVE" => Range(f.keys) \cap Range(keys) = {}
  /\ h.kind = "RETRIEVE" => keys = h.keys
  /\ h.kind = "END" => Range(held[h.rid]) \subseteq Range(keys)

\* The head of a session stays when none of it is released.
LEMMA HeadStays ==
  ASSUME Inv, SessionInv, NEW r \in Requests, NEW R, LocalsHeld(r), R \cap Locals(r) = {},
         held'[r] = Without(held[r], R), cl'[r] = cl[r]
  PROVE  LocalsHeld(r)'
<1> DEFINE v == cl[r].vllm * WorldSize
           K == LookupKeys(r)
           s == held[r]
           S == Range(s) \ R
<1>1. /\ s \in Seq(Keys) /\ Len(s) \in Nat /\ v \in Nat
  BY SessionFacts, TrackerFacts, ServerAssumption, Products
<1>2. v <= Len(s) /\ \A i \in 1 .. v : s[i] = K[i]
  BY DEF LocalsHeld
<1>3. Locals(r) = {K[i] : i \in 1 .. v}
  BY DEF Locals
<1>4. held'[r] = Selected(s, S)
  BY DEF Without
<1>5. \A x : x \in Range(s) <=> \E i \in 1 .. Len(s) : s[i] = x
  BY <1>1, RangeOf
<1> HIDE DEF K, s
<1>6. ASSUME NEW i \in 1 .. v PROVE s[i] \in S
  <2>1. i \in 1 .. Len(s) /\ s[i] = K[i] /\ K[i] \in Locals(r)
    BY <1>1, <1>2, <1>3
  <2> QED BY <1>5, <2>1
<1>7. v \in 0 .. Len(s)
  BY <1>1, <1>2
<1> HIDE DEF S, v
<1>8. v <= Len(Selected(s, S)) /\ \A i \in 1 .. v : Selected(s, S)[i] = s[i]
  BY <1>1, <1>6, <1>7, SelectedBegins
<1>9. v <= Len(held'[r]) /\ \A i \in 1 .. v : held'[r][i] = K[i]
  BY <1>2, <1>4, <1>8
<1> QED BY <1>9 DEF LocalsHeld, v, K

\* release, first half.
LEMMA ReleaseSession ==
  ASSUME Inv, SessionInv, NEW h \in handlers, NEW keys \in Seq(Keys), Release(h, keys),
         h.kind \in {"FREE", "END", "RETRIEVE"}, Spares(h, keys)
  PROVE  SessionInv'
<1> DEFINE r == h.rid
           K == Selected(keys, Range(held[h.rid]))
           L == Without(held[h.rid], Range(keys))
<1>1. /\ Becomes(h, [h EXCEPT !.pc = "finish", !.keys = K]) /\ held' = [held EXCEPT ![h.rid] = L]
      /\ UNCHANGED <<jobs, hits, pf, cl, lost>>
  BY DEF Release
<1>2. /\ h \in HandlerRec /\ h.rid \in Requests /\ held[h.rid] \in Seq(Keys)
      /\ held \in [Requests -> Seq(Keys)]
  BY HandlerFacts DEF Inv, ProtoInv, TypeInv, ThreadType
<1>3. /\ K \in Seq(Keys) /\ Range(K) = Range(keys) \cap Range(held[h.rid])
      /\ L \in Seq(Keys) /\ Range(L) = Range(held[h.rid]) \ Range(keys)
  BY <1>2, SelectedKeeps, WithoutKeeps
<1>4. L = Without(held[r], Range(keys))
  OBVIOUS
<1> HIDE DEF K, L
<1>5. PICK g : Becomes(h, g) /\ g.rid = r /\ g.kind = h.kind /\ g.keys = K /\ g.pc = "finish"
  <2> DEFINE pc == "finish"
             g0 == [h EXCEPT !.pc = pc, !.keys = K]
  <2>1. Becomes(h, g0)
    BY <1>1
  <2>2. pc = "finish"
    OBVIOUS
  <2> HIDE DEF pc
  <2>3. g0.rid = r /\ g0.kind = h.kind /\ g0.keys = K /\ g0.pc = pc
    BY <1>2 DEF HandlerRec
  <2> HIDE DEF g0
  <2> QED BY <2>1, <2>2, <2>3
<1> DEFINE G == {g}
<1>6. g \in G /\ (\A f \in G : f = g) /\ handlers' = (handlers \ {h}) \cup G
  BY <1>5 DEF Becomes
<1> HIDE DEF G
<1>7. /\ held'[r] = L /\ \A q \in Requests : q # r => held'[q] = held[q]
  BY <1>1, <1>2
<1>8. HandlerStep(h, G)
  BY <1>1, <1>5, <1>6, <1>7 DEF HandlerStep
<1>9. /\ HandlersOf(r)' = (HandlersOf(r) \ {h}) \cup G /\ h \in HandlersOf(r)
      /\ (Ahead(r)' => Ahead(r)) /\ r \in Requests /\ cl' = cl /\ (Session(r)' => SessionInv')
  BY <1>8, HandlerSession
<1> HIDE DEF r
<1>10. Locals(r)' = Locals(r) /\ Loads(r)' = Loads(r)
  BY <1>9 DEF Locals, Loads
<1>11. Fits(h, r) /\ Finds(h, r) /\ Session(r) /\ TrackerInv(r)
  BY <1>9, SessionFacts
<1>12. cl[r].pc \notin {"looking", "resolved"}
  BY <1>11 DEF Fits
<1>13. Range(held'[r]) = Range(held[r]) \ Range(keys) /\ held'[r] \in Seq(Keys)
  BY <1>3, <1>7 DEF r
<1>14. TrackerInv(r)'
  <2>1. cl[r].pc = "load" => Loads(r) \subseteq Range(held'[r])
    <3>1. cl[r].pc = "load" => Loads(r) \subseteq Range(held[r]) /\ Range(keys) \cap Loads(r) = {}
      BY <1>11 DEF TrackerInv, Spares, r
    <3> QED BY <1>13, <3>1
  <2> QED BY <1>1, <1>9, <1>10, <1>11, <1>12, <2>1 DEF TrackerInv
<1>15. held[r] = <<>> \/ h.kind = "END" => held'[r] = <<>>
  <2>1. held[r] = <<>> => Range(held[r]) = {}
    <3> DEFINE e == <<>>
    <3>1. Range(e) = {}
      BY EmptyList
    <3> HIDE DEF e
    <3>2. held[r] = e => Range(held[r]) = {}
      BY <3>1
    <3> QED BY <3>2 DEF e
  <2>2. h.kind = "END" => Range(held'[r]) = {}
    BY <1>13 DEF Spares, r
  <2>3. held[r] = <<>> => Range(held'[r]) = {}
    BY <1>13, <2>1
  <2> QED BY <1>13, <2>2, <2>3, NoElements
<1>16. Fits(g, r)' /\ Finds(g, r)'
  <2>1. Fits(g, r)'
    BY <1>5, <1>9, <1>11 DEF Fits
  <2>2. h.kind = "RETRIEVE" /\ cl[r].pc = "loading" => Range(K) \subseteq Loads(r)
    BY <1>3, <1>11 DEF Finds, Spares
  <2>3. Finds(g, r)'
    BY <1>5, <1>9, <1>10, <1>15, <2>2 DEF Finds
  <2> QED BY <2>1, <2>3
<1>17. ASSUME NEW f \in HandlersOf(r) \ {h} PROVE Fits(f, r)' /\ Finds(f, r)'
  <2>1. Fits(f, r) /\ Finds(f, r)
    BY <1>9, SessionFacts
  <2>2. Fits(f, r)'
    BY <1>9, <2>1 DEF Fits
  <2>3. f.kind = "FREE" /\ f.pc = "start" /\ cl[r].pc \in {"load", "loading"} => f.n = cl[r].vllm /\ LocalsHeld(r)'
    <3> SUFFICES ASSUME f.kind = "FREE", f.pc = "start", cl[r].pc \in {"load", "loading"}
                 PROVE  f.n = cl[r].vllm /\ LocalsHeld(r)'
      OBVIOUS
    <3>1. LocalsHeld(r) /\ f.n = cl[r].vllm
      BY <2>1 DEF Finds
    <3>2. Range(keys) \cap Locals(r) = {}
      BY DEF Spares, At, r
    <3>3. held'[r] = Without(held[r], Range(keys)) /\ cl'[r] = cl[r]
      BY <1>4, <1>7, <1>9
    <3> QED BY <1>9, <3>1, <3>2, <3>3, HeadStays
  <2>4. f.kind = "RETRIEVE" /\ cl[r].pc = "loading" /\ f.pc \in {"start", "send"} =>
          Range(f.keys) \subseteq Range(held'[r])
    <3> SUFFICES ASSUME f.kind = "RETRIEVE", cl[r].pc = "loading", f.pc \in {"start", "send"}
                 PROVE  Range(f.keys) \subseteq Range(held'[r])
      OBVIOUS
    <3>1. Range(f.keys) \subseteq Range(held[r])
      BY <2>1 DEF Finds
    <3>2. Range(f.keys) \cap Range(keys) = {}
      BY DEF Spares, r
    <3> QED BY <1>13, <3>1, <3>2
  <2>5. Finds(f, r)'
    BY <1>9, <1>10, <1>15, <2>1, <2>3, <2>4 DEF Finds
  <2> QED BY <2>2, <2>5
<1>18. \A f, e \in (HandlersOf(r) \ {h}) \cup G : Apart2(f, e)
  <2>1. \A f, e \in HandlersOf(r) : Apart2(f, e)
    BY <1>9, SessionFacts
  <2>2. \A f, e \in G : Apart2(f, e)
    BY <1>6 DEF Apart2
  <2>3. h.kind = "RETRIEVE" => Range(g.keys) \subseteq Range(h.keys)
    BY <1>3, <1>5 DEF Spares
  <2>4. ASSUME NEW f \in HandlersOf(r) \ {h} PROVE Apart2(f, g) /\ Apart2(g, f)
    <3>1. Apart2(f, h) /\ Apart2(h, f)
      BY <1>9, <2>1
    <3> QED BY <1>5, <2>3, <3>1 DEF Apart2
  <2> QED BY <1>6, <2>1, <2>2, <2>4
<1>19. cl[r].pc = "finished" => Ended(r)'
  <2> SUFFICES ASSUME cl[r].pc = "finished" PROVE Ended(r)'
    OBVIOUS
  <2>1. Ended(r)
    BY <1>11 DEF Session
  <2>2. CASE \E f \in HandlersOf(r) : f.kind = "END"
    <3>1. \E f \in (HandlersOf(r) \ {h}) \cup G : f.kind = "END"
      BY <1>5, <1>6, <2>2
    <3> QED BY <1>9, <3>1 DEF Ended
  <2>3. CASE hits[r] = Absent /\ held[r] = <<>>
    BY <1>1, <1>15, <2>3 DEF Ended
  <2> QED BY <2>1, <2>2, <2>3 DEF Ended
<1>20. Session(r)'
  BY <1>6, <1>9, <1>14, <1>16, <1>17, <1>18, <1>19 DEF Session
<1> QED BY <1>9, <1>20
\* FREE_LOOKUP_LOCKS releases the chunks no RETRIEVE will send.
LEMMA FreeReleaseSession ==
  ASSUME Inv, SessionInv, NEW h \in handlers, FreeRelease(h)
  PROVE  SessionInv'
<1> DEFINE r == h.rid
           keys == h.keys
<1>1. h.kind = "FREE" /\ h.pc = "release" /\ Release(h, keys)
  BY DEF FreeRelease, At
<1>2. /\ r \in Requests /\ keys \in Seq(Keys) /\ h \in HandlersOf(r)
  BY HandlerFacts DEF HandlersOf
<1>3. Finds(h, r) /\ \A f \in HandlersOf(r) : Apart2(h, f) /\ Finds(f, r)
  BY <1>2, SessionFacts
<1>4. cl[r].pc \in {"load", "loading"} =>
        Range(keys) \cap Loads(r) = {}
  <2> SUFFICES ASSUME cl[r].pc \in {"load", "loading"} PROVE Range(keys) \cap Loads(r) = {}
    OBVIOUS
  <2>1. Range(keys) \subseteq Locals(r)
    BY <1>1, <1>3 DEF Finds
  <2>2. /\ cl[r].vllm \in Nat /\ cl[r].lm \in Nat /\ cl[r].vllm <= cl[r].lm /\ cl[r].lm <= Len(Prompt[r])
    BY <1>2, TrackerFacts
  <2>3. Locals(r) \cap Loads(r) = {}
    BY <1>2, <2>2, LocalsApart
  <2> QED BY <2>1, <2>3
<1>5. \A f \in HandlersOf(r) \ {h} : ~At(f, "FREE", "start")
  BY <1>1, <1>3 DEF Apart2, At
<1>6. cl[r].pc = "loading" => \A f \in HandlersOf(r) \ {h} :
        f.kind = "RETRIEVE" => Range(f.keys) \cap Range(keys) = {}
  BY <1>3, <1>4 DEF Finds
<1>7. Spares(h, keys)
  BY <1>1, <1>4, <1>5, <1>6 DEF Spares
<1> HIDE DEF keys
<1> QED BY <1>1, <1>2, <1>7, ReleaseSession

\* A RETRIEVE releases what it has sent.
LEMMA RetrieveReleaseSession ==
  ASSUME Inv, SessionInv, NEW h \in handlers, RetrieveRelease(h)
  PROVE  SessionInv'
<1> DEFINE r == h.rid
           keys == h.keys
<1>1. h.kind = "RETRIEVE" /\ h.pc = "release" /\ Release(h, keys)
  BY DEF RetrieveRelease, At
<1>2. r \in Requests /\ keys \in Seq(Keys) /\ h \in HandlersOf(r)
  BY HandlerFacts DEF HandlersOf
<1>3. Fits(h, r) /\ Finds(h, r) /\ \A f \in HandlersOf(r) : Apart2(h, f) /\ Apart2(f, h)
  BY <1>2, SessionFacts
<1>4. cl[r].pc \in {"loading", "running", "finished"}
  BY <1>1, <1>3 DEF Fits
<1>5. cl[r].pc = "loading" => Range(keys) \cap Locals(r) = {}
  <2> SUFFICES ASSUME cl[r].pc = "loading" PROVE Range(keys) \cap Locals(r) = {}
    OBVIOUS
  <2>1. Range(keys) \subseteq Loads(r)
    BY <1>1, <1>3 DEF Finds
  <2>2. /\ cl[r].vllm \in Nat /\ cl[r].lm \in Nat /\ cl[r].vllm <= cl[r].lm /\ cl[r].lm <= Len(Prompt[r])
    BY <1>2, TrackerFacts
  <2>3. Locals(r) \cap Loads(r) = {}
    BY <1>2, <2>2, LocalsApart
  <2> QED BY <2>1, <2>3
<1>6. \A f \in HandlersOf(r) \ {h} : f.kind = "RETRIEVE" => Range(f.keys) \cap Range(keys) = {}
  BY <1>1, <1>3 DEF Apart2
<1>7. Spares(h, keys)
  BY <1>1, <1>4, <1>5, <1>6 DEF Spares
<1> HIDE DEF keys
<1> QED BY <1>1, <1>2, <1>7, ReleaseSession

\* END_SESSION releases whatever is left.
LEMMA EndReleaseSession ==
  ASSUME Inv, SessionInv, NEW h \in handlers, EndRelease(h)
  PROVE  SessionInv'
<1> DEFINE r == h.rid
           keys == held[h.rid]
<1>1. h.kind = "END" /\ h.pc = "start" /\ Release(h, keys)
  BY DEF EndRelease, At
<1>2. r \in Requests /\ keys \in Seq(Keys) /\ h \in HandlersOf(r)
  BY HandlerFacts DEF HandlersOf
<1>3. Fits(h, r)
  BY <1>2, SessionFacts
<1>4. cl[r].pc = "finished"
  BY <1>1, <1>3 DEF Fits
<1>5. Range(held[h.rid]) \subseteq Range(keys)
  OBVIOUS
<1>6. Spares(h, keys)
  BY <1>1, <1>4, <1>5 DEF Spares
<1> HIDE DEF keys
<1> QED BY <1>1, <1>2, <1>6, ReleaseSession

\* The smaller of two numbers.
LEMMA MinOfTwo ==
  ASSUME NEW a \in Nat, NEW b \in Nat
  PROVE  /\ Min({a, b}) \in Nat /\ Min({a, b}) <= a /\ Min({a, b}) <= b
         /\ a <= b => Min({a, b}) = a
<1>1. \E x \in {a, b} : \A y \in {a, b} : x <= y
  OBVIOUS
<1>2. Min({a, b}) \in {a, b} /\ \A y \in {a, b} : Min({a, b}) <= y
  BY <1>1 DEF Min
<1> DEFINE m == Min({a, b})
<1>3. m \in {a, b} /\ m <= a /\ m <= b
  BY <1>2
<1> HIDE DEF m
<1>4. m \in Nat /\ (a <= b => m = a)
  BY <1>3
<1> QED BY <1>3, <1>4 DEF m

\* FREE_LOOKUP_LOCKS reads the head of what is held: the chunks vLLM had.
LEMMA FreeFirstSession ==
  ASSUME Inv, SessionInv, NEW h \in handlers, FreeFirst(h)
  PROVE  SessionInv'
<1> DEFINE r == h.rid
           a == h.n * WorldSize
           b == Len(held[h.rid])
           n == Min({a, b})
           K == First(n, held[h.rid])
           pc == "release"
           g == [h EXCEPT !.pc = pc, !.keys = K]
           G == {g}
<1>1. /\ h.kind = "FREE" /\ h.pc = "start" /\ handlers' = (handlers \ {h}) \cup G
      /\ UNCHANGED <<jobs, pf, cl, hits, held, lost>>
  BY DEF FreeFirst, At, Becomes, smVars, prefetchVars
<1>2. /\ h \in HandlerRec /\ r \in Requests /\ h.n \in Nat /\ WorldSize \in Nat
      /\ held[r] \in Seq(Keys) /\ a \in Nat /\ b \in Nat /\ h \in HandlersOf(r)
  BY HandlerFacts, ServerAssumption DEF HandlersOf
<1>3. Fits(h, r) /\ Finds(h, r)
  BY <1>2, SessionFacts
<1>4. /\ pc = "release" /\ (\A f \in G : f = g) /\ g \in G
  OBVIOUS
<1> HIDE DEF pc, G
<1>5. g.rid = r /\ g.kind = "FREE" /\ g.keys = K /\ g.pc = pc
  BY <1>1, <1>2 DEF HandlerRec
<1> HIDE DEF g
<1>6. HandlerStep(h, G)
  BY <1>1, <1>4, <1>5 DEF HandlerStep
<1>7. Fits(g, r)
  BY <1>1, <1>3, <1>5, <1>4 DEF Fits
<1>8. cl[r].pc \in {"load", "loading"} => Range(K) \subseteq Locals(r)
  <2> SUFFICES ASSUME cl[r].pc \in {"load", "loading"} PROVE Range(K) \subseteq Locals(r)
    OBVIOUS
  <2>1. h.n = cl[r].vllm /\ LocalsHeld(r)
    BY <1>1, <1>3 DEF Finds
  <2>2. a <= b /\ (\A i \in 1 .. a : held[r][i] = LookupKeys(r)[i]) /\ Locals(r) = {LookupKeys(r)[i] : i \in 1 .. a}
    BY <2>1 DEF LocalsHeld, Locals
  <2> HIDE DEF a
  <2>3. n = a
    BY <1>2, <2>2, MinOfTwo
  <2> HIDE DEF n
  <2>4. \A x : x \in Range(K) <=> \E i \in 1 .. a : held[r][i] = x
    BY <1>2, <2>2, <2>3, FirstOf
  <2> QED BY <2>2, <2>4
<1>9. Finds(g, r)
  BY <1>4, <1>5, <1>8 DEF Finds
<1>10. /\ \A f \in G : Fits(f, h.rid) /\ Finds(f, h.rid)
       /\ \A f \in G : f.kind = "RETRIEVE" => Range(f.keys) \subseteq Range(h.keys)
       /\ (\A f, e \in G : f = e) /\ (h.kind = "END" => G # {})
  BY <1>1, <1>4, <1>5, <1>7, <1>9
<1> HIDE DEF K, r
<1> QED BY <1>1, <1>6, <1>10, QuietHandler

\* END_SESSION has released everything ...
LEMMA EndFinishSession ==
  ASSUME Inv, SessionInv, NEW h \in handlers, EndFinish(h)
  PROVE  SessionInv'
<1> DEFINE r == h.rid
           pc == "pop"
           none == <<>>
           g == [h EXCEPT !.pc = pc, !.keys = none]
           G == {g}
<1>1. /\ h.kind = "END" /\ h.pc = "finish" /\ handlers' = (handlers \ {h}) \cup G
      /\ UNCHANGED <<jobs, pf, cl, hits, held, lost>>
  BY DEF EndFinish, At, Becomes, FinishRelease, prefetchVars
<1>2. h \in HandlerRec /\ r \in Requests /\ h \in HandlersOf(r)
  BY HandlerFacts DEF HandlersOf
<1>3. Fits(h, r) /\ Finds(h, r)
  BY <1>2, SessionFacts
<1>4. /\ pc = "pop" /\ (\A f \in G : f = g) /\ g \in G
  OBVIOUS
<1> HIDE DEF pc, none, G
<1>5. g.rid = r /\ g.kind = "END" /\ g.pc = pc
  BY <1>1, <1>2 DEF HandlerRec
<1> HIDE DEF g
<1>6. HandlerStep(h, G)
  BY <1>1, <1>4, <1>5 DEF HandlerStep
<1>7. Fits(g, r) /\ Finds(g, r)
  BY <1>1, <1>3, <1>4, <1>5 DEF Fits, Finds
<1>8. /\ \A f \in G : Fits(f, h.rid) /\ Finds(f, h.rid)
      /\ \A f \in G : f.kind = "RETRIEVE" => Range(f.keys) \subseteq Range(h.keys)
      /\ (\A f, e \in G : f = e) /\ (h.kind = "END" => G # {})
  BY <1>4, <1>5, <1>7
<1> QED BY <1>1, <1>6, <1>8, QuietHandler

\* ... and pops an empty list.
LEMMA EndPopSession ==
  ASSUME Inv, SessionInv, NEW h \in handlers, EndPop(h)
  PROVE  SessionInv'
<1> DEFINE r == h.rid
           G == {}
           none == <<>>
           P == held[h.rid]
<1>1. /\ h.kind = "END" /\ h.pc = "pop" /\ handlers' = (handlers \ {h}) \cup G
      /\ UNCHANGED <<jobs, pf, cl>>
      /\ hits' = [hits EXCEPT ![r] = Absent] /\ held' = [held EXCEPT ![r] = none]
      /\ lost' = [lost EXCEPT ![r] = @ \cup Range(P)]
  BY DEF EndPop, At, Ends
<1>2. h \in HandlerRec /\ r \in Requests /\ h \in HandlersOf(r)
  BY HandlerFacts DEF HandlersOf
<1>3. Fits(h, r) /\ Finds(h, r) /\ TrackerInv(r) /\ \A f \in HandlersOf(r) : Fits(f, r) /\ Finds(f, r)
  BY <1>2, SessionFacts
<1>4. cl[r].pc = "finished" /\ P = none
  BY <1>1, <1>3 DEF Fits, Finds
<1>5. Range(none) = {} /\ none = <<>> /\ \A f \in G : FALSE
  BY EmptyList
<1> HIDE DEF G, none, P
<1>6. /\ hits \in [Requests -> HitRec] /\ held \in [Requests -> Seq(Keys)]
      /\ lost \in [Requests -> SUBSET Keys]
  BY DEF Inv, ProtoInv, TypeInv, ThreadType, ServerType
<1>7. /\ hits'[r] = Absent /\ held'[r] = none /\ lost'[r] = lost[r] \cup Range(P)
      /\ \A q \in Requests : q # r => hits'[q] = hits[q] /\ held'[q] = held[q] /\ lost'[q] = lost[q]
  BY <1>1, <1>2, <1>6
<1>8. HandlerStep(h, G)
  BY <1>1, <1>5, <1>7 DEF HandlerStep
<1>9. /\ HandlersOf(r)' = (HandlersOf(r) \ {h}) \cup G
      /\ (Ahead(r)' => Ahead(r)) /\ cl' = cl /\ (Session(r)' => SessionInv')
  BY <1>8, HandlerSession
<1>10. HandlersOf(r)' \subseteq HandlersOf(r)
  BY <1>5, <1>9
<1>11. TrackerInv(r)'
  BY <1>3, <1>4, <1>5, <1>7, <1>9 DEF TrackerInv
<1>12. \A f \in HandlersOf(r) : Fits(f, r)' /\ Finds(f, r)'
  BY <1>3, <1>4, <1>5, <1>7, <1>9 DEF Fits, Finds
<1>13. \A f, g \in HandlersOf(r) : Apart2(f, g)
  BY <1>2, SessionFacts
<1>14. Ended(r)'
  BY <1>5, <1>7 DEF Ended
<1>15. Session(r)'
  BY <1>9, <1>10, <1>11, <1>12, <1>13, <1>14 DEF Session
<1> QED BY <1>9, <1>15
\* A request whose lookup is ahead.
LEMMA StillLooking ==
  ASSUME Inv, SessionInv, NEW r \in Requests, Ahead(r), cl[r].pc # "new"
  PROVE  cl[r].pc = "looking" /\ \A h \in HandlersOf(r) : h.kind = "LOOKUP"
<1>1. cl[r].pc \in {"new", "looking", "resolved", "load", "loading", "running", "finished"}
  BY TrackerFacts DEF TrackerRec
<1>2. cl[r].pc \notin {"resolved", "load", "loading", "running", "finished"}
  BY SessionFacts DEF TrackerInv
<1>3. cl[r].pc = "looking"
  BY <1>1, <1>2
<1> QED BY <1>3, OnlyLookups

\* LOOKUP opens the session and queues the job.
LEMMA HandleLookupSession ==
  ASSUME Inv, SessionInv, NEW h \in handlers, HandleLookup(h)
  PROVE  SessionInv'
<1> DEFINE r == h.rid
           keys == IF deployed THEN LookupKeys(h.rid) ELSE <<>>
           job == [rid |-> h.rid, keys |-> keys]
<1>1. /\ h.kind = "LOOKUP" /\ handlers' = handlers \ {h} /\ jobs' = Append(jobs, job)
      /\ hits' = [hits EXCEPT ![r] = Pending] /\ UNCHANGED <<held, pf, cl, lost>>
  BY DEF HandleLookup, At, Ends
<1>2. job.rid = r
  OBVIOUS
<1> HIDE DEF job
<1>3. r \in Requests /\ h \in HandlersOf(r)
  BY HandlerFacts DEF HandlersOf
<1>4. h = Handler("LOOKUP", r, 0)
  BY <1>1 DEF Inv, ProtoInv, OnceInv
<1> HIDE DEF r
<1>5. Ahead(r) /\ cl[r].pc # "new"
  <2>1. LookedUp(r)
    BY <1>4 DEF LookedUp
  <2>2. \A f \in handlers : cl[r].pc = "new" => f.rid # r
    BY <1>3 DEF Inv, ProtoInv, OnceInv
  <2> QED BY <2>1, <2>2 DEF Ahead, r
<1>6. cl[r].pc = "looking" /\ \A f \in HandlersOf(r) : f.kind = "LOOKUP"
  BY <1>3, <1>5, StillLooking
<1>7. /\ hits'[r] = Pending /\ \A q \in Requests : q # r => hits'[q] = hits[q]
  BY <1>1, <1>3 DEF Inv, ProtoInv, TypeInv, ThreadType
<1>8. ASSUME NEW q \in Requests, q # r PROVE Session(q)'
  <2>1. HandlersOf(q)' = HandlersOf(q)
    BY <1>1, <1>8 DEF HandlersOf, r
  <2>2. Queued(q)' => Queued(q)
    <3>1. jobs \in Seq(JobRec)
      BY DEF Inv, ProtoInv, TypeInv, ThreadType
    <3>2. \A i \in 1 .. Len(jobs') : (i \in 1 .. Len(jobs) /\ jobs'[i] = jobs[i]) \/ jobs'[i] = job
      BY <1>1, <3>1
    <3> QED BY <1>2, <1>8, <3>2 DEF Queued
  <2>3. LookedUp(q)' => LookedUp(q)
    BY <1>1 DEF LookedUp, Handler
  <2>4. Ahead(q)' => Ahead(q)
    BY <1>1, <2>2, <2>3 DEF Ahead
  <2>5. cl'[q] = cl[q] /\ hits'[q] = hits[q] /\ held'[q] = held[q] /\ lost'[q] = lost[q]
    BY <1>1, <1>7, <1>8
  <2>6. Session(q)
    BY DEF SessionInv
  <2> QED BY <2>1, <2>4, <2>5, <2>6, OtherSession
<1>9. HandlersOf(r)' \subseteq HandlersOf(r)
  BY <1>1 DEF HandlersOf
<1>10. TrackerInv(r)'
  <2>1. lost[r] = {}
    BY <1>3, SessionFacts DEF TrackerInv
  <2> QED BY <1>1, <1>6, <1>7, <2>1 DEF TrackerInv, Pending
<1>11. \A f \in HandlersOf(r) : Fits(f, r)' /\ Finds(f, r)'
  BY <1>6 DEF Fits, Finds
<1>12. \A f, g \in HandlersOf(r) : Apart2(f, g)
  BY <1>6 DEF Apart2
<1>13. Session(r)'
  BY <1>1, <1>6, <1>9, <1>10, <1>11, <1>12 DEF Session
<1> QED BY <1>8, <1>13 DEF SessionInv

\* Every step of a handler.
LEMMA HandlersSession ==
  ASSUME Inv, SessionInv, NEW h \in handlers, Handle(h)
  PROVE  SessionInv'
<1>1. CASE HandleLookup(h)
  BY <1>1, HandleLookupSession
<1>2. CASE FreeFirst(h) \/ FreeRelease(h)
  BY <1>2, FreeFirstSession, FreeReleaseSession
<1>3. CASE EndRelease(h) \/ EndFinish(h) \/ EndPop(h)
  BY <1>3, EndReleaseSession, EndFinishSession, EndPopSession
<1>4. CASE RetrieveRead(h) \/ RetrieveSend(h) \/ RetrievePromote(h) \/ RetrieveFinish(h) \/ FreeFinish(h)
  BY <1>4, RetrievesSession
<1>5. CASE RetrieveRelease(h)
  BY <1>5, RetrieveReleaseSession
<1>6. CASE StoreReserve(h) \/ StoreReserveNone(h) \/ StoreUnknown(h) \/ StoreCopy(h) \/ StoreFinish(h)
  BY <1>6, StoresSession
<1> QED BY <1>1, <1>2, <1>3, <1>4, <1>5, <1>6 DEF Handle

-----------------------------------------------------------------------------

(***************************************************************************)
(* The threads of the storage stack.                                       *)
(***************************************************************************)

\* A step that concerns no session.
LEMMA NoSession ==
  ASSUME SessionInv, UNCHANGED <<handlers, cl, lost, hits, held>>,
         \A q \in Requests : Queued(q)' \/ pf'.rid = q => Queued(q) \/ pf.rid = q
  PROVE  SessionInv'
<1>1. \A q \in Requests : Ahead(q)' => Ahead(q)
  BY DEF Ahead, LookedUp
<1>2. \A q \in Requests : HandlersOf(q)' = HandlersOf(q)
  BY DEF HandlersOf
<1> QED BY <1>1, <1>2, OtherSession DEF SessionInv

\* The same, when the jobs stay and the prefetch thread stays with its request.
LEMMA SameJobs ==
  ASSUME SessionInv, UNCHANGED <<handlers, cl, lost, hits, held, jobs>>, pf'.rid \in {pf.rid, NoRequest}
  PROVE  SessionInv'
<1>1. \A q \in Requests : Queued(q)' \/ pf'.rid = q => Queued(q) \/ pf.rid = q
  BY RequestAssumption DEF Queued
<1> QED BY <1>1, NoSession

\* The result is published, and what it covers is held by the session.
LEMMA PfResolveSession ==
  ASSUME Inv, SessionInv, PfResolve, UNCHANGED <<handlers, cl, lost>>
  PROVE  SessionInv'
<1> DEFINE l2 == Len(pf.hit) - pf.l1
           idle == PfIdle
<1>1. pf.pc = "resolve" /\ UNCHANGED <<handlers, cl, lost, jobs>>
  BY DEF PfResolve
<1>2. CASE hits[pf.rid].state = "absent"
  <2> DEFINE pc == "unhold"
             g == [pf EXCEPT !.pc = pc]
  <2>1. pf' = g /\ UNCHANGED <<hits, held>>
    BY <1>2 DEF PfResolve
  <2> HIDE DEF pc
  <2>2. g.rid = pf.rid
    BY PfFacts DEF PfRec
  <2> HIDE DEF g
  <2>3. pf'.rid \in {pf.rid, NoRequest}
    BY <2>1, <2>2
  <2> QED BY <1>1, <2>1, <2>3, SameJobs
<1>3. CASE hits[pf.rid].state # "absent"
  <2>0. PICK r \in Requests : r = pf.rid
    BY <1>1 DEF Inv, ProtoInv, PfInv
  <2>1. /\ hits' = [hits EXCEPT ![r] = Resolved(pf.l1, l2)] /\ held' = [held EXCEPT ![r] = pf.hit]
        /\ pf' = idle
    BY <1>3, <2>0 DEF PfResolve
  <2>2. r \in Requests /\ Begins(pf.hit, LookupKeys(r)) /\ idle.rid = NoRequest
    BY <1>1, <2>0 DEF Inv, ProtoInv, PrefixInv, PfIdle
  <2> HIDE DEF idle
  <2>3. pf.l1 \in Nat /\ Len(pf.hit) \in Nat /\ pf.l1 <= Len(pf.hit)
    BY PfFacts
  <2>4. l2 \in Nat /\ pf.l1 + l2 = Len(pf.hit)
    BY <2>3
  <2> HIDE DEF l2
  <2>5. Resolved(pf.l1, l2).l1 = pf.l1 /\ Resolved(pf.l1, l2).l2 = l2
    BY DEF Resolved
  <2>6. /\ hits'[r] = Resolved(pf.l1, l2) /\ held'[r] = pf.hit
        /\ \A q \in Requests : q # r => hits'[q] = hits[q] /\ held'[q] = held[q]
    BY <2>1, <2>2 DEF Inv, ProtoInv, TypeInv, ThreadType
  <2>7. Ahead(r) /\ cl[r].pc # "new"
    BY <2>0, <2>2 DEF Ahead, Inv, ProtoInv, OnceInv
  <2>8. cl[r].pc = "looking" /\ \A h \in HandlersOf(r) : h.kind = "LOOKUP"
    BY <2>2, <2>7, StillLooking
  <2>9. lost[r] = {}
    BY <2>2, SessionFacts DEF TrackerInv
  <2>10. ASSUME NEW q \in Requests, q # r PROVE Session(q)'
    <3>1. Ahead(q)' => Ahead(q)
      BY <1>1, <2>1, <2>2, RequestAssumption DEF Ahead, LookedUp, Queued
    <3>2. HandlersOf(q)' = HandlersOf(q)
      BY <1>1 DEF HandlersOf
    <3>3. Session(q)
      BY DEF SessionInv
    <3>4. cl'[q] = cl[q] /\ hits'[q] = hits[q] /\ held'[q] = held[q] /\ lost'[q] = lost[q]
      BY <1>1, <2>6, <2>10
    <3> QED BY <3>1, <3>2, <3>3, <3>4, OtherSession
  <2>11. HandlersOf(r)' = HandlersOf(r)
    BY <1>1 DEF HandlersOf
  <2>12. TrackerInv(r)'
    <3>1. Begins(held[r], LookupKeys(r))' /\ Len(held'[r]) = hits'[r].l1 + hits'[r].l2
      <4>1. Begins(held'[r], LookupKeys(r))
        BY <2>2, <2>6
      <4>2. LookupKeys(r)' = LookupKeys(r)
        BY DEF LookupKeys
      <4> QED BY <2>4, <2>5, <2>6, <4>1, <4>2
    <3> QED BY <1>1, <2>8, <2>9, <3>1 DEF TrackerInv
  <2>13. \A h \in HandlersOf(r) : Fits(h, r)' /\ Finds(h, r)'
    BY <2>8 DEF Fits, Finds
  <2>14. \A h, g \in HandlersOf(r) : Apart2(h, g)
    BY <2>8 DEF Apart2
  <2>15. Session(r)'
    BY <1>1, <2>8, <2>11, <2>12, <2>13, <2>14 DEF Session
  <2> QED BY <2>10, <2>15 DEF SessionInv
<1> QED BY <1>2, <1>3

\* The prefetch thread takes a job.
LEMMA PfGetSession ==
  ASSUME Inv, SessionInv, PfGet, UNCHANGED <<handlers, cl, lost>>
  PROVE  SessionInv'
<1> DEFINE keys == Head(jobs).keys
           n == PrefixHits(keys)
           missing == After(n, keys)
           pc == IF missing = <<>> \/ NumAdapters = 0 THEN "resolve" ELSE "lookup"
           rid == Head(jobs).rid
           hit == First(n, keys)
           idle == PfIdle
           g == [idle EXCEPT !.pc = pc, !.rid = rid, !.missing = missing, !.hit = hit, !.l1 = n]
<1>1. pf' = g /\ jobs # <<>> /\ jobs' = Tail(jobs) /\ UNCHANGED <<hits, held>>
  BY DEF PfGet
<1>2. idle = [pc |-> idle.pc, rid |-> idle.rid, missing |-> idle.missing, hit |-> idle.hit, l1 |-> idle.l1,
              load |-> idle.load, objs |-> idle.objs, loaded |-> idle.loaded,
              l2_hits |-> idle.l2_hits, tried |-> idle.tried]
  BY DEF PfIdle
<1> HIDE DEF idle, pc, missing, hit, n, keys, rid
<1>3. g.rid = rid
  BY <1>2
<1> HIDE DEF g
<1>4. jobs \in Seq(JobRec) /\ rid = jobs[1].rid /\ 1 \in 1 .. Len(jobs)
  <2>1. jobs \in Seq(JobRec)
    BY DEF Inv, ProtoInv, TypeInv, ThreadType
  <2> QED BY <1>1, <2>1 DEF rid
<1>5. \A i \in 1 .. Len(jobs') : i + 1 \in 1 .. Len(jobs) /\ jobs'[i] = jobs[i + 1]
  BY <1>1, <1>4
<1>6. \A q \in Requests : Queued(q)' \/ pf'.rid = q => Queued(q) \/ pf.rid = q
  <2>1. \A q \in Requests : Queued(q)' => Queued(q)
    BY <1>5 DEF Queued
  <2>2. \A q \in Requests : pf'.rid = q => Queued(q)
    BY <1>1, <1>3, <1>4 DEF Queued
  <2> QED BY <2>1, <2>2
<1> QED BY <1>1, <1>6, NoSession

\* The steps of the prefetch thread within its request.
LEMMA PfKeepsRequest ==
  ASSUME Inv, Prefetch, ~PfGet, ~PfResolve
  PROVE  pf'.rid \in {pf.rid, NoRequest} /\ UNCHANGED <<hits, held, jobs>>
<1>1. pf \in PfRec
  BY PfFacts
<1>2. \A pc : [pf EXCEPT !.pc = pc].rid = pf.rid
  BY <1>1 DEF PfRec
<1>3. \A pc, x : /\ [pf EXCEPT !.pc = pc, !.l2_hits = x].rid = pf.rid
                 /\ [pf EXCEPT !.pc = pc, !.tried = x].rid = pf.rid
                 /\ [pf EXCEPT !.pc = pc, !.loaded = x].rid = pf.rid
                 /\ [pf EXCEPT !.pc = pc, !.load = x].rid = pf.rid
  BY <1>1 DEF PfRec
<1>4. \A pc, x, y : /\ [pf EXCEPT !.load = x, !.objs = y, !.pc = pc].rid = pf.rid
                    /\ [pf EXCEPT !.pc = pc, !.hit = x, !.load = y].rid = pf.rid
  BY <1>1 DEF PfRec
<1>5. CASE PfLookup \/ PfDies \/ PfReserveStops
  BY <1>2, <1>5 DEF PfLookup, PfDies, PfReserveStops
<1>6. CASE PfLookups
  <2> DEFINE pc == IF \E a \in Adapters : [b \in Adapters |-> futures[b]["prefetch"].result][a] > 0
                   THEN "reserve" ELSE "resolve"
             x == [a \in Adapters |-> futures[a]["prefetch"].result]
  <2>1. pf' = [pf EXCEPT !.pc = pc, !.l2_hits = x] /\ UNCHANGED <<hits, held, jobs>>
    BY <1>6 DEF PfLookups
  <2> HIDE DEF pc, x
  <2> QED BY <1>3, <2>1
<1>11. ASSUME NEW a \in Adapters, PfLoad(a) \/ PfLoaded(a)
       PROVE  pf'.rid \in {pf.rid, NoRequest} /\ UNCHANGED <<hits, held, jobs>>
  <2>1. CASE PfLoad(a)
    <3> DEFINE pc == "loading"
               x == pf.tried \cup {a}
    <3>1. pf' = [pf EXCEPT !.pc = pc, !.tried = x] /\ UNCHANGED <<hits, held, jobs>>
      BY <2>1 DEF PfLoad
    <3> HIDE DEF pc, x
    <3> QED BY <1>3, <3>1
  <2>2. CASE PfLoaded(a)
    <3> DEFINE pc == "load"
               x == pf.loaded + futures[a]["prefetch"].result
    <3>1. pf' = [pf EXCEPT !.pc = pc, !.loaded = x] /\ UNCHANGED <<hits, held, jobs>>
      BY <2>2 DEF PfLoaded
    <3> HIDE DEF pc, x
    <3> QED BY <1>3, <3>1
  <2> QED BY <1>11, <2>1, <2>2
<1>7. CASE PfDiscard
  BY <1>3, <1>7 DEF PfDiscard
<1>8. CASE PfReserve
  BY <1>4, <1>8 DEF PfReserve
<1>9. CASE PfPublish
  BY <1>4, <1>9 DEF PfPublish
<1>10. CASE PfUnhold
  BY <1>10 DEF PfUnhold, PfIdle
<1> QED BY <1>5, <1>6, <1>7, <1>8, <1>9, <1>10, <1>11 DEF Prefetch

\* Every step of the storage stack.
LEMMA BackgroundSession ==
  ASSUME Inv, SessionInv, Background
  PROVE  SessionInv'
<1>1. UNCHANGED <<handlers, cl, lost>>
  BY DEF Background, serverVars
<1>2. CASE Prefetch
  <2>1. ~PfGet /\ ~PfResolve => SessionInv'
    BY <1>1, <1>2, PfKeepsRequest, SameJobs
  <2> QED BY <1>1, <2>1, PfGetSession, PfResolveSession
<1>3. CASE Store \/ Eviction \/ \E a \in Adapters : Worker(a) \/ Storage(a)
  <2>1. UNCHANGED prefetchVars
    BY <1>3 DEF Store, StGet, StSubmit, StWait, StDies, Eviction, EvCheck, EvScan, EvDelete, Worker, Storage
  <2> QED BY <1>1, <2>1, SameJobs DEF prefetchVars
<1> QED BY <1>2, <1>3 DEF Background

\* Every step.
LEMMA SessionStep ==
  ASSUME Patient, Inv, SessionInv, [Next]_vars
  PROVE  SessionInv'
<1>1. CASE (\E rank \in Ranks : Register(rank) \/ Unregister(rank)) \/ Waiting \/ UNCHANGED vars
  <2>1. UNCHANGED <<handlers, cl, lost, prefetchVars>>
    BY <1>1 DEF Register, Unregister, Waiting, vars, smVars, serverVars
  <2> QED BY <2>1, SameJobs DEF prefetchVars
<1> QED BY <1>1, ClientsSession, HandlersSession, BackgroundSession DEF Next

\* Nothing has been asked for.
LEMMA InitSession ==
  ASSUME Init
  PROVE  SessionInv
<1> SUFFICES ASSUME NEW r \in Requests PROVE Session(r)
  BY DEF SessionInv
<1>1. cl[r].pc = "new" /\ lost[r] = {} /\ HandlersOf(r) = {}
  BY DEF Init, NewTracker, HandlersOf
<1>2. TrackerInv(r)
  BY <1>1 DEF TrackerInv
<1> QED BY <1>1, <1>2 DEF Session
-----------------------------------------------------------------------------

(***************************************************************************)
(* What a RETRIEVE reads and sends.                                        *)
(***************************************************************************)

\* Until it has sent its chunks a RETRIEVE has them held by the session.
SendsHeld ==
  \A h \in handlers : h.kind = "RETRIEVE" /\ h.pc \in {"start", "send"} =>
    \A k \in Range(h.keys) : readable(k)

\* What is held is readable.
LEMMA HeldIsReadable ==
  Inv /\ SessionInv => SendsHeld
<1> SUFFICES ASSUME Inv, SessionInv, NEW h \in handlers, h.kind = "RETRIEVE", h.pc \in {"start", "send"},
                    NEW k \in Range(h.keys)
             PROVE  readable(k)
  BY DEF SendsHeld
<1> DEFINE r == h.rid
<1>1. r \in Requests /\ h \in HandlersOf(r)
  BY HandlerFacts DEF HandlersOf
<1>2. Fits(h, r) /\ Finds(h, r)
  BY <1>1, SessionFacts
<1>3. k \in Range(held[r])
  BY <1>2 DEF Fits, Finds
<1>4. k \in HeldFor(r)
  BY <1>3, HeldIs
<1>5. r \in L1Clients /\ k \in Holds[r]
  BY <1>1, <1>4, Owners
<1> QED BY <1>5, ContractFacts DEF Inv

\* The same after a step.
LEMMA HeldIsReadableNext ==
  Inv' /\ SessionInv' => SendsHeld'
<1>1. Inv /\ SessionInv => SendsHeld
  BY HeldIsReadable
<1> QED BY <1>1, PTL

\* A handler that is about to send was so before, or it has just read.
LEMMA SendIs ==
  ASSUME Inv, [Next]_vars, NEW h \in handlers', At(h, "RETRIEVE", "send"), h \notin handlers
  PROVE  Slices(h.objs, h.keys)'
<1>1. PICK g \in handlers : Handle(g)
  <2>1. CASE \E r \in Requests : Client(r)
    <3>1. PICK r \in Requests : Client(r)
      BY <2>1
    <3>2. \A kind, q, n : Handler(kind, q, n).pc = "start"
      BY DEF Handler
    <3>3. \A kind, q, s, e : \A f \in Transfers(kind, q, s, e) : f.pc = "start"
      BY DEF Transfers, Handler
    <3>4. h.pc = "start"
      BY <3>1, <3>2, <3>3 DEF Client, SubmitLookup, Query, QueryTimeout, UpdateStateAfterAlloc,
                              SubmitRetrieve, LoadsDone, SubmitStore, RequestFinished, Spawn, serverVars
    <3> QED BY <3>4 DEF At
  <2>2. CASE \E rank \in Ranks : Register(rank) \/ Unregister(rank)
    BY <2>2 DEF Register, Unregister
  <2>3. CASE Background \/ Waiting \/ UNCHANGED vars
    BY <2>3 DEF Background, Waiting, vars, serverVars
  <2> QED BY <2>1, <2>2, <2>3 DEF Next
<1>2. g \in HandlerRec
  BY HandlerFacts
<1>3. ~Ends(g) /\ (\A f : Becomes(g, f) => h = f) /\ h.kind = "RETRIEVE" /\ h.pc = "send"
  BY DEF Ends, Becomes, At
<1>4. \A pc : Becomes(g, [g EXCEPT !.pc = pc]) => h.kind = g.kind /\ h.pc = pc
  <2> TAKE pc
  <2>1. [g EXCEPT !.pc = pc].kind = g.kind /\ [g EXCEPT !.pc = pc].pc = pc
    BY <1>2 DEF HandlerRec
  <2> QED BY <1>3, <2>1
<1>5. \A pc, x : /\ Becomes(g, [g EXCEPT !.pc = pc, !.keys = x]) => h.kind = g.kind /\ h.pc = pc
                 /\ Becomes(g, [g EXCEPT !.pc = pc, !.objs = x]) =>
                      h.kind = g.kind /\ h.pc = pc /\ h.objs = x /\ h.keys = g.keys
                 /\ Becomes(g, [g EXCEPT !.n = x, !.pc = pc]) => h.kind = g.kind
  <2> TAKE pc, x
  <2>1. /\ [g EXCEPT !.pc = pc, !.keys = x].kind = g.kind
        /\ [g EXCEPT !.pc = pc, !.keys = x].pc = pc
        /\ [g EXCEPT !.pc = pc, !.objs = x].kind = g.kind
        /\ [g EXCEPT !.pc = pc, !.objs = x].pc = pc
        /\ [g EXCEPT !.pc = pc, !.objs = x].objs = x
        /\ [g EXCEPT !.pc = pc, !.objs = x].keys = g.keys
        /\ [g EXCEPT !.n = x, !.pc = pc].kind = g.kind
    BY <1>2 DEF HandlerRec
  <2> QED BY <1>3, <2>1
<1>6. \A pc, x, y : Becomes(g, [g EXCEPT !.pc = pc, !.keys = x, !.objs = y]) => h.kind = g.kind
  <2> TAKE pc, x, y
  <2>1. [g EXCEPT !.pc = pc, !.keys = x, !.objs = y].kind = g.kind
    BY <1>2 DEF HandlerRec
  <2> QED BY <1>3, <2>1
<1>7. g.kind = "RETRIEVE"
  <2>1. g.kind # "LOOKUP"
    BY <1>1, <1>3 DEF Handle, HandleLookup, At, FreeFirst, FreeRelease, FreeFinish, EndRelease, EndFinish,
                      EndPop, RetrieveRead, RetrieveSend, RetrievePromote, RetrieveRelease, RetrieveFinish,
                      StoreReserve, StoreReserveNone, StoreUnknown, StoreCopy, StoreFinish
  <2>2. g.kind # "FREE"
    <3> SUFFICES ASSUME g.kind = "FREE" PROVE FALSE
      OBVIOUS
    <3>1. FreeFirst(g) \/ FreeRelease(g) \/ FreeFinish(g)
      BY <1>1 DEF Handle, HandleLookup, At, EndRelease, EndFinish, EndPop,
                  RetrieveRead, RetrieveSend, RetrievePromote, RetrieveRelease, RetrieveFinish,
                  StoreReserve, StoreReserveNone, StoreUnknown, StoreCopy, StoreFinish
    <3> QED BY <1>3, <1>5, <3>1 DEF FreeFirst, FreeRelease, FreeFinish, Release
  <2>3. g.kind # "END"
    <3> SUFFICES ASSUME g.kind = "END" PROVE FALSE
      OBVIOUS
    <3>1. EndRelease(g) \/ EndFinish(g) \/ EndPop(g)
      BY <1>1 DEF Handle, HandleLookup, At, FreeFirst, FreeRelease, FreeFinish,
                  RetrieveRead, RetrieveSend, RetrievePromote, RetrieveRelease, RetrieveFinish,
                  StoreReserve, StoreReserveNone, StoreUnknown, StoreCopy, StoreFinish
    <3> QED BY <1>3, <1>5, <3>1 DEF EndRelease, EndFinish, EndPop, Release
  <2>4. g.kind # "STORE"
    <3> SUFFICES ASSUME g.kind = "STORE" PROVE FALSE
      OBVIOUS
    <3>1. StoreReserve(g) \/ StoreReserveNone(g) \/ StoreUnknown(g) \/ StoreCopy(g) \/ StoreFinish(g)
      BY <1>1 DEF Handle, HandleLookup, At, FreeFirst, FreeRelease, FreeFinish, EndRelease, EndFinish, EndPop,
                  RetrieveRead, RetrieveSend, RetrievePromote, RetrieveRelease, RetrieveFinish
    <3> QED BY <1>3, <1>5, <1>6, <3>1 DEF StoreReserve, StoreReserveNone, StoreUnknown, StoreCopy, StoreFinish
  <2> QED BY <1>2, <2>1, <2>2, <2>3, <2>4 DEF HandlerRec
<1>8. RetrieveRead(g)
  <2>1. \/ RetrieveRead(g) \/ RetrieveSend(g) \/ RetrievePromote(g) \/ RetrieveRelease(g) \/ RetrieveFinish(g)
    BY <1>1, <1>7 DEF Handle, HandleLookup, At, FreeFirst, FreeRelease, FreeFinish, EndRelease, EndFinish,
                      EndPop, StoreReserve, StoreReserveNone, StoreUnknown, StoreCopy, StoreFinish
  <2> QED BY <1>3, <1>4, <1>5, <2>1 DEF RetrieveSend, RetrievePromote, RetrieveRelease, RetrieveFinish, Release
<1>9. /\ Range(g.keys) \subseteq DOMAIN entries
      /\ Becomes(g, [g EXCEPT !.pc = "send", !.objs = ObjsOf(g.keys)])
      /\ UNCHANGED entries
  BY <1>3, <1>8 DEF RetrieveRead, smVars, l1Vars
<1>11. h.objs = ObjsOf(g.keys) /\ h.keys = g.keys
  BY <1>5, <1>9
<1>12. Slices(ObjsOf(g.keys), g.keys)
  <2>1. g.keys \in Seq(Keys) /\ \A i \in 1 .. Len(g.keys) : g.keys[i] \in Range(g.keys)
    BY HandlerFacts, RangeOf
  <2> QED BY <1>9, <2>1 DEF ObjsOf, Slices
<1>13. Slices(h.objs, h.keys)
  BY <1>11, <1>12
<1> QED BY <1>9, <1>13 DEF Slices

\* The slices stay those of the chunks.
LEMMA SendStep ==
  ASSUME Inv, SessionInv, SendInv, Inv', SessionInv', [Next]_vars
  PROVE  SendInv'
<1> SUFFICES ASSUME NEW h \in handlers', At(h, "RETRIEVE", "send") PROVE Slices(h.objs, h.keys)'
  BY DEF SendInv, At
<1>1. CASE h \in handlers
  <2>1. Slices(h.objs, h.keys)
    BY <1>1 DEF SendInv
  <2>2. \A k \in Range(h.keys) : k \in DOMAIN entries'
    BY HeldIsReadableNext DEF SendsHeld, At, readable
  <2>3. \A k \in DOMAIN entries : k \in DOMAIN entries' => entries'[k].obj = entries[k].obj
    BY InvStep, ContractStep DEF Inv
  <2>4. h.keys \in Seq(Keys) /\ \A i \in 1 .. Len(h.keys) : h.keys[i] \in Range(h.keys)
    BY <1>1, HandlerFacts, RangeOf
  <2> QED BY <2>1, <2>2, <2>3, <2>4 DEF Slices
<1>2. CASE h \notin handlers
  BY <1>2, SendIs
<1> QED BY <1>1, <1>2

-----------------------------------------------------------------------------

(***************************************************************************)
(* Theorems.                                                               *)
(***************************************************************************)
PatientInv == Inv /\ SessionInv /\ SendInv

\* The sessions keep their invariant in every reachable state, for every
\* number of requests, ranks, chunks and adapters, whatever the adapters
\* lose and wherever the pool is full, as long as requests run to their end.
THEOREM SessionInvariance == ASSUME Patient PROVE Spec => []PatientInv
<1>1. Init => PatientInv
  BY InitInv, InitSession DEF PatientInv, SendInv, Init
<1>2. PatientInv /\ [Next]_vars => PatientInv'
  BY InvStep, SessionStep, SendStep DEF PatientInv
<1> QED BY <1>1, <1>2, PTL DEF Spec

\* A RETRIEVE finds every chunk the lookup promised: the handlers of one
\* request, run in any order with those of the others, the prefetch and the
\* evictor, never take a chunk from under it.
THEOREM RetrievesFindChunks == ASSUME Patient PROVE Spec => []RetrieveNeverMisses
<1>1. PatientInv => RetrieveNeverMisses
  BY HeldIsReadable DEF PatientInv, SendsHeld, RetrieveNeverMisses, At
<1> QED BY <1>1, SessionInvariance, PTL

\* A RETRIEVE sends the bytes of the chunks it was asked for: no slice it
\* collected is freed and reused before it is sent.
THEOREM RetrievesSendOwnBytes == ASSUME Patient PROVE Spec => []RetrieveSendsOwnBytes
<1>1. PatientInv => RetrieveSendsOwnBytes
  <2> SUFFICES ASSUME PatientInv, NEW h \in handlers, At(h, "RETRIEVE", "send"), NEW i \in 1 .. Len(h.keys)
               PROVE  HasBytes(h.objs[i], h.keys[i])
    BY DEF RetrieveSendsOwnBytes
  <2>1. Inv /\ Slices(h.objs, h.keys) /\ SendsHeld
    BY HeldIsReadable DEF PatientInv, SendInv
  <2>2. h.keys[i] \in Range(h.keys)
    BY <2>1, HandlerFacts, RangeOf
  <2>3. h.keys[i] \in DOMAIN entries /\ h.objs[i] = entries[h.keys[i]].obj /\ readable(h.keys[i])
    BY <2>1, <2>2 DEF Slices, SendsHeld, At
  <2> QED BY <2>1, <2>3, ContractFacts DEF Inv
<1> QED BY <1>1, SessionInvariance, PTL

\* When all requests are over L1 has no lock, no hold and no temporary entry
\* left, and the prefetcher no session.
THEOREM QuietIsClean == ASSUME Patient PROVE Spec => []QuiescentClean
<1>1. PatientInv => QuiescentClean
  <2> SUFFICES ASSUME PatientInv, Quiet
               PROVE  /\ \A k \in DOMAIN entries : is_evictable(k) /\ ~entries[k].is_temporary
                      /\ \A r \in Requests : hits[r] = Absent /\ held[r] = <<>>
    BY DEF QuiescentClean
  <2>1. /\ handlers = {} /\ pf = PfIdle /\ st = StIdle /\ Inv
        /\ \A r \in Requests : Session(r) /\ cl[r].pc = "finished"
    BY DEF PatientInv, SessionInv, Quiet
  <2>2. \A r \in Requests : hits[r] = Absent /\ held[r] = <<>> /\ lost[r] = {}
    BY <2>1 DEF Session, Ended, HandlersOf, TrackerInv
  <2>3. Range(StIdle.keys) = {} /\ pf.rid = NoRequest
    BY <2>1, EmptyList DEF StIdle, PfIdle
  <2>4. \A r \in Requests : Range(held[r]) = {}
    BY <2>2, EmptyList
  <2>5. \A r \in Requests : HeldFor(r) = {}
    <3> TAKE r \in Requests
    <3>1. \A k : ~HandlerDrops(r, k)
      BY <2>1 DEF HandlerDrops
    <3>2. pf.rid # r
      BY <2>3, RequestAssumption
    <3> QED BY <2>2, <2>4, <3>1, <3>2, HeldIs
  <2>6. \A r \in Requests : WritingFor(r) = {}
    BY <2>1, <2>3, RequestAssumption DEF WritingFor, KeysOf
  <2>7. \A c \in L1Clients : Holds[c] = {} /\ Writing[c] = {}
    BY <2>1, <2>3, <2>5, <2>6, Owners
  <2>8. L1!CountsMatchHolds /\ L1!WriterExclusive /\ L1!TemporaryIsReferenced
    BY <2>1 DEF Inv, L1!IInv
  <2>9. \A k : L1!Holders(k) = {}
    BY <2>7 DEF L1!Holders
  <2>10. \A k \in DOMAIN entries : entries[k].read_count = 0
    <3> TAKE k \in DOMAIN entries
    <3>1. entries[k].read_count = L1!Cardinality(L1!Holders(k))
      BY <2>8 DEF L1!CountsMatchHolds
    <3>2. L1!Holders(k) = {}
      BY <2>9
    <3>3. L1!Cardinality(L1!Holders(k)) = 0
      BY <3>2, ContractAssumptions, PoolAssumption, L1!UnheldIsZero
    <3> QED BY <3>1, <3>3
  <2>11. \A k \in DOMAIN entries : entries[k].write_locked \in BOOLEAN /\ entries[k].is_temporary \in BOOLEAN
    <3>1. entries \in [DOMAIN entries -> Entry]
      BY <2>1, ContractFacts DEF Inv
    <3> QED BY <3>1 DEF Entry
  <2>12. \A k \in DOMAIN entries : ~entries[k].write_locked
    BY <2>7, <2>8 DEF L1!WriterExclusive
  <2>13. \A k \in DOMAIN entries : ~entries[k].is_temporary
    <3>1. \A k \in DOMAIN entries : L1!readable(k)
      BY <2>12 DEF L1!readable
    <3> QED BY <2>8, <2>10, <3>1 DEF L1!TemporaryIsReferenced
  <2> QED BY <2>2, <2>10, <2>12, <2>13 DEF is_evictable, unlocked
<1> QED BY <1>1, SessionInvariance, PTL

=============================================================================
