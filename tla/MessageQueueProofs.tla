------------------------- MODULE MessageQueueProofs -------------------------
(***************************************************************************)
(* Proofs about MessageQueue, for any number of clients and requests.      *)
(*                                                                         *)
(* The invariant comes in layers, each proved from ones before it: types   *)
(* and routes of messages (TypeInv), the bytes behind a filled queue       *)
(* (WakeInv), the way of each request from its client to its handler       *)
(* (OrderInv), who holds the send lock (LockInv), when a client closes     *)
(* (CloseInv), what may be behind its UNREGISTER (ByeInv) and which        *)
(* request a reply on its way belongs to (ReplyInv).                       *)
(***************************************************************************)
EXTENDS MessageQueue, SequenceTheorems, TLAPS

RequestMsg == [to : {Server}, from : Clients, uid : Uids, req : ReqKinds]
ReplyMsg == [to : Clients, uid : Uids, ok : BOOLEAN, of : Clients \X Uids]
HandlerRec == [from : Clients, uid : Uids, req : ReqKinds,
               pc : {"run", "lock", "send", "post"}]
FutureRec == [state : {"unset", "result", "exception"},
              of : (Clients \X Uids) \cup {<<>>}, req : ReqKinds \cup {"none"}]
IOState == [pc : {"loop", "poll", "wake", "drain", "send", "recv", "exit"},
            sock : BOOLEAN]

\* What endpoint e sends, and what it receives.
Sent(e) == IF e = Server THEN ReplyMsg ELSE RequestMsg
Rcvd(e) == IF e = Server THEN RequestMsg ELSE ReplyMsg
Message == RequestMsg \cup ReplyMsg

\* The types, and that the I/O thread finds a message where it takes one.
LoopType ==
  /\ send_queue \in [Endpoints -> Seq(Message)]
  /\ \A e \in Endpoints : send_queue[e] \in Seq(Sent(e))
  /\ wake \in [Endpoints -> Nat]
  /\ waking \in [Endpoints -> Nat]
  /\ closing \in [Endpoints -> {"open", "stopping", "joining", "closed"}]
  /\ io \in [Endpoints -> IOState]
  /\ send_lock \in [Endpoints -> {Free, IOThread} \cup (Clients \X Uids)]
  /\ inbox \in [Endpoints -> Seq(Message)]
  /\ \A e \in Endpoints : inbox[e] \in Seq(Rcvd(e))
  /\ \A e \in Endpoints :
       /\ io[e].pc = "send" => send_queue[e] # <<>>
       /\ io[e].pc = "recv" => inbox[e] # <<>>
       /\ io[e].sock = TRUE /\ io[e].pc \in {"wake", "drain", "send"} => inbox[e] # <<>>

ClientType ==
  /\ uid_counter \in [Clients -> 0 .. MaxUid]
  /\ pending \in [Clients -> SUBSET Uids]
  /\ futures \in [Clients -> [Uids -> FutureRec]]
  /\ submitting \in [Clients -> [Uids -> {"no", "file", "put"}]]
  /\ \A c \in Clients, u \in Uids :
       submitting[c][u] # "no" => futures[c][u].req \in ReqKinds
  /\ bye \in [Clients -> Uids \cup {None}]
  /\ raised \in [Clients -> BOOLEAN]
  /\ handlers \subseteq HandlerRec
  /\ crashed \in BOOLEAN

TypeInv == LoopType /\ ClientType

\* A filled queue has a byte in the pipe or a thread about to write one,
\* wherever the I/O thread has not yet begun to empty it; the server never
\* closes.
WakeInv ==
  /\ closing[Server] = "open"
  /\ \A e \in Endpoints :
       /\ closing[e] = "closed" => io[e].pc = "exit"
       /\ io[e].pc \in {"loop", "poll", "wake", "recv"} /\ send_queue[e] # <<>>
            => wake[e] > 0 \/ waking[e] > 0

\* Request u of client c has been submitted and is no longer in c's queue.
HasLeft(c, u) ==
  /\ u < uid_counter[c]
  /\ submitting[c][u] = "no"
  /\ \A i \in 1 .. Len(send_queue[c]) : send_queue[c][i].uid # u

\* Request u of client c is for req.
IsRequest(c, u, req) ==
  /\ u < uid_counter[c]
  /\ req = futures[c][u].req

\* A request is in one place of its way at a time: with the thread that
\* submits it, in the client's queue, on its way to the server or in its
\* handler.  Two threads may queue theirs in either order.  What has been
\* answered has left.
ClientOrder ==
  \A c \in Clients :
    /\ \A u \in Uids :
         /\ u >= uid_counter[c] =>
              futures[c][u] = NoFuture /\ u \notin pending[c] /\ submitting[c][u] = "no"
         /\ u < uid_counter[c] => futures[c][u].req \in ReqKinds
         /\ futures[c][u].state # "unset" => HasLeft(c, u)
    /\ \A i \in 1 .. Len(send_queue[c]) :
         /\ send_queue[c][i].from = c
         /\ IsRequest(c, send_queue[c][i].uid, send_queue[c][i].req)
         /\ submitting[c][send_queue[c][i].uid] = "no"
    /\ \A i, j \in 1 .. Len(send_queue[c]) :
         i < j => send_queue[c][i].uid # send_queue[c][j].uid

ServerOrder ==
  /\ \A i \in 1 .. Len(inbox[Server]) :
       LET m == inbox[Server][i]
       IN  IsRequest(m.from, m.uid, m.req) /\ HasLeft(m.from, m.uid)
  /\ \A i, j \in 1 .. Len(inbox[Server]) :
       i < j /\ inbox[Server][i].from = inbox[Server][j].from
         => inbox[Server][i].uid # inbox[Server][j].uid
  /\ \A h \in handlers :
       /\ IsRequest(h.from, h.uid, h.req) /\ HasLeft(h.from, h.uid)
       /\ \A i \in 1 .. Len(inbox[Server]) :
            inbox[Server][i].from = h.from => h.uid # inbox[Server][i].uid
  /\ \A g, h \in handlers : g.from = h.from /\ g.uid = h.uid => g = h

ReplyOrder ==
  /\ \A i \in 1 .. Len(send_queue[Server]) :
       HasLeft(send_queue[Server][i].to, send_queue[Server][i].uid)
  /\ \A c \in Clients : \A i \in 1 .. Len(inbox[c]) :
       inbox[c][i].to = c /\ HasLeft(c, inbox[c][i].uid)

OrderInv == ClientOrder /\ ServerOrder /\ ReplyOrder

\* The thread that sends holds the lock.
LockInv ==
  /\ \A e \in Endpoints : io[e].pc = "send" => send_lock[e] = IOThread
  /\ \A h \in handlers : h.pc = "send" => send_lock[Server] = <<h.from, h.uid>>

\* A client closes after its UNREGISTER was answered, and its I/O thread
\* ends only then.
CloseInv ==
  \A c \in Clients :
    /\ io[c].pc = "exit" => closing[c] # "open"
    /\ closing[c] # "open" => bye[c] # None /\ futures[c][bye[c]].state = "result"

\* Behind the UNREGISTER of a client, and while it is being submitted, there
\* are only the acks of load threads.
ByeInv ==
  \A c \in Clients :
    bye[c] # None =>
      /\ \A u \in Uids :
           submitting[c][u] # "no" => u = bye[c] \/ futures[c][u].req = "ack"
      /\ submitting[c][bye[c]] = "no" =>
           \A i \in 1 .. Len(send_queue[c]) :
             \/ send_queue[c][i].req = "ack"
             \/ \E j \in i .. Len(send_queue[c]) : send_queue[c][j].uid = bye[c]

\* The reply of request u has reached c, or comes before any other, or is
\* dropped with c's socket.
Answered(c, u) ==
  \/ u \notin pending[c]
  \/ closing[c] = "closed"
  \/ \E i \in 1 .. Len(inbox[c]) : inbox[c][i].uid = u /\ inbox[c][i].ok = TRUE

\* A reply belongs to its request, and says how the handler ended unless it
\* is the second reply of a handler whose post_send raised.
IsReply(c, u, ok, of) ==
  /\ of = <<c, u>>
  /\ futures[c][u].req \in {"value", "ack"} => ok = TRUE
  /\ futures[c][u].req = "error" => ok = FALSE

SecondReply(c, u, ok) == ok = FALSE /\ futures[c][u].req = "chunks"

\* The futures of client c: settled once, by the reply of their own request.
CallsInv(c) ==
  /\ raised[c] = FALSE
  /\ \A u \in pending[c] : futures[c][u].state = "unset"
  /\ \A u \in Uids : futures[c][u].state # "unset" => futures[c][u].of = <<c, u>>

\* A second reply finds its future settled: the first one is ahead of it.
InboxInv(c) ==
  /\ closing[c] = "closed" => inbox[c] = <<>>
  /\ \A i \in 1 .. Len(inbox[c]) :
       /\ IsReply(c, inbox[c][i].uid, inbox[c][i].ok, inbox[c][i].of)
       /\ SecondReply(c, inbox[c][i].uid, inbox[c][i].ok) =>
            \/ inbox[c][i].uid \notin pending[c]
            \/ \E j \in 1 .. Len(inbox[c]) :
                 j < i /\ inbox[c][j].uid = inbox[c][i].uid /\ inbox[c][j].ok = TRUE

QueuedInv ==
  \A i \in 1 .. Len(send_queue[Server]) :
    LET m == send_queue[Server][i]
    IN  /\ IsReply(m.to, m.uid, m.ok, m.of)
        /\ SecondReply(m.to, m.uid, m.ok) => Answered(m.to, m.uid)

HandlersInv ==
  \A h \in handlers :
    /\ h.pc # "run" => h.req = "chunks"
    /\ h.pc = "post" => Answered(h.from, h.uid)

ReplyInv ==
  /\ \A c \in Clients : CallsInv(c) /\ InboxInv(c)
  /\ QueuedInv
  /\ HandlersInv

-----------------------------------------------------------------------------

\* Appending a message to a queue, and taking its head.
LEMMA Appended ==
  ASSUME NEW S, NEW s \in Seq(S), NEW m \in S
  PROVE  /\ Append(s, m) \in Seq(S)
         /\ Append(s, m) # <<>>
         /\ Len(Append(s, m)) = Len(s) + 1
         /\ \A i \in 1 .. Len(s) : Append(s, m)[i] = s[i]
         /\ Append(s, m)[Len(s) + 1] = m
  BY AppendProperties

\* Taking the first element off a sequence.
LEMMA Taken ==
  ASSUME NEW S, NEW s \in Seq(S), s # <<>>
  PROVE  /\ Head(s) \in S
         /\ Head(s) = s[1]
         /\ Len(s) \in Nat \ {0}
         /\ Tail(s) \in Seq(S)
         /\ Len(Tail(s)) = Len(s) - 1
         /\ \A i \in 1 .. Len(Tail(s)) : Tail(s)[i] = s[i + 1]
  BY HeadTailProperties, EmptySeq

\* What an endpoint sends and receives are messages.
LEMMA MessagesOfEnds ==
  ASSUME NEW e \in Endpoints
  PROVE  /\ Sent(e) \subseteq Message /\ Rcvd(e) \subseteq Message
         /\ <<>> \in Seq(Sent(e)) /\ <<>> \in Seq(Rcvd(e)) /\ <<>> \in Seq(Message)
  BY DEF Sent, Rcvd, Message

\* The types hold at the start.
LEMMA InitType == Init => TypeInv
<1> SUFFICES ASSUME Init PROVE TypeInv
  OBVIOUS
<1>1. LoopType
  BY MessagesOfEnds DEF Init, LoopInit, LoopType, IOState, Free
<1>2. ClientType
  <2>1. NoFuture \in FutureRec
    BY DEF NoFuture, Future, FutureRec
  <2>2. futures \in [Clients -> [Uids -> FutureRec]]
    BY <2>1 DEF Init
  <2>3. raised \in [Clients -> BOOLEAN] /\ crashed \in BOOLEAN
    BY Zenon DEF Init
  <2>4. uid_counter \in [Clients -> 0 .. MaxUid]
    BY QueueAssumption DEF Init
  <2>5. \A c \in Clients, u \in Uids : submitting[c][u] = "no"
    BY DEF Init
  <2> QED BY <2>2, <2>3, <2>4, <2>5 DEF Init, ClientType
<1> QED BY <1>1, <1>2 DEF TypeInv

\* A message that e sends, transmitted to its receiver.
LEMMA TransmitType ==
  ASSUME LoopType, NEW e \in Endpoints, NEW m \in Sent(e), Transmit(m)
  PROVE  /\ inbox' \in [Endpoints -> Seq(Message)]
         /\ \A f \in Endpoints : inbox'[f] \in Seq(Rcvd(f))
         /\ \A f \in Endpoints : inbox[f] # <<>> => inbox'[f] # <<>>
<1>1. m.to \in Endpoints /\ m \in Rcvd(m.to) /\ m \in Message
  BY QueueAssumption DEF Sent, Rcvd, RequestMsg, ReplyMsg, Message
<1>2. inbox \in [Endpoints -> Seq(Message)] /\ \A f \in Endpoints : inbox[f] \in Seq(Rcvd(f))
  BY DEF LoopType
<1>3. /\ Append(inbox[m.to], m) \in Seq(Message)
      /\ Append(inbox[m.to], m) \in Seq(Rcvd(m.to))
      /\ Append(inbox[m.to], m) # <<>>
  BY <1>1, <1>2, Appended
<1> QED BY <1>1, <1>2, <1>3 DEF Transmit

\* send puts a message on a queue of its route.
LEMMA SendType ==
  ASSUME LoopType, NEW e \in Endpoints, NEW m \in Sent(e), send(e, m)
  PROVE  LoopType'
<1>1. m \in Message
  BY DEF Sent, Message
<1>2. /\ Append(send_queue[e], m) \in Seq(Message)
      /\ Append(send_queue[e], m) \in Seq(Sent(e))
      /\ Append(send_queue[e], m) # <<>>
  <2>1. send_queue[e] \in Seq(Message) /\ send_queue[e] \in Seq(Sent(e))
    BY DEF LoopType
  <2> QED BY <1>1, <2>1, Appended
<1> QED BY <1>1, <1>2 DEF LoopType, send

\* The steps of the I/O thread keep the types.
LEMMA IOStepType ==
  ASSUME LoopType, NEW e \in Endpoints, IOStep(e)
  PROVE  LoopType'
<1>1. CASE Loop(e)
  BY <1>1 DEF Loop, Goto, LoopType, IOState
<1>2. CASE Poll(e)
  <2>1. PICK b \in BOOLEAN : b = (inbox[e] # <<>>)
    OBVIOUS
  <2>2. io' = [io EXCEPT ![e] = [pc |-> IF wake[e] > 0 THEN "wake" ELSE "recv", sock |-> b]]
    BY <1>2, <2>1 DEF Poll
  <2>3. wake[e] > 0 \/ b = TRUE
    BY <1>2, <2>1 DEF Poll
  <2>4. io' \in [Endpoints -> IOState]
    BY <2>2 DEF LoopType, IOState
  <2>5. \A f \in Endpoints \ {e} : io'[f] = io[f]
    BY <2>2 DEF LoopType
  <2>6. /\ io'[e].pc \in {"wake", "recv"}
        /\ io'[e].pc = "recv" => inbox[e] # <<>>
        /\ io'[e].sock = TRUE => inbox[e] # <<>>
    BY <2>1, <2>2, <2>3 DEF LoopType
  <2> QED BY <1>2, <2>4, <2>5, <2>6 DEF Poll, LoopType
<1>3. CASE ReadWake(e)
  <2>1. wake' \in [Endpoints -> Nat]
    BY <1>3, LoopAssumption DEF ReadWake, LoopType
  <2> QED BY <1>3, <2>1 DEF ReadWake, Goto, LoopType, IOState
<1>4. CASE Drain(e)
  BY <1>4 DEF Drain, Goto, LoopType, IOState
<1>5. CASE SendQueued(e)
  <2>1. send_queue[e] # <<>> /\ send_queue[e] \in Seq(Message) /\ send_queue[e] \in Seq(Sent(e))
    BY <1>5 DEF SendQueued, LoopType
  <2>2. Head(send_queue[e]) \in Sent(e)
    BY <2>1, Taken
  <2>3. Tail(send_queue[e]) \in Seq(Message) /\ Tail(send_queue[e]) \in Seq(Sent(e))
    BY <2>1, Taken
  <2>4. /\ inbox' \in [Endpoints -> Seq(Message)]
        /\ \A f \in Endpoints : inbox'[f] \in Seq(Rcvd(f))
        /\ \A f \in Endpoints : inbox[f] # <<>> => inbox'[f] # <<>>
    BY <1>5, <2>2, TransmitType DEF SendQueued
  <2> QED BY <1>5, <2>3, <2>4 DEF SendQueued, Goto, LoopType, IOState
<1>6. CASE Drained(e)
  BY <1>6 DEF Drained, Goto, LoopType, IOState
<1> QED BY <1>1, <1>2, <1>3, <1>4, <1>5, <1>6 DEF IOStep

\* A wake-up byte is written.
LEMMA WakeType ==
  ASSUME LoopType, NEW e \in Endpoints, Wake(e)
  PROVE  LoopType'
<1>1. wake' \in [Endpoints -> Nat]
  BY DEF Wake, LoopType
<1>2. waking' \in [Endpoints -> Nat]
  BY DEF Wake, LoopType
<1> QED BY <1>1, <1>2 DEF Wake, LoopType

\* A message is taken from an inbox: it is one for its endpoint.
LEMMA ReceivedType ==
  ASSUME LoopType, NEW e \in Endpoints, Received(e),
         UNCHANGED <<send_queue, wake, waking, closing, send_lock>>
  PROVE  LoopType' /\ Head(inbox[e]) \in Rcvd(e)
<1>1. inbox[e] # <<>> /\ inbox[e] \in Seq(Message) /\ inbox[e] \in Seq(Rcvd(e))
  BY DEF Received, LoopType
<1>2. /\ Tail(inbox[e]) \in Seq(Message) /\ Tail(inbox[e]) \in Seq(Rcvd(e))
      /\ Head(inbox[e]) \in Rcvd(e)
  BY <1>1, Taken
<1> QED BY <1>2 DEF Received, Goto, LoopType, IOState

\* The steps of close keep the types.
LEMMA CloseType ==
  ASSUME LoopType, NEW e \in Endpoints, Stop(e) \/ StopWake(e) \/ Joined(e)
  PROVE  LoopType'
<1>1. CASE Stop(e)
  BY <1>1 DEF Stop, LoopType
<1>2. CASE StopWake(e)
  BY <1>2 DEF StopWake, LoopType
<1>3. CASE Joined(e)
  BY <1>3, MessagesOfEnds DEF Joined, LoopType
<1> QED BY <1>1, <1>2, <1>3

\* The steps of a submit keep the types.
LEMMA SubmitType ==
  ASSUME TypeInv, NEW c \in Clients, NEW req \in ReqKinds, submit(c, req)
  PROVE  /\ LoopType'
         /\ uid_counter[c] \in Uids
         /\ uid_counter' \in [Clients -> 0 .. MaxUid]
         /\ futures' \in [Clients -> [Uids -> FutureRec]]
         /\ submitting' \in [Clients -> [Uids -> {"no", "file", "put"}]]
         /\ \A d \in Clients, v \in Uids :
              submitting'[d][v] # "no" => futures'[d][v].req \in ReqKinds
<1> DEFINE u == uid_counter[c]
<1>1. u \in Uids /\ u + 1 \in 0 .. MaxUid
  BY QueueAssumption DEF submit, TypeInv, ClientType, Uids
<1>2. LoopType'
  BY DEF submit, TypeInv, LoopType, loopVars
<1>3. Future(req) \in FutureRec /\ Future(req).req = req
  BY DEF Future, FutureRec
<1>4. /\ futures' \in [Clients -> [Uids -> FutureRec]]
      /\ submitting' \in [Clients -> [Uids -> {"no", "file", "put"}]]
  BY <1>1, <1>3 DEF submit, TypeInv, ClientType
<1>5. \A d \in Clients, v \in Uids :
        \/ d = c /\ v = u /\ futures'[d][v] = Future(req)
        \/ futures'[d][v] = futures[d][v] /\ submitting'[d][v] = submitting[d][v]
  BY <1>1 DEF submit, TypeInv, ClientType
<1> QED BY <1>1, <1>2, <1>3, <1>4, <1>5 DEF submit, TypeInv, ClientType

LEMMA FileType ==
  ASSUME TypeInv, NEW c \in Clients, NEW u \in Uids, File(c, u)
  PROVE  TypeInv'
<1>1. LoopType'
  BY DEF File, TypeInv, LoopType, loopVars
<1>2. /\ submitting' \in [Clients -> [Uids -> {"no", "file", "put"}]]
      /\ \A d \in Clients, v \in Uids : submitting'[d][v] # "no" => submitting[d][v] # "no"
      /\ pending' \in [Clients -> SUBSET Uids]
  BY DEF File, TypeInv, ClientType
<1> QED BY <1>1, <1>2 DEF File, TypeInv, ClientType, serverVars

LEMMA PutType ==
  ASSUME TypeInv, NEW c \in Clients, NEW u \in Uids, Put(c, u)
  PROVE  TypeInv' /\ Request(c, u, futures[c][u].req) \in RequestMsg
<1>1. c \in Endpoints /\ c # Server
  BY QueueAssumption
<1>2. futures[c][u].req \in ReqKinds
  BY DEF Put, TypeInv, ClientType
<1>3. Request(c, u, futures[c][u].req) \in RequestMsg
  BY <1>2 DEF Request, RequestMsg
<1>4. LoopType'
  <2>1. Request(c, u, futures[c][u].req) \in Sent(c)
    BY <1>1, <1>3 DEF Sent
  <2> QED BY <1>1, <2>1, SendType DEF Put, TypeInv
<1>5. /\ submitting' \in [Clients -> [Uids -> {"no", "file", "put"}]]
      /\ \A d \in Clients, v \in Uids : submitting'[d][v] # "no" => submitting[d][v] # "no"
  BY DEF Put, TypeInv, ClientType
<1> QED BY <1>3, <1>4, <1>5 DEF Put, TypeInv, ClientType, serverVars

\* What a handler replies is a reply.
LEMMA ReplyType ==
  ASSUME TypeInv, NEW h \in handlers, NEW ok \in BOOLEAN
  PROVE  Reply(h, ok) \in Sent(Server)
  BY DEF TypeInv, ClientType, HandlerRec, Reply, Sent, ReplyMsg

-----------------------------------------------------------------------------

\* Who submits: a load thread, a hook before shutdown, or shutdown itself.
Submits(c, req) ==
  \/ UNCHANGED bye /\ (req = "ack" \/ bye[c] = None)
  \/ HookIsFree(c) /\ bye[c] = None /\ bye' = [bye EXCEPT ![c] = uid_counter[c]]

\* The steps of Next, as the cases of every proof that an invariant is kept.
LEMMA NextCases ==
  ASSUME [Next]_vars, NEW P,
         ASSUME NEW c \in Clients, NEW req \in ReqKinds, submit(c, req), Submits(c, req)
         PROVE  P,
         ASSUME NEW c \in Clients, NEW u \in Uids, File(c, u) PROVE P,
         ASSUME NEW c \in Clients, NEW u \in Uids, Put(c, u) PROVE P,
         ASSUME NEW c \in Clients, Close(c) PROVE P,
         ASSUME NEW c \in Clients, Closing(c) PROVE P,
         ASSUME NEW e \in Endpoints, Waking(e) PROVE P,
         ASSUME NEW e \in Endpoints, IOStep(e), UNCHANGED <<clientVars, serverVars>> PROVE P,
         ASSUME NEW c \in Clients, ClientRecv(c) PROVE P,
         ASSUME ServerRecv PROVE P,
         ASSUME NEW h \in handlers, Handle(h) PROVE P,
         ASSUME Crash PROVE P,
         ASSUME UNCHANGED vars PROVE P
  PROVE  P
<1>1. "value" \in ReqKinds /\ "ack" \in ReqKinds
  BY DEF ReqKinds
<1>2. CASE \E c \in Clients, req \in ReqKinds \ {"ack"} : Submit(c, req)
  BY <1>2 DEF Submit, Submits
<1>3. CASE \E c \in Clients : LoadAck(c) \/ Unregister(c)
  BY <1>1, <1>3 DEF LoadAck, Unregister, Submits
<1>8. CASE \E c \in Clients, u \in Uids : File(c, u) \/ Put(c, u)
  BY <1>8
<1>4. CASE \E c \in Clients : Close(c) \/ Closing(c)
  BY <1>4
<1>5. CASE \E e \in Endpoints : Waking(e) \/ IO(e)
  BY <1>5 DEF IO
<1>6. CASE \E h \in handlers : Handle(h)
  BY <1>6
<1>7. CASE Crash \/ Waiting \/ UNCHANGED vars
  BY <1>7 DEF Waiting
<1> QED BY <1>2, <1>3, <1>4, <1>5, <1>6, <1>7, <1>8 DEF Next

\* What Settle changes.
LEMMA Settled ==
  ASSUME TypeInv, NEW c \in Clients, NEW u \in Uids, NEW m \in ReplyMsg, Settle(c, u, m)
  PROVE  /\ \A d \in Clients, v \in Uids : d # c \/ v # u => futures'[d][v] = futures[d][v]
         /\ futures'[c][u].req = futures[c][u].req
         /\ futures'[c][u].of = m.of
         /\ futures'[c][u].state = IF m.ok THEN "result" ELSE "exception"
<1>1. futures \in [Clients -> [Uids -> FutureRec]]
  BY DEF TypeInv, ClientType
<1>2. PICK st : st = IF m.ok THEN "result" ELSE "exception"
  OBVIOUS
<1>3. futures' = [futures EXCEPT ![c][u].state = st, ![c][u].of = m.of]
  BY <1>2 DEF Settle
<1> QED BY <1>1, <1>2, <1>3 DEF FutureRec

\* A client takes a reply and settles its future.
LEMMA ClientRecvType ==
  ASSUME TypeInv, NEW c \in Clients, ClientRecv(c)
  PROVE  TypeInv'
<1> DEFINE m == Head(inbox[c])
<1>1. LoopType' /\ m \in ReplyMsg
  <2>1. LoopType' /\ m \in Rcvd(c)
    BY QueueAssumption, ReceivedType DEF ClientRecv, TypeInv
  <2> QED BY <2>1, QueueAssumption DEF Rcvd
<1>2. pending' \in [Clients -> SUBSET Uids]
  BY <1>1 DEF ClientRecv, TypeInv, ClientType
<1>3. futures' \in [Clients -> [Uids -> FutureRec]]
  <2>1. CASE UNCHANGED futures
    BY <2>1 DEF TypeInv, ClientType
  <2>2. CASE Settle(c, m.uid, m)
    <3>1. m.uid \in Uids /\ m.of \in Clients \X Uids
      BY <1>1 DEF ReplyMsg
    <3>2. futures \in [Clients -> [Uids -> FutureRec]]
      BY DEF TypeInv, ClientType
    <3>3. PICK st \in {"result", "exception"} : st = IF m.ok THEN "result" ELSE "exception"
      OBVIOUS
    <3>4. futures' = [futures EXCEPT ![c][m.uid].state = st, ![c][m.uid].of = m.of]
      BY <2>2, <3>3 DEF Settle
    <3>5. PICK f : f = futures[c] /\ f \in [Uids -> FutureRec]
      BY <3>2
    <3>6. PICK r \in FutureRec : r = f[m.uid]
      BY <3>1, <3>5
    <3>7. [r EXCEPT !.state = st, !.of = m.of] \in FutureRec
      BY <3>1, <3>3 DEF FutureRec
    <3>8. [f EXCEPT ![m.uid].state = st, ![m.uid].of = m.of] \in [Uids -> FutureRec]
      BY <3>1, <3>5, <3>6, <3>7
    <3>9. futures' = [futures EXCEPT ![c] = [f EXCEPT ![m.uid].state = st, ![m.uid].of = m.of]]
      BY <3>1, <3>2, <3>4, <3>5
    <3> QED BY <3>2, <3>8, <3>9
  <2> QED BY <2>1, <2>2 DEF ClientRecv
<1>4. raised' \in [Clients -> BOOLEAN]
  BY Zenon DEF ClientRecv, TypeInv, ClientType
<1>5. \A d \in Clients, v \in Uids : futures'[d][v].req = futures[d][v].req
  <2>1. CASE UNCHANGED futures
    BY <2>1
  <2>2. CASE Settle(c, m.uid, m)
    <3>1. m.uid \in Uids
      BY <1>1 DEF ReplyMsg
    <3> QED BY <1>1, <2>2, <3>1, Settled
  <2> QED BY <2>1, <2>2 DEF ClientRecv
<1> QED BY <1>1, <1>2, <1>3, <1>4, <1>5 DEF ClientRecv, TypeInv, ClientType, serverVars

\* A step of a handler keeps the types.
LEMMA HandleType ==
  ASSUME TypeInv, NEW h \in handlers, Handle(h)
  PROVE  TypeInv'
<1>1. /\ handlers' \subseteq HandlerRec
      /\ \A ok \in BOOLEAN : Reply(h, ok) \in Sent(Server)
      /\ Server \in Endpoints
  <2>1. h \in HandlerRec /\ handlers \subseteq HandlerRec
    BY DEF TypeInv, ClientType
  <2>2. \A pc \in {"run", "lock", "send", "post"} : [h EXCEPT !.pc = pc] \in HandlerRec
    BY <2>1 DEF HandlerRec
  <2>3. handlers' \subseteq HandlerRec
    BY <2>1, <2>2 DEF Handle, HandleValue, HandleChunks, SendNowLock, SendNow, PostSend, Becomes, Ends
  <2> QED BY <2>3, ReplyType, QueueAssumption
<1>2. LoopType'
  <2>1. CASE HandleValue(h)
    <3>1. (h.req # "error") \in BOOLEAN
      OBVIOUS
    <3>2. Reply(h, h.req # "error") \in Sent(Server)
      BY <1>1, <3>1
    <3> QED BY <1>1, <2>1, <3>2, SendType DEF HandleValue, TypeInv
  <2>2. CASE HandleChunks(h)
    BY <2>2 DEF HandleChunks, TypeInv, LoopType, loopVars
  <2>3. CASE SendNowLock(h)
    <3>1. <<h.from, h.uid>> \in Clients \X Uids
      BY DEF TypeInv, ClientType, HandlerRec
    <3> QED BY <2>3, <3>1, <1>1 DEF SendNowLock, TypeInv, LoopType
  <2>4. CASE SendNow(h)
    <3>1. /\ inbox' \in [Endpoints -> Seq(Message)]
          /\ \A f \in Endpoints : inbox'[f] \in Seq(Rcvd(f))
          /\ \A f \in Endpoints : inbox[f] # <<>> => inbox'[f] # <<>>
      BY <1>1, <2>4, TransmitType DEF SendNow, TypeInv
    <3> QED BY <2>4, <3>1 DEF SendNow, TypeInv, LoopType
  <2>5. CASE PostSend(h)
    <3>1. CASE UNCHANGED loopVars
      BY <3>1 DEF TypeInv, LoopType, loopVars
    <3>2. CASE send(Server, Reply(h, FALSE))
      BY <1>1, <3>2, SendType DEF TypeInv
    <3> QED BY <2>5, <3>1, <3>2 DEF PostSend
  <2> QED BY <2>1, <2>2, <2>3, <2>4, <2>5 DEF Handle
<1>3. UNCHANGED <<clientVars, crashed>>
  BY DEF Handle, HandleValue, HandleChunks, SendNowLock, SendNow, PostSend
<1> QED BY <1>1, <1>2, <1>3 DEF TypeInv, ClientType, clientVars

\* A crash of the server keeps the types.
LEMMA CrashType ==
  ASSUME TypeInv, Crash
  PROVE  TypeInv'
<1>1. ClientType'
  BY DEF Crash, TypeInv, ClientType, clientVars
<1>2. LoopType'
  BY MessagesOfEnds, QueueAssumption DEF Crash, TypeInv, LoopType, IOState
<1> QED BY <1>1, <1>2 DEF TypeInv

\* Every step keeps the types.
LEMMA NextType == TypeInv /\ [Next]_vars => TypeInv'
<1> SUFFICES ASSUME TypeInv, [Next]_vars PROVE TypeInv'
  OBVIOUS
<1>0. Clients \subseteq Endpoints /\ Server \in Endpoints
  BY QueueAssumption
<1>1. ASSUME NEW c \in Clients, NEW req \in ReqKinds, submit(c, req), Submits(c, req)
      PROVE  TypeInv'
  <2>1. bye' \in [Clients -> Uids \cup {None}]
    BY <1>1, SubmitType DEF Submits, TypeInv, ClientType
  <2> QED BY <1>1, <2>1, SubmitType DEF submit, TypeInv, ClientType, serverVars
<1>2. ASSUME NEW c \in Clients, Close(c) PROVE TypeInv'
  BY <1>0, <1>2, CloseType DEF Close, TypeInv, ClientType, clientVars, serverVars
<1>3. ASSUME NEW c \in Clients, Closing(c) PROVE TypeInv'
  BY <1>0, <1>3, CloseType DEF Closing, TypeInv, ClientType, clientVars, serverVars
<1>4. ASSUME NEW e \in Endpoints, Waking(e) PROVE TypeInv'
  BY <1>4, WakeType DEF Waking, TypeInv, ClientType, clientVars, serverVars
<1>5. ASSUME NEW e \in Endpoints, IOStep(e), UNCHANGED <<clientVars, serverVars>> PROVE TypeInv'
  BY <1>5, IOStepType DEF TypeInv, ClientType, clientVars, serverVars
<1>6. ASSUME ServerRecv PROVE TypeInv'
  <2> DEFINE m == Head(inbox[Server])
  <2>1. LoopType' /\ m \in RequestMsg
    BY <1>0, <1>6, ReceivedType DEF ServerRecv, TypeInv, Rcvd
  <2>2. handlers' \subseteq HandlerRec
    BY <1>6, <2>1 DEF ServerRecv, TypeInv, ClientType, HandlerRec, RequestMsg
  <2> QED BY <1>6, <2>1, <2>2 DEF ServerRecv, TypeInv, ClientType, clientVars
<1>7. ASSUME UNCHANGED vars PROVE TypeInv'
  BY <1>7 DEF vars, loopVars, clientVars, serverVars, TypeInv, LoopType, ClientType
<1> QED BY <1>1, <1>2, <1>3, <1>4, <1>5, <1>6, <1>7, NextCases, FileType, PutType,
           ClientRecvType, HandleType, CrashType

\* TypeInv is an invariant: every message sits where its receiver expects
\* it, and the I/O thread finds a message wherever it takes one.
THEOREM TypeCorrect == Spec => []TypeInv
<1>1. Init => TypeInv
  BY InitType
<1>2. TypeInv /\ [Next]_vars => TypeInv'
  BY NextType
<1> QED BY <1>1, <1>2, PTL DEF Spec

-----------------------------------------------------------------------------

\* Every step keeps a byte or a waking thread behind a filled queue.
LEMMA NextWake == TypeInv /\ WakeInv /\ [Next]_vars => WakeInv'
<1> SUFFICES ASSUME TypeInv, WakeInv, [Next]_vars PROVE WakeInv'
  OBVIOUS
<1>0. Clients \subseteq Endpoints /\ Server \in Endpoints /\ Server \notin Clients
  BY QueueAssumption
<1>t. LoopType
  BY DEF TypeInv
<1>s. ASSUME NEW e \in Endpoints, NEW m, send(e, m) PROVE WakeInv'
  BY <1>s, <1>t DEF send, WakeInv, LoopType
<1>1. ASSUME NEW c \in Clients, NEW req \in ReqKinds, submit(c, req), Submits(c, req)
      PROVE  WakeInv'
  BY <1>1 DEF submit, loopVars, WakeInv
<1>11. ASSUME NEW c \in Clients, NEW u \in Uids, File(c, u) PROVE WakeInv'
  BY <1>11 DEF File, loopVars, WakeInv
<1>12. ASSUME NEW c \in Clients, NEW u \in Uids, Put(c, u) PROVE WakeInv'
  BY <1>0, <1>12, <1>s DEF Put
<1>2. ASSUME NEW c \in Clients, Close(c) PROVE WakeInv'
  BY <1>0, <1>2, <1>t DEF Close, Stop, WakeInv, LoopType
<1>3. ASSUME NEW c \in Clients, Closing(c) PROVE WakeInv'
  BY <1>0, <1>3, <1>t DEF Closing, StopWake, Joined, WakeInv, LoopType
<1>4. ASSUME NEW e \in Endpoints, Waking(e) PROVE WakeInv'
  <2>1. CASE closing[e] = "closed"
    BY <1>4, <2>1, <1>t DEF Waking, Wake, WakeInv, LoopType
  <2>2. CASE closing[e] # "closed"
    BY <1>4, <2>2, <1>t DEF Waking, Wake, WakeInv, LoopType
  <2> QED BY <2>1, <2>2
<1>5. ASSUME NEW e \in Endpoints, IOStep(e), UNCHANGED <<clientVars, serverVars>> PROVE WakeInv'
  <2>1. CASE Loop(e)
    BY <2>1, <1>t DEF Loop, Goto, WakeInv, LoopType, IOState
  <2>2. CASE Poll(e)
    <3>1. /\ UNCHANGED <<closing, send_queue, wake, waking>>
          /\ io[e].pc = "poll" /\ io'[e].pc # "exit" 
          /\ \A f \in Endpoints : f # e => io'[f] = io[f]
      BY <2>2, <1>t DEF Poll, LoopType
    <3> QED BY <3>1 DEF WakeInv
  <2>3. CASE ReadWake(e)
    BY <2>3, <1>t DEF ReadWake, Goto, WakeInv, LoopType, IOState
  <2>4. CASE Drain(e)
    BY <2>4, <1>t DEF Drain, Goto, WakeInv, LoopType, IOState
  <2>5. CASE SendQueued(e)
    BY <2>5, <1>t DEF SendQueued, Goto, WakeInv, LoopType, IOState
  <2>6. CASE Drained(e)
    BY <2>6, <1>t DEF Drained, Goto, WakeInv, LoopType, IOState
  <2> QED BY <1>5, <2>1, <2>2, <2>3, <2>4, <2>5, <2>6 DEF IOStep
<1>6. ASSUME NEW c \in Clients, ClientRecv(c) PROVE WakeInv'
  BY <1>0, <1>6, <1>t DEF ClientRecv, Received, Goto, WakeInv, LoopType, IOState
<1>7. ASSUME ServerRecv PROVE WakeInv'
  BY <1>0, <1>7, <1>t DEF ServerRecv, Received, Goto, WakeInv, LoopType, IOState
<1>8. ASSUME NEW h \in handlers, Handle(h) PROVE WakeInv'
  <2>1. CASE UNCHANGED <<closing, io, send_queue, wake, waking>>
    BY <2>1 DEF WakeInv
  <2>2. CASE \E m : send(Server, m)
    BY <1>0, <1>s, <2>2
  <2> QED BY <1>8, <2>1, <2>2 DEF Handle, HandleValue, HandleChunks, SendNowLock, SendNow,
                                  PostSend, loopVars
<1>9. ASSUME Crash PROVE WakeInv'
  <2>1. /\ UNCHANGED closing
        /\ io'[Server].pc = "loop" /\ send_queue'[Server] = <<>>
        /\ \A f \in Endpoints : f # Server =>
             /\ io'[f] = io[f] /\ send_queue'[f] = send_queue[f]
             /\ wake'[f] = wake[f] /\ waking'[f] = waking[f]
    BY <1>0, <1>9, <1>t DEF Crash, LoopType
  <2> QED BY <2>1 DEF WakeInv
<1>10. ASSUME UNCHANGED vars PROVE WakeInv'
  BY <1>10 DEF vars, loopVars, WakeInv
<1> QED BY <1>1, <1>2, <1>3, <1>4, <1>5, <1>6, <1>7, <1>8, <1>9, <1>10, <1>11, <1>12, NextCases

\* NoLostWakeup: however puts, writes, reads and drains interleave, an I/O
\* thread never sleeps in poll over a filled queue.
THEOREM WakeupsAreKept == Spec => []NoLostWakeup
<1>1. Init => TypeInv /\ WakeInv
  <2>1. Init => WakeInv
    BY QueueAssumption DEF Init, LoopInit, WakeInv
  <2> QED BY <2>1, InitType
<1>2. TypeInv /\ WakeInv /\ [Next]_vars => TypeInv' /\ WakeInv'
  BY NextType, NextWake
<1>3. WakeInv => NoLostWakeup
  BY DEF WakeInv, NoLostWakeup
<1> QED BY <1>1, <1>2, <1>3, PTL DEF Spec

-----------------------------------------------------------------------------

\* The messages of a queue after an append and after a take, by position.
LEMMA AppendedAt ==
  ASSUME NEW S, NEW s \in Seq(S), NEW m \in S, NEW i \in 1 .. Len(Append(s, m))
  PROVE  \/ i \in 1 .. Len(s) /\ Append(s, m)[i] = s[i]
         \/ i = Len(s) + 1 /\ Append(s, m)[i] = m
  BY Appended, LenProperties

\* What Transmit leaves in the inboxes.
LEMMA Transmitted ==
  ASSUME LoopType, NEW e \in Endpoints, NEW m \in Sent(e), Transmit(m)
  PROVE  /\ m.to \in Endpoints
         /\ \A f \in Endpoints : f # m.to => inbox'[f] = inbox[f]
         /\ \/ inbox' = inbox /\ closing[m.to] = "closed"
            \/ /\ closing[m.to] # "closed"
               /\ Len(inbox'[m.to]) = Len(inbox[m.to]) + 1
               /\ \A i \in 1 .. Len(inbox[m.to]) : inbox'[m.to][i] = inbox[m.to][i]
               /\ inbox'[m.to][Len(inbox[m.to]) + 1] = m
<1>1. m.to \in Endpoints /\ m \in Rcvd(m.to)
  BY QueueAssumption DEF Sent, Rcvd, RequestMsg, ReplyMsg
<1>2. inbox \in [Endpoints -> Seq(Message)] /\ \A f \in Endpoints : inbox[f] \in Seq(Rcvd(f))
  BY DEF LoopType
<1>3. CASE closing[m.to] = "closed"
  BY <1>1, <1>3 DEF Transmit
<1>4. CASE closing[m.to] # "closed"
  <2>1. inbox'[m.to] = Append(inbox[m.to], m) /\ \A f \in Endpoints : f # m.to => inbox'[f] = inbox[f]
    BY <1>1, <1>2, <1>4 DEF Transmit
  <2>2. inbox[m.to] \in Seq(Rcvd(m.to))
    BY <1>1, <1>2
  <2> QED BY <1>1, <1>4, <2>1, <2>2, Appended
<1> QED BY <1>3, <1>4

\* The order stays when no message, call or handler changes.
LEMMA OrderFrame ==
  ASSUME OrderInv, UNCHANGED <<send_queue, inbox, uid_counter, submitting, pending, futures, handlers>>
  PROVE  OrderInv'
  BY DEF OrderInv, ClientOrder, ServerOrder, ReplyOrder, HasLeft, IsRequest

\* What is known of the messages in the queues and of the handlers.
LEMMA QueueTypes ==
  ASSUME TypeInv
  PROVE  /\ Clients \subseteq Endpoints /\ Server \in Endpoints /\ Server \notin Clients
         /\ Uids \subseteq Nat
         /\ uid_counter \in [Clients -> Nat]
         /\ send_queue \in [Endpoints -> Seq(Message)]
         /\ inbox \in [Endpoints -> Seq(Message)]
         /\ send_queue[Server] \in Seq(ReplyMsg)
         /\ inbox[Server] \in Seq(RequestMsg)
         /\ \A c \in Clients : send_queue[c] \in Seq(RequestMsg) /\ inbox[c] \in Seq(ReplyMsg)
         /\ \A e \in Endpoints : Len(send_queue[e]) \in Nat /\ Len(inbox[e]) \in Nat
<1>1. Clients \subseteq Endpoints /\ Server \in Endpoints /\ Server \notin Clients
  BY QueueAssumption
<1>2. Uids \subseteq Nat /\ uid_counter \in [Clients -> Nat]
  BY DEF Uids, TypeInv, ClientType
<1>3. send_queue \in [Endpoints -> Seq(Message)] /\ inbox \in [Endpoints -> Seq(Message)]
  BY DEF TypeInv, LoopType
<1>4. \A e \in Endpoints : Len(send_queue[e]) \in Nat /\ Len(inbox[e]) \in Nat
  BY <1>3, LenProperties
<1>5. \A e \in Endpoints : send_queue[e] \in Seq(Sent(e)) /\ inbox[e] \in Seq(Rcvd(e))
  BY DEF TypeInv, LoopType
<1>6. Sent(Server) = ReplyMsg /\ Rcvd(Server) = RequestMsg
  BY DEF Sent, Rcvd
<1>7. \A c \in Clients : Sent(c) = RequestMsg /\ Rcvd(c) = ReplyMsg
  BY <1>1 DEF Sent, Rcvd
<1>8. send_queue[Server] \in Seq(ReplyMsg) /\ inbox[Server] \in Seq(RequestMsg)
  BY <1>1, <1>5, <1>6
<1>9. \A c \in Clients : send_queue[c] \in Seq(RequestMsg) /\ inbox[c] \in Seq(ReplyMsg)
  BY <1>1, <1>5, <1>7
<1> QED BY <1>1, <1>2, <1>3, <1>4, <1>8, <1>9

\* The fields of what is on its way.
LEMMA Fields ==
  ASSUME TypeInv
  PROVE  /\ \A c \in Clients : \A i \in 1 .. Len(send_queue[c]) :
              /\ send_queue[c][i] \in RequestMsg
              /\ send_queue[c][i].from \in Clients /\ send_queue[c][i].uid \in Uids
              /\ send_queue[c][i].req \in ReqKinds
         /\ \A i \in 1 .. Len(inbox[Server]) :
              /\ inbox[Server][i] \in RequestMsg
              /\ inbox[Server][i].from \in Clients /\ inbox[Server][i].uid \in Uids
              /\ inbox[Server][i].req \in ReqKinds
         /\ \A i \in 1 .. Len(send_queue[Server]) :
              /\ send_queue[Server][i] \in ReplyMsg
              /\ send_queue[Server][i].to \in Clients /\ send_queue[Server][i].uid \in Uids
              /\ send_queue[Server][i].ok \in BOOLEAN
         /\ \A c \in Clients : \A i \in 1 .. Len(inbox[c]) :
              /\ inbox[c][i] \in ReplyMsg
              /\ inbox[c][i].to \in Clients /\ inbox[c][i].uid \in Uids
              /\ inbox[c][i].ok \in BOOLEAN
         /\ \A h \in handlers :
              h \in HandlerRec /\ h.from \in Clients /\ h.uid \in Uids /\ h.req \in ReqKinds
<1>1. \A c \in Clients : \A i \in 1 .. Len(send_queue[c]) : send_queue[c][i] \in RequestMsg
  BY QueueTypes, ElementOfSeq
<1>2. \A i \in 1 .. Len(inbox[Server]) : inbox[Server][i] \in RequestMsg
  BY QueueTypes, ElementOfSeq
<1>3. \A i \in 1 .. Len(send_queue[Server]) : send_queue[Server][i] \in ReplyMsg
  BY QueueTypes, ElementOfSeq
<1>4. \A c \in Clients : \A i \in 1 .. Len(inbox[c]) : inbox[c][i] \in ReplyMsg
  BY QueueTypes, ElementOfSeq
<1>5. \A m \in RequestMsg : m.from \in Clients /\ m.uid \in Uids /\ m.req \in ReqKinds
  BY DEF RequestMsg
<1>6. \A m \in ReplyMsg : m.to \in Clients /\ m.uid \in Uids /\ m.ok \in BOOLEAN
  BY DEF ReplyMsg
<1>7. \A h \in handlers :
        h \in HandlerRec /\ h.from \in Clients /\ h.uid \in Uids /\ h.req \in ReqKinds
  BY DEF TypeInv, ClientType, HandlerRec
<1> QED BY <1>1, <1>2, <1>3, <1>4, <1>5, <1>6, <1>7

\* What is with the server, when requests only move on inside their clients.
LEMMA ServerKept ==
  ASSUME TypeInv, OrderInv, UNCHANGED <<inbox, handlers>>,
         send_queue'[Server] = send_queue[Server],
         \A d \in Clients, v \in Uids : HasLeft(d, v) => HasLeft(d, v)',
         \A d \in Clients, v \in Uids : v < uid_counter[d] =>
           v < uid_counter'[d] /\ futures'[d][v].req = futures[d][v].req
  PROVE  ServerOrder' /\ ReplyOrder'
<1>1. \A d \in Clients, v \in Uids, r \in ReqKinds : IsRequest(d, v, r) => IsRequest(d, v, r)'
  BY DEF IsRequest
<1>2. ServerOrder'
  <2>1. \A i \in 1 .. Len(inbox'[Server]) :
          /\ IsRequest(inbox[Server][i].from, inbox[Server][i].uid, inbox[Server][i].req)'
          /\ HasLeft(inbox[Server][i].from, inbox[Server][i].uid)'
    <3> TAKE i \in 1 .. Len(inbox'[Server])
    <3>1. PICK m \in RequestMsg : m = inbox[Server][i] /\ m = inbox'[Server][i]
      BY Fields
    <3>2. /\ m.from \in Clients /\ m.uid \in Uids /\ m.req \in ReqKinds
          /\ IsRequest(m.from, m.uid, m.req) /\ HasLeft(m.from, m.uid)
      BY <3>1, Fields DEF OrderInv, ServerOrder
    <3>3. IsRequest(m.from, m.uid, m.req)' /\ HasLeft(m.from, m.uid)'
      BY <1>1, <3>2
    <3> QED BY <3>1, <3>3 DEF IsRequest, HasLeft
  <2>2. \A h \in handlers : IsRequest(h.from, h.uid, h.req)' /\ HasLeft(h.from, h.uid)'
    <3> TAKE h \in handlers
    <3>1. /\ h.from \in Clients /\ h.uid \in Uids /\ h.req \in ReqKinds
          /\ IsRequest(h.from, h.uid, h.req) /\ HasLeft(h.from, h.uid)
      BY Fields DEF OrderInv, ServerOrder
    <3> QED BY <1>1, <3>1
  <2> QED BY <2>1, <2>2 DEF OrderInv, ServerOrder
<1>3. ReplyOrder'
  <2>1. ASSUME NEW i \in 1 .. Len(send_queue[Server])
        PROVE  HasLeft(send_queue[Server][i].to, send_queue[Server][i].uid)'
    <3>1. /\ send_queue[Server][i].to \in Clients /\ send_queue[Server][i].uid \in Uids
          /\ HasLeft(send_queue[Server][i].to, send_queue[Server][i].uid)
      BY Fields DEF OrderInv, ReplyOrder
    <3> QED BY <3>1 DEF HasLeft
  <2>2. ASSUME NEW d \in Clients, NEW i \in 1 .. Len(inbox[d])
        PROVE  inbox[d][i].to = d /\ HasLeft(d, inbox[d][i].uid)'
    <3>1. inbox[d][i].to = d /\ inbox[d][i].uid \in Uids /\ HasLeft(d, inbox[d][i].uid)
      BY Fields DEF OrderInv, ReplyOrder
    <3> QED BY <3>1 DEF HasLeft
  <2> QED BY <2>1, <2>2 DEF ReplyOrder
<1> QED BY <1>2, <1>3

\* What submit changes: the new request has nothing behind it yet.
LEMMA SubmitChanges ==
  ASSUME TypeInv, OrderInv, NEW c \in Clients, NEW req \in ReqKinds, submit(c, req)
  PROVE  /\ uid_counter[c] \in Uids /\ futures[c][uid_counter[c]] = NoFuture
         /\ uid_counter'[c] = uid_counter[c] + 1
         /\ futures'[c][uid_counter[c]] = Future(req)
         /\ submitting'[c][uid_counter[c]] = "file"
         /\ \A d \in Clients : d # c => uid_counter'[d] = uid_counter[d]
         /\ \A d \in Clients, v \in Uids : d # c \/ v # uid_counter[c] =>
              futures'[d][v] = futures[d][v] /\ submitting'[d][v] = submitting[d][v]
         /\ UNCHANGED <<pending, send_queue, inbox, closing, raised, handlers>>
<1> DEFINE u == uid_counter[c]
<1>1. u \in Uids /\ u \in Nat
  BY SubmitType, QueueTypes
<1>2. futures[c][u] = NoFuture
  BY <1>1 DEF OrderInv, ClientOrder
<1>3. UNCHANGED <<pending, send_queue, inbox, closing, raised, handlers>>
  BY DEF submit, loopVars, serverVars
<1>4. /\ uid_counter' = [uid_counter EXCEPT ![c] = u + 1]
      /\ futures' = [futures EXCEPT ![c][u] = Future(req)]
      /\ submitting' = [submitting EXCEPT ![c][u] = "file"]
  BY DEF submit
<1> QED BY <1>1, <1>2, <1>3, <1>4 DEF TypeInv, ClientType

\* submit numbers a request that is with its thread from then on.
LEMMA SubmitOrder ==
  ASSUME TypeInv, OrderInv, NEW c \in Clients, NEW req \in ReqKinds, submit(c, req)
  PROVE  OrderInv'
<1> DEFINE u == uid_counter[c]
<1>1. Uids \subseteq Nat /\ uid_counter \in [Clients -> Nat] /\ u \in Uids
  BY QueueTypes, SubmitChanges
<1>2. ASSUME NEW d \in Clients, NEW v \in Uids, v < uid_counter[d]
      PROVE  /\ v < uid_counter'[d] /\ futures'[d][v] = futures[d][v]
             /\ submitting'[d][v] = submitting[d][v]
  <2>1. d # c \/ v # u
    BY <1>1, <1>2
  <2>2. v < uid_counter'[d]
    BY <1>1, <1>2, SubmitChanges
  <2> QED BY <2>1, <2>2, SubmitChanges
<1>3. ASSUME NEW d \in Clients, NEW v \in Uids, HasLeft(d, v) PROVE HasLeft(d, v)'
  BY <1>2, <1>3, SubmitChanges DEF HasLeft
<1>4. ClientOrder'
  <2> SUFFICES ASSUME NEW d \in Clients
               PROVE  /\ \A v \in Uids :
                           /\ v >= uid_counter'[d] => /\ futures'[d][v] = NoFuture
                                                      /\ v \notin pending'[d]
                                                      /\ submitting'[d][v] = "no"
                           /\ v < uid_counter'[d] => futures'[d][v].req \in ReqKinds
                           /\ futures'[d][v].state # "unset" => HasLeft(d, v)'
                      /\ \A i \in 1 .. Len(send_queue'[d]) :
                           /\ send_queue'[d][i].from = d
                           /\ send_queue'[d][i].uid < uid_counter'[d]
                           /\ send_queue'[d][i].req = futures'[d][send_queue'[d][i].uid].req
                           /\ submitting'[d][send_queue'[d][i].uid] = "no"
                      /\ \A i, j \in 1 .. Len(send_queue'[d]) :
                           i < j => send_queue'[d][i].uid # send_queue'[d][j].uid
    BY DEF ClientOrder, IsRequest
  <2>1. ASSUME NEW v \in Uids
        PROVE /\ v >= uid_counter'[d] => /\ futures'[d][v] = NoFuture
                                         /\ v \notin pending'[d]
                                         /\ submitting'[d][v] = "no"
              /\ v < uid_counter'[d] => futures'[d][v].req \in ReqKinds
              /\ futures'[d][v].state # "unset" => HasLeft(d, v)'
    <3>1. CASE d = c /\ v = u
      <4>1. futures'[c][u] = Future(req) /\ uid_counter'[c] = u + 1
        BY SubmitChanges
      <4>2. Future(req).req = req /\ Future(req).state = "unset"
        BY DEF Future
      <4> HIDE DEF u
      <4> QED BY <1>1, <3>1, <4>1, <4>2
    <3>2. CASE ~(d = c /\ v = u)
      <4>1. v < uid_counter[d] <=> v < uid_counter'[d]
        BY <1>1, <3>2, SubmitChanges
      <4>2. futures'[d][v] = futures[d][v] /\ submitting'[d][v] = submitting[d][v] /\ UNCHANGED pending
        BY <3>2, SubmitChanges
      <4>3. uid_counter[d] \in Nat /\ uid_counter'[d] \in Nat /\ v \in Nat
        BY <1>1, <3>2, SubmitChanges
      <4> QED BY <1>3, <4>1, <4>2, <4>3 DEF OrderInv, ClientOrder
    <3> QED BY <3>1, <3>2
  <2>2. ASSUME NEW i \in 1 .. Len(send_queue'[d])
        PROVE  /\ send_queue'[d][i].from = d
               /\ send_queue'[d][i].uid < uid_counter'[d]
               /\ send_queue'[d][i].req = futures'[d][send_queue'[d][i].uid].req
               /\ submitting'[d][send_queue'[d][i].uid] = "no"
    <3>1. PICK m \in RequestMsg : m = send_queue[d][i] /\ m = send_queue'[d][i]
      BY Fields, SubmitChanges
    <3>2. /\ m.from = d /\ m.uid \in Uids /\ m.uid < uid_counter[d]
          /\ m.req = futures[d][m.uid].req /\ submitting[d][m.uid] = "no"
      BY <3>1, Fields, SubmitChanges DEF OrderInv, ClientOrder, IsRequest
    <3> QED BY <1>2, <3>1, <3>2
  <2>3. \A i, j \in 1 .. Len(send_queue'[d]) :
          i < j => send_queue'[d][i].uid # send_queue'[d][j].uid
    BY SubmitChanges DEF OrderInv, ClientOrder
  <2> QED BY <2>1, <2>2, <2>3
<1>5. ServerOrder' /\ ReplyOrder'
  BY <1>2, <1>3, SubmitChanges, ServerKept
<1> QED BY <1>4, <1>5 DEF OrderInv

\* The future of a request is filed while its thread has it.
LEMMA FileOrder ==
  ASSUME TypeInv, OrderInv, NEW c \in Clients, NEW u \in Uids, File(c, u)
  PROVE  OrderInv'
<1>1. /\ UNCHANGED <<uid_counter, futures, send_queue, inbox, handlers>>
      /\ \A d \in Clients, v \in Uids :
           /\ submitting'[d][v] = "no" <=> submitting[d][v] = "no"
           /\ v \in pending'[d] => v \in pending[d] \/ (d = c /\ v = u)
      /\ submitting[c][u] # "no"
  BY DEF File, TypeInv, ClientType, loopVars, serverVars
<1>2. \A d \in Clients, v \in Uids : HasLeft(d, v)' <=> HasLeft(d, v)
  BY <1>1 DEF HasLeft
<1>3. ClientOrder'
  BY <1>1, <1>2, Fields DEF OrderInv, ClientOrder, IsRequest
<1>4. ServerOrder' /\ ReplyOrder'
  BY <1>1, <1>2, ServerKept
<1> QED BY <1>3, <1>4 DEF OrderInv

\* A request goes from its thread to the end of the client's queue.
LEMMA PutOrder ==
  ASSUME TypeInv, OrderInv, NEW c \in Clients, NEW u \in Uids, Put(c, u)
  PROVE  OrderInv'
<1> DEFINE n == Len(send_queue[c])
           req == futures[c][u].req
<1>0. Clients \subseteq Endpoints /\ Server \in Endpoints /\ Server \notin Clients
  BY QueueAssumption
<1>1. /\ n \in Nat
      /\ Len(send_queue'[c]) = n + 1
      /\ \A i \in 1 .. n : send_queue'[c][i] = send_queue[c][i]
      /\ send_queue'[c][n + 1] = Request(c, u, req)
      /\ \A e \in Endpoints : e # c => send_queue'[e] = send_queue[e]
  <2>1. send_queue \in [Endpoints -> Seq(Message)] /\ send_queue[c] \in Seq(RequestMsg)
    BY QueueTypes
  <2>2. Request(c, u, req) \in RequestMsg
    BY PutType
  <2>3. send_queue' = [send_queue EXCEPT ![c] = Append(send_queue[c], Request(c, u, req))]
    BY DEF Put, send
  <2>4. /\ send_queue'[c] = Append(send_queue[c], Request(c, u, req))
        /\ \A e \in Endpoints : e # c => send_queue'[e] = send_queue[e]
    BY <1>0, <2>1, <2>3
  <2> QED BY <2>1, <2>2, <2>4, Appended, LenProperties
<1>2. /\ UNCHANGED <<uid_counter, pending, futures, inbox, handlers>>
      /\ \A d \in Clients, v \in Uids :
           submitting'[d][v] = IF d = c /\ v = u THEN "no" ELSE submitting[d][v]
      /\ submitting[c][u] = "put"
  BY DEF Put, send, serverVars, TypeInv, ClientType
<1>3. ASSUME NEW d \in Clients, NEW v \in Uids, HasLeft(d, v) PROVE HasLeft(d, v)'
  <2>1. v < uid_counter'[d] /\ submitting'[d][v] = "no" /\ (d # c \/ v # u)
    BY <1>2, <1>3 DEF HasLeft
  <2>2. CASE d = c
    <3> SUFFICES ASSUME NEW i \in 1 .. Len(send_queue'[c]) PROVE send_queue'[c][i].uid # v
      BY <2>1, <2>2 DEF HasLeft
    <3>1. CASE i = n + 1
      BY <1>1, <2>1, <2>2, <3>1 DEF Request
    <3>2. CASE i \in 1 .. n
      BY <1>1, <1>3, <2>2, <3>2 DEF HasLeft
    <3> QED BY <1>1, <3>1, <3>2
  <2>3. CASE d # c
    BY <1>0, <1>1, <1>3, <2>1, <2>3 DEF HasLeft
  <2> QED BY <2>2, <2>3
<1>4. u < uid_counter[c]
  <2>1. ~(u >= uid_counter[c])
    BY <1>2 DEF OrderInv, ClientOrder
  <2>2. u \in Nat /\ uid_counter[c] \in Nat
    BY QueueTypes
  <2> QED BY <2>1, <2>2
<1>5. ClientOrder'
  <2> SUFFICES ASSUME NEW d \in Clients
               PROVE  /\ \A v \in Uids :
                           /\ v >= uid_counter'[d] => /\ futures'[d][v] = NoFuture
                                                      /\ v \notin pending'[d]
                                                      /\ submitting'[d][v] = "no"
                           /\ v < uid_counter'[d] => futures'[d][v].req \in ReqKinds
                           /\ futures'[d][v].state # "unset" => HasLeft(d, v)'
                      /\ \A i \in 1 .. Len(send_queue'[d]) :
                           /\ send_queue'[d][i].from = d
                           /\ send_queue'[d][i].uid < uid_counter'[d]
                           /\ send_queue'[d][i].req = futures'[d][send_queue'[d][i].uid].req
                           /\ submitting'[d][send_queue'[d][i].uid] = "no"
                      /\ \A i, j \in 1 .. Len(send_queue'[d]) :
                           i < j => send_queue'[d][i].uid # send_queue'[d][j].uid
    BY DEF ClientOrder, IsRequest
  <2>1. ASSUME NEW v \in Uids
        PROVE /\ v >= uid_counter'[d] => /\ futures'[d][v] = NoFuture
                                         /\ v \notin pending'[d]
                                         /\ submitting'[d][v] = "no"
              /\ v < uid_counter'[d] => futures'[d][v].req \in ReqKinds
              /\ futures'[d][v].state # "unset" => HasLeft(d, v)'
    BY <1>2, <1>3 DEF OrderInv, ClientOrder
  <2>2. \A i \in 1 .. Len(send_queue[d]) :
          /\ send_queue[d][i].from = d /\ send_queue[d][i].uid \in Uids
          /\ send_queue[d][i].uid < uid_counter[d]
          /\ send_queue[d][i].req = futures[d][send_queue[d][i].uid].req
          /\ submitting[d][send_queue[d][i].uid] = "no"
    BY Fields DEF OrderInv, ClientOrder, IsRequest
  <2>3. \A i, j \in 1 .. Len(send_queue[d]) : i < j => send_queue[d][i].uid # send_queue[d][j].uid
    BY DEF OrderInv, ClientOrder
  <2>4. CASE d # c
    <3>1. send_queue'[d] = send_queue[d]
      BY <1>0, <1>1, <2>4
    <3> QED BY <1>2, <2>1, <2>2, <2>3, <3>1
  <2>5. CASE d = c
    <3>1. ASSUME NEW i \in 1 .. Len(send_queue'[c])
          PROVE  /\ send_queue'[c][i].from = c
                 /\ send_queue'[c][i].uid < uid_counter'[c]
                 /\ send_queue'[c][i].req = futures'[c][send_queue'[c][i].uid].req
                 /\ submitting'[c][send_queue'[c][i].uid] = "no"
      <4>1. CASE i \in 1 .. n
        BY <1>1, <1>2, <2>2, <2>5, <4>1
      <4>2. CASE i = n + 1
        BY <1>1, <1>2, <1>4, <4>2 DEF Request
      <4> QED BY <1>1, <3>1, <4>1, <4>2
    <3>2. ASSUME NEW i \in 1 .. Len(send_queue'[c]), NEW j \in 1 .. Len(send_queue'[c]), i < j
          PROVE  send_queue'[c][i].uid # send_queue'[c][j].uid
      <4>1. i \in 1 .. n
        BY <1>1, <3>2
      <4>2. CASE j \in 1 .. n
        <5>1. send_queue[c][i].uid # send_queue[c][j].uid
          BY <1>1, <2>3, <2>5, <3>2, <4>1, <4>2
        <5>2. send_queue'[c][i] = send_queue[c][i] /\ send_queue'[c][j] = send_queue[c][j]
          BY <1>1, <4>1, <4>2
        <5> QED BY <5>1, <5>2
      <4>3. CASE j = n + 1
        <5>1. send_queue[c][i].uid # u
          BY <1>2, <2>2, <2>5, <4>1
        <5> QED BY <1>1, <4>1, <4>3, <5>1 DEF Request
      <4> QED BY <1>1, <4>2, <4>3
    <3> QED BY <2>1, <2>5, <3>1, <3>2
  <2> QED BY <2>4, <2>5
<1>6. ServerOrder' /\ ReplyOrder'
  <2>1. send_queue'[Server] = send_queue[Server]
    BY <1>0, <1>1
  <2> QED BY <1>2, <1>3, <2>1, ServerKept
<1> QED BY <1>5, <1>6 DEF OrderInv

\* A client's I/O thread sends the request at the head of its queue.
LEMMA RequestSentOrder ==
  ASSUME TypeInv, OrderInv, NEW c \in Clients, SendQueued(c),
         UNCHANGED <<clientVars, serverVars>>
  PROVE  OrderInv'
<1> DEFINE n == Len(inbox[Server])
<1>0. c \in Endpoints /\ Server \in Endpoints /\ c # Server /\ Uids \subseteq Nat
  BY QueueTypes
<1>1. send_queue[c] \in Seq(RequestMsg) /\ send_queue[c] # <<>>
  BY <1>0, QueueTypes DEF TypeInv, LoopType, SendQueued
<1>2. PICK m \in RequestMsg : m = Head(send_queue[c])
  BY <1>1, Taken
<1>3. /\ m = send_queue[c][1]
      /\ Len(send_queue[c]) \in Nat \ {0}
      /\ Len(send_queue'[c]) = Len(send_queue[c]) - 1
      /\ \A i \in 1 .. Len(send_queue'[c]) :
           i + 1 \in 1 .. Len(send_queue[c]) /\ send_queue'[c][i] = send_queue[c][i + 1]
      /\ \A e \in Endpoints : e # c => send_queue'[e] = send_queue[e]
  <2>1. send_queue'[c] = Tail(send_queue[c]) /\ \A e \in Endpoints : e # c => send_queue'[e] = send_queue[e]
    BY <1>0, QueueTypes DEF SendQueued
  <2> QED BY <1>1, <1>2, <2>1, Taken
<1>4. /\ m.from = c /\ m.to = Server /\ m.uid \in Uids /\ IsRequest(c, m.uid, m.req)
      /\ submitting[c][m.uid] = "no"
  BY <1>2, <1>3 DEF OrderInv, ClientOrder, RequestMsg
<1>5. /\ \A f \in Endpoints : f # Server => inbox'[f] = inbox[f]
      /\ n \in Nat
      /\ \/ inbox'[Server] = inbox[Server]
         \/ /\ Len(inbox'[Server]) = n + 1
            /\ \A i \in 1 .. n : inbox'[Server][i] = inbox[Server][i]
            /\ inbox'[Server][n + 1] = m
  <2>1. LoopType /\ m \in Sent(c) /\ Transmit(m)
    BY <1>0, <1>2 DEF TypeInv, Sent, SendQueued
  <2>2. /\ \A f \in Endpoints : f # m.to => inbox'[f] = inbox[f]
        /\ \/ inbox' = inbox
           \/ /\ Len(inbox'[m.to]) = Len(inbox[m.to]) + 1
              /\ \A i \in 1 .. Len(inbox[m.to]) : inbox'[m.to][i] = inbox[m.to][i]
              /\ inbox'[m.to][Len(inbox[m.to]) + 1] = m
    BY <1>0, <2>1, Transmitted
  <2>3. n \in Nat
    BY <1>0, QueueTypes
  <2> QED BY <1>4, <2>2, <2>3
<1>6. UNCHANGED <<uid_counter, submitting, pending, futures, handlers>>
  BY DEF clientVars, serverVars
<1>7. ASSUME NEW d \in Clients, NEW v \in Uids, HasLeft(d, v) PROVE HasLeft(d, v)'
  <2>1. CASE d = c
    BY <1>3, <1>6, <1>7, <2>1 DEF HasLeft
  <2>2. CASE d # c
    <3>1. send_queue'[d] = send_queue[d]
      BY <1>3, <2>2, QueueTypes
    <3> QED BY <1>6, <1>7, <3>1 DEF HasLeft
  <2> QED BY <2>1, <2>2
<1>8. HasLeft(c, m.uid)'
  <2>1. \A i \in 1 .. Len(send_queue'[c]) : send_queue'[c][i].uid # m.uid
    <3>1. \A i, j \in 1 .. Len(send_queue[c]) : i < j => send_queue[c][i].uid # send_queue[c][j].uid
      BY DEF OrderInv, ClientOrder
    <3> TAKE i \in 1 .. Len(send_queue'[c])
    <3>2. 1 \in 1 .. Len(send_queue[c]) /\ i + 1 \in 1 .. Len(send_queue[c]) /\ 1 < i + 1
      BY <1>3
    <3>3. send_queue[c][1].uid # send_queue[c][i + 1].uid
      BY <3>1, <3>2
    <3> QED BY <1>3, <3>3
  <2> QED BY <1>4, <1>6, <2>1 DEF HasLeft, IsRequest
<1>9. ClientOrder'
  <2>1. ASSUME NEW d \in Clients, NEW v \in Uids
        PROVE /\ v >= uid_counter'[d] => /\ futures'[d][v] = NoFuture
                                         /\ v \notin pending'[d]
                                         /\ submitting'[d][v] = "no"
              /\ v < uid_counter'[d] => futures'[d][v].req \in ReqKinds
              /\ futures'[d][v].state # "unset" => HasLeft(d, v)'
    BY <1>6, <1>7 DEF OrderInv, ClientOrder
  <2>2. ASSUME NEW d \in Clients
        PROVE  /\ \A i \in 1 .. Len(send_queue'[d]) :
                    /\ send_queue'[d][i].from = d
                    /\ IsRequest(d, send_queue[d][i].uid, send_queue[d][i].req)'
                    /\ submitting'[d][send_queue'[d][i].uid] = "no"
               /\ \A i, j \in 1 .. Len(send_queue'[d]) :
                    i < j => send_queue'[d][i].uid # send_queue'[d][j].uid
    <3>1. CASE d = c
      <4>1. /\ \A i \in 1 .. Len(send_queue[c]) :
                 /\ send_queue[c][i].from = c
                 /\ send_queue[c][i].uid < uid_counter'[c]
                 /\ send_queue[c][i].req = futures'[c][send_queue[c][i].uid].req
                 /\ submitting'[c][send_queue[c][i].uid] = "no"
            /\ \A i, j \in 1 .. Len(send_queue[c]) :
                 i < j => send_queue[c][i].uid # send_queue[c][j].uid
        BY <1>6 DEF OrderInv, ClientOrder, IsRequest
      <4>2. ASSUME NEW i \in 1 .. Len(send_queue'[c])
            PROVE  /\ send_queue'[c][i].from = c
                   /\ send_queue'[c][i].uid < uid_counter'[c]
                   /\ send_queue'[c][i].req = futures'[c][send_queue'[c][i].uid].req
                   /\ submitting'[c][send_queue'[c][i].uid] = "no"
        <5>1. PICK l \in 1 .. Len(send_queue[c]) : send_queue'[c][i] = send_queue[c][l]
          BY <1>3
        <5> QED BY <4>1, <5>1
      <4>3. ASSUME NEW i \in 1 .. Len(send_queue'[c]), NEW j \in 1 .. Len(send_queue'[c]), i < j
            PROVE  send_queue'[c][i].uid # send_queue'[c][j].uid
        <5>1. PICK k \in 1 .. Len(send_queue[c]), l \in 1 .. Len(send_queue[c]) :
                k < l /\ send_queue'[c][i] = send_queue[c][k] /\ send_queue'[c][j] = send_queue[c][l]
          <6>1. i + 1 \in 1 .. Len(send_queue[c]) /\ j + 1 \in 1 .. Len(send_queue[c]) /\ i + 1 < j + 1
            BY <1>3, <4>3
          <6>2. send_queue'[c][i] = send_queue[c][i + 1] /\ send_queue'[c][j] = send_queue[c][j + 1]
            BY <1>3, <4>3
          <6> QED BY <6>1, <6>2
        <5>2. send_queue[c][k].uid # send_queue[c][l].uid
          BY <4>1, <5>1
        <5> QED BY <5>1, <5>2
      <4> QED BY <3>1, <4>2, <4>3 DEF IsRequest
    <3>2. CASE d # c
      <4>1. send_queue'[d] = send_queue[d]
        BY <1>3, <3>2, QueueTypes
      <4> QED BY <1>6, <4>1 DEF OrderInv, ClientOrder, IsRequest
    <3> QED BY <3>1, <3>2
  <2> QED BY <2>1, <2>2 DEF ClientOrder
<1>10. ServerOrder'
  <2>1. ASSUME NEW i \in 1 .. n
        PROVE  /\ inbox[Server][i].uid \in Uids /\ inbox[Server][i].from \in Clients
               /\ inbox[Server][i].uid < uid_counter'[inbox[Server][i].from]
               /\ inbox[Server][i].req = futures'[inbox[Server][i].from][inbox[Server][i].uid].req
               /\ submitting'[inbox[Server][i].from][inbox[Server][i].uid] = "no"
               /\ \A j \in 1 .. Len(send_queue'[inbox[Server][i].from]) :
                    inbox[Server][i].uid # send_queue'[inbox[Server][i].from][j].uid
               /\ inbox[Server][i].from = c => inbox[Server][i].uid # m.uid
    <3>1. PICK k \in RequestMsg : k = inbox[Server][i]
      BY Fields
    <3>2. k.from \in Clients /\ k.uid \in Uids /\ IsRequest(k.from, k.uid, k.req) /\ HasLeft(k.from, k.uid)
      BY <3>1, Fields DEF OrderInv, ServerOrder
    <3>3. HasLeft(k.from, k.uid)'
      BY <1>7, <3>2
    <3>4. k.from = c => k.uid # m.uid
      BY <1>3, <3>2 DEF HasLeft
    <3> QED BY <1>6, <3>1, <3>2, <3>3, <3>4 DEF HasLeft, IsRequest
  <2>2. ASSUME NEW h \in handlers
        PROVE  /\ h.uid \in Uids /\ h.from \in Clients
               /\ IsRequest(h.from, h.uid, h.req)' /\ HasLeft(h.from, h.uid)'
               /\ h.from = c => h.uid # m.uid
    <3>1. h.from \in Clients /\ h.uid \in Uids /\ IsRequest(h.from, h.uid, h.req) /\ HasLeft(h.from, h.uid)
      BY Fields DEF OrderInv, ServerOrder
    <3>2. h.from = c => h.uid # m.uid
      BY <1>3, <3>1 DEF HasLeft
    <3> QED BY <1>6, <1>7, <3>1, <3>2 DEF IsRequest
  <2>3. CASE inbox'[Server] = inbox[Server]
    <3>1. \A i \in 1 .. Len(inbox'[Server]) :
            /\ IsRequest(inbox[Server][i].from, inbox[Server][i].uid, inbox[Server][i].req)'
            /\ HasLeft(inbox[Server][i].from, inbox[Server][i].uid)'
      BY <2>1, <2>3 DEF IsRequest, HasLeft
    <3> QED BY <1>6, <2>2, <2>3, <3>1 DEF OrderInv, ServerOrder
  <2>4. CASE /\ Len(inbox'[Server]) = n + 1
             /\ \A i \in 1 .. n : inbox'[Server][i] = inbox[Server][i]
             /\ inbox'[Server][n + 1] = m
    <3>1. ASSUME NEW i \in 1 .. Len(inbox'[Server])
          PROVE  /\ IsRequest(inbox[Server][i].from, inbox[Server][i].uid, inbox[Server][i].req)'
                 /\ HasLeft(inbox[Server][i].from, inbox[Server][i].uid)'
      <4>1. CASE i \in 1 .. n
        BY <2>1, <2>4, <4>1 DEF IsRequest, HasLeft
      <4>2. CASE i = n + 1
        BY <1>4, <1>6, <1>8, <2>4, <4>2 DEF IsRequest, HasLeft
      <4> QED BY <1>5, <2>4, <4>1, <4>2
    <3>2. ASSUME NEW i \in 1 .. Len(inbox'[Server]), NEW j \in 1 .. Len(inbox'[Server]), i < j,
                 inbox'[Server][i].from = inbox'[Server][j].from
          PROVE  inbox'[Server][i].uid # inbox'[Server][j].uid
      <4>1. i \in 1 .. n /\ inbox'[Server][i] = inbox[Server][i]
        BY <1>5, <2>4, <3>2
      <4>2. CASE j \in 1 .. n
        BY <2>4, <3>2, <4>1, <4>2 DEF OrderInv, ServerOrder
      <4>3. CASE j = n + 1
        BY <1>4, <2>1, <2>4, <3>2, <4>1, <4>3
      <4> QED BY <1>5, <2>4, <4>2, <4>3
    <3>3. ASSUME NEW h \in handlers, NEW i \in 1 .. Len(inbox'[Server]), inbox'[Server][i].from = h.from
          PROVE  h.uid # inbox'[Server][i].uid
      <4>1. CASE i \in 1 .. n
        BY <2>4, <3>3, <4>1 DEF OrderInv, ServerOrder
      <4>2. CASE i = n + 1
        BY <1>4, <2>2, <2>4, <3>3, <4>2
      <4> QED BY <1>5, <2>4, <4>1, <4>2
    <3>4. \A g, h \in handlers : g.from = h.from /\ g.uid = h.uid => g = h
      BY DEF OrderInv, ServerOrder
    <3> QED BY <1>6, <2>2, <3>1, <3>2, <3>3, <3>4 DEF ServerOrder
  <2> QED BY <1>5, <2>3, <2>4
<1>11. ReplyOrder'
  <2>1. send_queue'[Server] = send_queue[Server]
    BY <1>0, <1>3
  <2>2. ASSUME NEW i \in 1 .. Len(send_queue[Server])
        PROVE  HasLeft(send_queue[Server][i].to, send_queue[Server][i].uid)'
    <3>1. /\ send_queue[Server][i].to \in Clients /\ send_queue[Server][i].uid \in Uids
          /\ HasLeft(send_queue[Server][i].to, send_queue[Server][i].uid)
      BY Fields DEF OrderInv, ReplyOrder
    <3> QED BY <1>7, <2>1, <3>1 DEF HasLeft
  <2>3. ASSUME NEW d \in Clients, NEW i \in 1 .. Len(inbox'[d])
        PROVE  inbox'[d][i].to = d /\ HasLeft(d, inbox[d][i].uid)'
    <3>1. inbox'[d] = inbox[d]
      BY <1>0, <1>5, QueueTypes
    <3>2. inbox[d][i].to = d /\ inbox[d][i].uid \in Uids /\ HasLeft(d, inbox[d][i].uid)
      BY <3>1, Fields DEF OrderInv, ReplyOrder
    <3> QED BY <1>7, <3>1, <3>2 DEF HasLeft
  <2> QED BY <2>1, <2>2, <2>3 DEF ReplyOrder
<1> QED BY <1>9, <1>10, <1>11 DEF OrderInv

\* The rest of OrderInv is about what clients and their replies look like;
\* a step that leaves the requests alone leaves it to the inboxes.
LEMMA RequestsFrame ==
  ASSUME TypeInv, OrderInv,
         UNCHANGED <<uid_counter, submitting>>,
         \A c \in Clients : send_queue'[c] = send_queue[c]
  PROVE  \A c \in Clients, u \in Uids : HasLeft(c, u)' <=> HasLeft(c, u)
  BY DEF HasLeft

\* A client's order stays when its queue and its calls do.
LEMMA ClientOrderFrame ==
  ASSUME TypeInv, OrderInv,
         UNCHANGED <<uid_counter, submitting, pending, futures>>,
         \A c \in Clients : send_queue'[c] = send_queue[c]
  PROVE  ClientOrder'
<1>1. \A c \in Clients, u \in Uids : HasLeft(c, u)' <=> HasLeft(c, u)
  BY RequestsFrame
<1> QED BY <1>1 DEF OrderInv, ClientOrder, IsRequest

\* The server's part, when handlers only change their pc or end.
LEMMA ServerOrderFrame ==
  ASSUME TypeInv, OrderInv,
         UNCHANGED <<uid_counter, submitting, futures>>,
         inbox'[Server] = inbox[Server],
         \A c \in Clients : send_queue'[c] = send_queue[c],
         \A h \in handlers' : \E g \in handlers : g.from = h.from /\ g.uid = h.uid /\ g.req = h.req,
         \A g, h \in handlers' : g.from = h.from /\ g.uid = h.uid => g = h
  PROVE  ServerOrder'
<1>1. \A c \in Clients, u \in Uids : HasLeft(c, u)' <=> HasLeft(c, u)
  BY RequestsFrame
<1>2. ASSUME NEW i \in 1 .. Len(inbox'[Server])
      PROVE  /\ IsRequest(inbox[Server][i].from, inbox[Server][i].uid, inbox[Server][i].req)'
             /\ HasLeft(inbox[Server][i].from, inbox[Server][i].uid)'
  <2>1. PICK m \in RequestMsg : m = inbox[Server][i] /\ m = inbox'[Server][i]
    BY Fields
  <2>2. m.from \in Clients /\ m.uid \in Uids /\ IsRequest(m.from, m.uid, m.req) /\ HasLeft(m.from, m.uid)
    BY <2>1, Fields DEF OrderInv, ServerOrder
  <2>3. HasLeft(m.from, m.uid)'
    BY <1>1, <2>2
  <2> QED BY <2>1, <2>2, <2>3 DEF IsRequest, HasLeft
<1>3. ASSUME NEW h \in handlers'
      PROVE  /\ IsRequest(h.from, h.uid, h.req)' /\ HasLeft(h.from, h.uid)'
             /\ \A i \in 1 .. Len(inbox'[Server]) :
                  inbox'[Server][i].from = h.from => h.uid # inbox'[Server][i].uid
  <2>1. PICK g \in handlers : g.from = h.from /\ g.uid = h.uid /\ g.req = h.req
    OBVIOUS
  <2>2. /\ g.from \in Clients /\ g.uid \in Uids /\ IsRequest(g.from, g.uid, g.req)
        /\ HasLeft(g.from, g.uid)
        /\ \A i \in 1 .. Len(inbox[Server]) : inbox[Server][i].from = g.from => g.uid # inbox[Server][i].uid
    BY Fields DEF OrderInv, ServerOrder
  <2>3. HasLeft(h.from, h.uid)'
    BY <1>1, <2>1, <2>2
  <2> QED BY <2>1, <2>2, <2>3 DEF IsRequest
<1>4. \A i, j \in 1 .. Len(inbox'[Server]) :
        i < j /\ inbox'[Server][i].from = inbox'[Server][j].from
          => inbox'[Server][i].uid # inbox'[Server][j].uid
  BY DEF OrderInv, ServerOrder
<1> QED BY <1>2, <1>3, <1>4 DEF ServerOrder

\* A reply on its way to a client.
LEMMA ReplyTransmitted ==
  ASSUME TypeInv, OrderInv, UNCHANGED <<uid_counter, submitting>>,
         \A c \in Clients : send_queue'[c] = send_queue[c],
         NEW m \in ReplyMsg, HasLeft(m.to, m.uid), Transmit(m)
  PROVE  /\ inbox'[Server] = inbox[Server]
         /\ \A c \in Clients : \A i \in 1 .. Len(inbox'[c]) :
              inbox'[c][i].to = c /\ HasLeft(c, inbox[c][i].uid)'
<1>0. Server \in Endpoints /\ Server \notin Clients /\ Clients \subseteq Endpoints
  BY QueueTypes
<1>1. m.to \in Clients /\ m.uid \in Uids
  BY DEF ReplyMsg
<1>2. /\ \A f \in Endpoints : f # m.to => inbox'[f] = inbox[f]
      /\ \/ inbox' = inbox
         \/ /\ Len(inbox'[m.to]) = Len(inbox[m.to]) + 1
            /\ \A i \in 1 .. Len(inbox[m.to]) : inbox'[m.to][i] = inbox[m.to][i]
            /\ inbox'[m.to][Len(inbox[m.to]) + 1] = m
  <2>1. LoopType /\ m \in Sent(Server)
    BY DEF TypeInv, Sent
  <2> QED BY <1>0, <2>1, Transmitted
<1>3. \A c \in Clients, u \in Uids : HasLeft(c, u)' <=> HasLeft(c, u)
  BY RequestsFrame
<1>4. ASSUME NEW c \in Clients, NEW i \in 1 .. Len(inbox'[c])
      PROVE  inbox'[c][i].to = c /\ HasLeft(c, inbox[c][i].uid)'
  <2>0. Len(inbox[c]) \in Nat
    BY <1>0, QueueTypes
  <2>1. \/ i \in 1 .. Len(inbox[c]) /\ inbox'[c][i] = inbox[c][i]
        \/ c = m.to /\ inbox'[c][i] = m
    <3>1. CASE c # m.to \/ inbox' = inbox
      BY <1>0, <1>2, <3>1
    <3>2. CASE /\ c = m.to
               /\ Len(inbox'[c]) = Len(inbox[c]) + 1
               /\ \A j \in 1 .. Len(inbox[c]) : inbox'[c][j] = inbox[c][j]
               /\ inbox'[c][Len(inbox[c]) + 1] = m
      <4>1. i \in 1 .. Len(inbox[c]) \/ i = Len(inbox[c]) + 1
        BY <2>0, <3>2
      <4> QED BY <3>2, <4>1
    <3> QED BY <1>2, <3>1, <3>2
  <2>2. PICK k : k = inbox'[c][i]
    OBVIOUS
  <2>3. k.to = c /\ k.uid \in Uids /\ HasLeft(c, k.uid)
    BY <1>1, <2>1, <2>2, Fields DEF OrderInv, ReplyOrder
  <2>4. HasLeft(c, k.uid)'
    BY <1>3, <2>3
  <2> QED BY <2>2, <2>3, <2>4 DEF HasLeft
<1> QED BY <1>0, <1>1, <1>2, <1>4

\* A reply moves from the server's queue to a client's inbox.
LEMMA ReplySentOrder ==
  ASSUME TypeInv, OrderInv, SendQueued(Server), UNCHANGED <<clientVars, serverVars>>
  PROVE  OrderInv'
<1>0. Server \in Endpoints /\ Server \notin Clients /\ Clients \subseteq Endpoints
  BY QueueTypes
<1>1. send_queue[Server] \in Seq(ReplyMsg) /\ send_queue[Server] # <<>>
  BY <1>0, QueueTypes DEF TypeInv, LoopType, SendQueued
<1>2. PICK m \in ReplyMsg : m = Head(send_queue[Server]) /\ m = send_queue[Server][1]
  BY <1>1, Taken
<1>3. /\ Len(send_queue[Server]) \in Nat \ {0}
      /\ \A i \in 1 .. Len(send_queue'[Server]) :
           /\ i + 1 \in 1 .. Len(send_queue[Server])
           /\ send_queue'[Server][i] = send_queue[Server][i + 1]
      /\ \A c \in Clients : send_queue'[c] = send_queue[c]
  <2>1. /\ send_queue'[Server] = Tail(send_queue[Server])
        /\ \A e \in Endpoints : e # Server => send_queue'[e] = send_queue[e]
    BY <1>0, QueueTypes DEF SendQueued
  <2> QED BY <1>0, <1>1, <2>1, Taken
<1>4. Transmit(m) /\ UNCHANGED <<uid_counter, submitting, pending, futures, handlers>>
  BY <1>2 DEF SendQueued, clientVars, serverVars
<1>5. m.to \in Clients /\ m.uid \in Uids /\ HasLeft(m.to, m.uid)
  BY <1>2, <1>3 DEF OrderInv, ReplyOrder, ReplyMsg
<1>6. /\ inbox'[Server] = inbox[Server]
      /\ \A c \in Clients : \A i \in 1 .. Len(inbox'[c]) :
           inbox'[c][i].to = c /\ HasLeft(c, inbox[c][i].uid)'
  BY <1>3, <1>4, <1>5, ReplyTransmitted
<1>7. ASSUME NEW i \in 1 .. Len(send_queue'[Server])
      PROVE  HasLeft(send_queue[Server][i].to, send_queue[Server][i].uid)'
  <2>1. PICK k : k = send_queue'[Server][i] /\ k = send_queue[Server][i + 1]
    BY <1>3
  <2>2. k.to \in Clients /\ k.uid \in Uids /\ HasLeft(k.to, k.uid)
    BY <1>3, <2>1, Fields DEF OrderInv, ReplyOrder
  <2>3. HasLeft(k.to, k.uid)'
    BY <1>3, <1>4, <2>2, RequestsFrame
  <2> QED BY <2>1, <2>3 DEF HasLeft
<1>8. ClientOrder'
  BY <1>3, <1>4, ClientOrderFrame
<1>9. ServerOrder'
  <2>1. \A g, h \in handlers : g.from = h.from /\ g.uid = h.uid => g = h
    BY DEF OrderInv, ServerOrder
  <2> QED BY <1>3, <1>4, <1>6, <2>1, ServerOrderFrame
<1> QED BY <1>6, <1>7, <1>8, <1>9 DEF OrderInv, ReplyOrder

\* What a step of a client's on_recv does.
LEMMA ClientReceives ==
  ASSUME TypeInv, NEW c \in Clients, ClientRecv(c)
  PROVE  \E m \in ReplyMsg :
           /\ m = inbox[c][1] /\ m.uid \in Uids /\ m.ok \in BOOLEAN
           /\ Len(inbox[c]) \in Nat \ {0}
           /\ Len(inbox'[c]) = Len(inbox[c]) - 1
           /\ \A i \in 1 .. Len(inbox'[c]) :
                i + 1 \in 1 .. Len(inbox[c]) /\ inbox'[c][i] = inbox[c][i + 1]
           /\ \A e \in Endpoints : e # c => inbox'[e] = inbox[e]
           /\ IF m.uid \in pending[c]
              THEN /\ pending' = [pending EXCEPT ![c] = @ \ {m.uid}]
                   /\ IF futures[c][m.uid].state = "unset"
                      THEN Settle(c, m.uid, m) /\ UNCHANGED raised
                      ELSE raised' = [raised EXCEPT ![c] = TRUE] /\ UNCHANGED futures
              ELSE UNCHANGED <<pending, futures, raised>>
<1>0. c \in Endpoints /\ inbox[c] \in Seq(ReplyMsg) /\ inbox \in [Endpoints -> Seq(Message)]
  BY QueueTypes
<1>1. inbox[c] # <<>>
  BY <1>0 DEF TypeInv, LoopType, ClientRecv, Received
<1>2. PICK m \in ReplyMsg : m = Head(inbox[c])
  BY <1>0, <1>1, Taken
<1>3. inbox'[c] = Tail(inbox[c]) /\ \A e \in Endpoints : e # c => inbox'[e] = inbox[e]
  BY <1>0 DEF ClientRecv, Received
<1>4. m.uid \in Uids /\ m.ok \in BOOLEAN
  BY DEF ReplyMsg
<1>5. /\ m = inbox[c][1] 
      /\ Len(inbox[c]) \in Nat \ {0}
      /\ Len(inbox'[c]) = Len(inbox[c]) - 1
      /\ \A i \in 1 .. Len(inbox'[c]) :
           i + 1 \in 1 .. Len(inbox[c]) /\ inbox'[c][i] = inbox[c][i + 1]
  BY <1>0, <1>1, <1>2, <1>3, Taken
<1>6. IF m.uid \in pending[c]
      THEN /\ pending' = [pending EXCEPT ![c] = @ \ {m.uid}]
           /\ IF futures[c][m.uid].state = "unset"
              THEN Settle(c, m.uid, m) /\ UNCHANGED raised
              ELSE raised' = [raised EXCEPT ![c] = TRUE] /\ UNCHANGED futures
      ELSE UNCHANGED <<pending, futures, raised>>
  BY <1>2, Zenon DEF ClientRecv
<1> QED BY <1>3, <1>4, <1>5, <1>6

\* A client takes a reply from its inbox.
LEMMA ClientRecvOrder ==
  ASSUME TypeInv, OrderInv, NEW c \in Clients, ClientRecv(c)
  PROVE  OrderInv'
<1>0. Server \in Endpoints /\ Server \notin Clients /\ Clients \subseteq Endpoints
  BY QueueTypes
<1>1. PICK m \in ReplyMsg :
        /\ m = inbox[c][1] /\ m.uid \in Uids /\ m.ok \in BOOLEAN
        /\ Len(inbox[c]) \in Nat \ {0}
        /\ Len(inbox'[c]) = Len(inbox[c]) - 1
        /\ \A i \in 1 .. Len(inbox'[c]) :
             i + 1 \in 1 .. Len(inbox[c]) /\ inbox'[c][i] = inbox[c][i + 1]
        /\ \A e \in Endpoints : e # c => inbox'[e] = inbox[e]
        /\ IF m.uid \in pending[c]
           THEN /\ pending' = [pending EXCEPT ![c] = @ \ {m.uid}]
                /\ IF futures[c][m.uid].state = "unset"
                   THEN Settle(c, m.uid, m) /\ UNCHANGED raised
                   ELSE raised' = [raised EXCEPT ![c] = TRUE] /\ UNCHANGED futures
           ELSE UNCHANGED <<pending, futures, raised>>
  BY ClientReceives
<1>2. UNCHANGED <<send_queue, uid_counter, submitting, handlers>>
  BY DEF ClientRecv, serverVars
<1>3. HasLeft(c, m.uid)
  BY <1>1 DEF OrderInv, ReplyOrder
<1>4. /\ \A d \in Clients : pending'[d] \subseteq pending[d]
      /\ \A d \in Clients, v \in Uids :
           /\ d # c \/ v # m.uid => futures'[d][v] = futures[d][v]
           /\ futures'[d][v].req = futures[d][v].req
  <2>0. pending \in [Clients -> SUBSET Uids]
    BY DEF TypeInv, ClientType
  <2>1. \A d \in Clients : pending'[d] \subseteq pending[d]
    <3>1. CASE pending' = [pending EXCEPT ![c] = @ \ {m.uid}]
      BY <2>0, <3>1
    <3>2. CASE pending' = pending
      BY <3>2
    <3> QED BY <1>1, <3>1, <3>2
  <2>2. CASE UNCHANGED futures
    BY <2>1, <2>2
  <2>3. CASE Settle(c, m.uid, m)
    BY <1>1, <2>1, <2>3, Settled
  <2> QED BY <1>1, <2>2, <2>3
<1>5. \A d \in Clients, v \in Uids : HasLeft(d, v)' <=> HasLeft(d, v)
  BY <1>2, RequestsFrame
<1>6. ClientOrder'
  <2>1. ASSUME NEW d \in Clients, NEW v \in Uids
        PROVE /\ v >= uid_counter'[d] => /\ futures'[d][v] = NoFuture
                                         /\ v \notin pending'[d]
                                         /\ submitting'[d][v] = "no"
              /\ v < uid_counter'[d] => futures'[d][v].req \in ReqKinds
              /\ futures'[d][v].state # "unset" => HasLeft(d, v)'
    <3>1. CASE d = c /\ v = m.uid
      <4>1. v < uid_counter[d] /\ uid_counter[d] \in Nat /\ v \in Nat
        BY <1>3, <3>1, QueueTypes DEF HasLeft
      <4> QED BY <1>2, <1>3, <1>4, <1>5, <3>1, <4>1 DEF OrderInv, ClientOrder
    <3>2. CASE ~(d = c /\ v = m.uid)
      BY <1>2, <1>4, <1>5, <3>2 DEF OrderInv, ClientOrder
    <3> QED BY <3>1, <3>2
  <2>2. ASSUME NEW d \in Clients
        PROVE  /\ \A i \in 1 .. Len(send_queue'[d]) :
                    /\ send_queue'[d][i].from = d
                    /\ IsRequest(d, send_queue[d][i].uid, send_queue[d][i].req)'
                    /\ submitting'[d][send_queue'[d][i].uid] = "no"
               /\ \A i, j \in 1 .. Len(send_queue'[d]) :
                    i < j => send_queue'[d][i].uid # send_queue'[d][j].uid
    <3>1. \A i \in 1 .. Len(send_queue[d]) :
            /\ send_queue[d][i].from = d /\ send_queue[d][i].uid \in Uids
            /\ send_queue[d][i].uid < uid_counter[d]
            /\ send_queue[d][i].req = futures[d][send_queue[d][i].uid].req
            /\ submitting[d][send_queue[d][i].uid] = "no"
      BY Fields DEF OrderInv, ClientOrder, IsRequest
    <3>2. \A i \in 1 .. Len(send_queue[d]) :
            send_queue[d][i].req = futures'[d][send_queue[d][i].uid].req
      BY <1>4, <3>1
    <3>3. \A i, j \in 1 .. Len(send_queue[d]) :
            i < j => send_queue[d][i].uid # send_queue[d][j].uid
      BY DEF OrderInv, ClientOrder
    <3> QED BY <1>2, <3>1, <3>2, <3>3 DEF IsRequest
  <2> QED BY <2>1, <2>2 DEF ClientOrder
<1>7. ServerOrder'
  <2>1. inbox'[Server] = inbox[Server]
    BY <1>0, <1>1
  <2>2. ASSUME NEW i \in 1 .. Len(inbox'[Server])
        PROVE  /\ IsRequest(inbox[Server][i].from, inbox[Server][i].uid, inbox[Server][i].req)'
               /\ HasLeft(inbox[Server][i].from, inbox[Server][i].uid)'
    <3>1. PICK k \in RequestMsg : k = inbox[Server][i] /\ k = inbox'[Server][i]
      BY <2>1, Fields
    <3>2. k.from \in Clients /\ k.uid \in Uids /\ IsRequest(k.from, k.uid, k.req) /\ HasLeft(k.from, k.uid)
      BY <2>1, <3>1, Fields DEF OrderInv, ServerOrder
    <3>3. HasLeft(k.from, k.uid)' /\ IsRequest(k.from, k.uid, k.req)'
      BY <1>2, <1>4, <1>5, <3>2 DEF IsRequest
    <3> QED BY <3>1, <3>3 DEF IsRequest, HasLeft
  <2>3. ASSUME NEW h \in handlers PROVE IsRequest(h.from, h.uid, h.req)' /\ HasLeft(h.from, h.uid)'
    <3>1. h.from \in Clients /\ h.uid \in Uids /\ IsRequest(h.from, h.uid, h.req) /\ HasLeft(h.from, h.uid)
      BY Fields DEF OrderInv, ServerOrder
    <3> QED BY <1>2, <1>4, <1>5, <3>1 DEF IsRequest
  <2> QED BY <1>2, <2>1, <2>2, <2>3 DEF OrderInv, ServerOrder
<1>8. ReplyOrder'
  <2>1. ASSUME NEW i \in 1 .. Len(send_queue'[Server])
        PROVE  HasLeft(send_queue[Server][i].to, send_queue[Server][i].uid)'
    BY <1>2 DEF OrderInv, ReplyOrder, HasLeft
  <2>2. ASSUME NEW d \in Clients, NEW i \in 1 .. Len(inbox'[d])
        PROVE  inbox'[d][i].to = d /\ HasLeft(d, inbox[d][i].uid)'
    <3>1. PICK j \in 1 .. Len(inbox[d]) : inbox'[d][i] = inbox[d][j]
      <4>1. CASE d = c
        BY <1>1, <4>1
      <4>2. CASE d # c
        BY <1>0, <1>1, <4>2
      <4> QED BY <4>1, <4>2
    <3>2. inbox[d][j].to = d /\ HasLeft(d, inbox[d][j].uid)
      BY DEF OrderInv, ReplyOrder
    <3> QED BY <1>2, <3>1, <3>2 DEF HasLeft
  <2> QED BY <2>1, <2>2 DEF ReplyOrder
<1> QED BY <1>6, <1>7, <1>8 DEF OrderInv

\* on_recv of the server starts the thread of the first request it holds.
LEMMA ServerRecvOrder ==
  ASSUME TypeInv, OrderInv, ServerRecv
  PROVE  OrderInv'
<1>0. Server \in Endpoints /\ Server \notin Clients /\ Clients \subseteq Endpoints
  BY QueueTypes
<1>1. inbox[Server] \in Seq(RequestMsg) /\ inbox[Server] # <<>>
  BY <1>0, QueueTypes DEF TypeInv, LoopType, ServerRecv, Received
<1>2. PICK m \in RequestMsg : m = Head(inbox[Server]) /\ m = inbox[Server][1]
  BY <1>1, Taken
<1>3. /\ Len(inbox[Server]) \in Nat \ {0}
      /\ \A i \in 1 .. Len(inbox'[Server]) :
           i + 1 \in 1 .. Len(inbox[Server]) /\ inbox'[Server][i] = inbox[Server][i + 1]
      /\ Len(inbox'[Server]) \in Nat
      /\ \A c \in Clients : inbox'[c] = inbox[c]
  <2>1. /\ inbox'[Server] = Tail(inbox[Server])
        /\ \A e \in Endpoints : e # Server => inbox'[e] = inbox[e]
    BY <1>0, QueueTypes DEF ServerRecv, Received
  <2> QED BY <1>0, <1>1, <2>1, Taken
<1>4. UNCHANGED <<send_queue, uid_counter, submitting, pending, futures>>
  BY DEF ServerRecv, clientVars
<1>5. PICK g : /\ g = [from |-> m.from, uid |-> m.uid, req |-> m.req, pc |-> "run"]
               /\ handlers' = handlers \cup {g}
  BY <1>2 DEF ServerRecv
<1>6. /\ m.from \in Clients /\ m.uid \in Uids /\ IsRequest(m.from, m.uid, m.req)
      /\ HasLeft(m.from, m.uid)
  <2>1. 1 \in 1 .. Len(inbox[Server])
    BY <1>3
  <2> QED BY <1>2, <2>1, Fields DEF OrderInv, ServerOrder
<1>7. \A i \in 1 .. Len(inbox'[Server]) :
        inbox'[Server][i].from = m.from => m.uid # inbox'[Server][i].uid
  <2> SUFFICES ASSUME NEW i \in 1 .. Len(inbox'[Server]), inbox'[Server][i].from = m.from
               PROVE  m.uid # inbox'[Server][i].uid
    OBVIOUS
  <2>1. 1 \in 1 .. Len(inbox[Server]) /\ i + 1 \in 1 .. Len(inbox[Server]) /\ 1 < i + 1
    BY <1>3
  <2>2. inbox[Server][1].uid # inbox[Server][i + 1].uid
    BY <1>2, <1>3, <2>1 DEF OrderInv, ServerOrder
  <2> QED BY <1>2, <1>3, <2>2
<1>8. ClientOrder'
  BY <1>4, ClientOrderFrame
<1>9. \A h \in handlers : ~(h.from = m.from /\ h.uid = m.uid)
  <2> SUFFICES ASSUME NEW h \in handlers, h.from = m.from, h.uid = m.uid PROVE FALSE
    OBVIOUS
  <2>1. 1 \in 1 .. Len(inbox[Server])
    BY <1>3
  <2>2. h.uid # m.uid
    BY <1>2, <2>1 DEF OrderInv, ServerOrder
  <2> QED BY <1>6, <2>2, QueueTypes
<1>10. ServerOrder'
  <2>1. ASSUME NEW i \in 1 .. Len(inbox'[Server])
        PROVE  /\ IsRequest(inbox[Server][i].from, inbox[Server][i].uid, inbox[Server][i].req)'
               /\ HasLeft(inbox[Server][i].from, inbox[Server][i].uid)'
    <3>1. PICK k \in RequestMsg : k = inbox[Server][i + 1] /\ k = inbox'[Server][i]
      BY <1>3, Fields
    <3>2. IsRequest(k.from, k.uid, k.req) /\ HasLeft(k.from, k.uid)
      BY <1>3, <3>1 DEF OrderInv, ServerOrder
    <3> QED BY <1>4, <3>1, <3>2 DEF IsRequest, HasLeft
  <2>2. ASSUME NEW i \in 1 .. Len(inbox'[Server]), NEW j \in 1 .. Len(inbox'[Server]), i < j,
               inbox'[Server][i].from = inbox'[Server][j].from
        PROVE  inbox'[Server][i].uid # inbox'[Server][j].uid
    <3>1. PICK k \in 1 .. Len(inbox[Server]), l \in 1 .. Len(inbox[Server]) :
            k < l /\ inbox'[Server][i] = inbox[Server][k] /\ inbox'[Server][j] = inbox[Server][l]
      <4>1. i + 1 \in 1 .. Len(inbox[Server]) /\ j + 1 \in 1 .. Len(inbox[Server]) /\ i + 1 < j + 1
        BY <1>3, <2>2
      <4>2. inbox'[Server][i] = inbox[Server][i + 1] /\ inbox'[Server][j] = inbox[Server][j + 1]
        BY <1>3, <2>2
      <4> QED BY <4>1, <4>2
    <3>2. inbox[Server][k].from = inbox[Server][l].from
      BY <2>2, <3>1
    <3>3. inbox[Server][k].uid # inbox[Server][l].uid
      BY <3>1, <3>2 DEF OrderInv, ServerOrder
    <3> QED BY <3>1, <3>3
  <2>3. ASSUME NEW h \in handlers'
        PROVE  /\ IsRequest(h.from, h.uid, h.req)' /\ HasLeft(h.from, h.uid)'
               /\ \A i \in 1 .. Len(inbox'[Server]) :
                    inbox'[Server][i].from = h.from => h.uid # inbox'[Server][i].uid
    <3>1. CASE h = g
      BY <1>4, <1>5, <1>6, <1>7, <3>1 DEF IsRequest, HasLeft
    <3>2. CASE h \in handlers
      BY <1>3, <1>4, <3>2 DEF OrderInv, ServerOrder, IsRequest, HasLeft
    <3> QED BY <1>5, <3>1, <3>2
  <2>4. \A f, h \in handlers' : f.from = h.from /\ f.uid = h.uid => f = h
    BY <1>5, <1>9 DEF OrderInv, ServerOrder
  <2> QED BY <2>1, <2>2, <2>3, <2>4 DEF ServerOrder
<1>11. ReplyOrder'
  BY <1>3, <1>4 DEF OrderInv, ReplyOrder, HasLeft
<1> QED BY <1>8, <1>10, <1>11 DEF OrderInv

\* A step of a handler keeps the order.
LEMMA HandleOrder ==
  ASSUME TypeInv, OrderInv, NEW h \in handlers, Handle(h)
  PROVE  OrderInv'
<1>0. Server \in Endpoints /\ Server \notin Clients /\ Clients \subseteq Endpoints
  BY QueueTypes
<1>1. UNCHANGED <<uid_counter, submitting, pending, futures>>
  BY DEF Handle, HandleValue, HandleChunks, SendNowLock, SendNow, PostSend, clientVars
<1>2. /\ h.from \in Clients /\ h.uid \in Uids /\ HasLeft(h.from, h.uid)
      /\ \A ok \in BOOLEAN : Reply(h, ok) \in ReplyMsg
  BY Fields, ReplyType DEF OrderInv, ServerOrder, Sent
<1>3. /\ \A g \in handlers' : \E k \in handlers : k.from = g.from /\ k.uid = g.uid /\ k.req = g.req
      /\ \A f, g \in handlers' : f.from = g.from /\ f.uid = g.uid => f = g
  <2>1. \A f, g \in handlers : f.from = g.from /\ f.uid = g.uid => f = g
    BY DEF OrderInv, ServerOrder
  <2>2. CASE handlers' = handlers \ {h}
    BY <2>1, <2>2
  <2>3. CASE \E pc : handlers' = (handlers \ {h}) \cup {[h EXCEPT !.pc = pc]}
    <3>1. PICK pc : handlers' = (handlers \ {h}) \cup {[h EXCEPT !.pc = pc]}
      BY <2>3
    <3>2. PICK k : k = [h EXCEPT !.pc = pc]
      OBVIOUS
    <3>3. k.from = h.from /\ k.uid = h.uid /\ k.req = h.req
      BY <3>2, Fields DEF HandlerRec
    <3>4. handlers' = (handlers \ {h}) \cup {k}
      BY <3>1, <3>2
    <3> QED BY <2>1, <3>3, <3>4
  <2> QED BY <2>2, <2>3 DEF Handle, HandleValue, HandleChunks, SendNowLock, SendNow, PostSend,
                            Becomes, Ends
<1>4. ASSUME NEW m \in ReplyMsg, m.to = h.from, m.uid = h.uid, send(Server, m) PROVE OrderInv'
  <2>1. /\ UNCHANGED inbox
        /\ \A c \in Clients : send_queue'[c] = send_queue[c]
        /\ send_queue'[Server] = Append(send_queue[Server], m)
    BY <1>0, <1>4, QueueTypes DEF send
  <2>2. ASSUME NEW i \in 1 .. Len(send_queue'[Server])
        PROVE  HasLeft(send_queue[Server][i].to, send_queue[Server][i].uid)'
    <3>1. \/ i \in 1 .. Len(send_queue[Server]) /\ send_queue'[Server][i] = send_queue[Server][i]
          \/ send_queue'[Server][i] = m
      BY <2>1, <2>2, QueueTypes, AppendedAt
    <3>2. PICK k : k = send_queue'[Server][i]
      OBVIOUS
    <3>3. k.to \in Clients /\ k.uid \in Uids /\ HasLeft(k.to, k.uid)
      BY <1>2, <1>4, <3>1, <3>2, Fields DEF OrderInv, ReplyOrder
    <3>4. HasLeft(k.to, k.uid)'
      BY <1>1, <2>1, <3>3, RequestsFrame
    <3> QED BY <3>2, <3>4 DEF HasLeft
  <2>3. ClientOrder' /\ ServerOrder'
    BY <1>1, <1>3, <2>1, ClientOrderFrame, ServerOrderFrame
  <2>4. \A c \in Clients : \A i \in 1 .. Len(inbox'[c]) :
          inbox'[c][i].to = c /\ HasLeft(c, inbox[c][i].uid)'
    BY <1>1, <2>1 DEF OrderInv, ReplyOrder, HasLeft
  <2> QED BY <2>2, <2>3, <2>4 DEF OrderInv, ReplyOrder
<1>5. ASSUME UNCHANGED <<send_queue, inbox>> PROVE OrderInv'
  <2>1. ClientOrder' /\ ServerOrder'
    BY <1>1, <1>3, <1>5, ClientOrderFrame, ServerOrderFrame
  <2>2. ReplyOrder'
    BY <1>1, <1>5 DEF OrderInv, ReplyOrder, HasLeft
  <2> QED BY <2>1, <2>2 DEF OrderInv
<1>6. ASSUME NEW m \in ReplyMsg, m.to = h.from, m.uid = h.uid, Transmit(m), UNCHANGED send_queue
      PROVE  OrderInv'
  <2>1. /\ inbox'[Server] = inbox[Server]
        /\ \A c \in Clients : \A i \in 1 .. Len(inbox'[c]) :
             inbox'[c][i].to = c /\ HasLeft(c, inbox[c][i].uid)'
    BY <1>1, <1>2, <1>6, ReplyTransmitted
  <2>2. ClientOrder' /\ ServerOrder'
    BY <1>1, <1>3, <1>6, <2>1, ClientOrderFrame, ServerOrderFrame
  <2>3. ASSUME NEW i \in 1 .. Len(send_queue'[Server])
        PROVE  HasLeft(send_queue[Server][i].to, send_queue[Server][i].uid)'
    BY <1>1, <1>6 DEF OrderInv, ReplyOrder, HasLeft
  <2> QED BY <2>1, <2>2, <2>3 DEF OrderInv, ReplyOrder
<1>7. \A ok : Reply(h, ok).to = h.from /\ Reply(h, ok).uid = h.uid
  BY DEF Reply
<1>8. CASE HandleValue(h)
  <2>1. (h.req # "error") \in BOOLEAN
    OBVIOUS
  <2>2. PICK m \in ReplyMsg : m = Reply(h, h.req # "error")
    BY <1>2, <2>1
  <2> QED BY <1>4, <1>7, <1>8, <2>2 DEF HandleValue
<1>9. CASE HandleChunks(h) \/ SendNowLock(h)
  BY <1>5, <1>9 DEF HandleChunks, SendNowLock, loopVars
<1>10. CASE SendNow(h)
  <2>1. PICK m \in ReplyMsg : m = Reply(h, TRUE)
    BY <1>2
  <2> QED BY <1>6, <1>7, <1>10, <2>1 DEF SendNow
<1>11. CASE PostSend(h)
  <2>1. PICK m \in ReplyMsg : m = Reply(h, FALSE)
    BY <1>2
  <2> QED BY <1>4, <1>5, <1>7, <1>11, <2>1 DEF PostSend, loopVars
<1> QED BY <1>8, <1>9, <1>10, <1>11 DEF Handle

\* Every step keeps the order.
LEMMA NextOrder == TypeInv /\ OrderInv /\ [Next]_vars => OrderInv'
<1> SUFFICES ASSUME TypeInv, OrderInv, [Next]_vars PROVE OrderInv'
  OBVIOUS
<1>0. Server \in Endpoints /\ Server \notin Clients /\ Clients \subseteq Endpoints
  BY QueueTypes
<1>1. ASSUME NEW c \in Clients, NEW req \in ReqKinds, submit(c, req), Submits(c, req)
      PROVE  OrderInv'
  BY <1>1, SubmitOrder
<1>8. ASSUME NEW c \in Clients, NEW u \in Uids, File(c, u) \/ Put(c, u) PROVE OrderInv'
  BY <1>8, FileOrder, PutOrder
<1>2. ASSUME NEW c \in Clients, Close(c) PROVE OrderInv'
  BY <1>2, OrderFrame DEF Close, Stop, clientVars, serverVars
<1>3. ASSUME NEW c \in Clients, Closing(c) PROVE OrderInv'
  <2>1. CASE StopWake(c)
    BY <1>3, <2>1, OrderFrame DEF Closing, StopWake, clientVars, serverVars
  <2>2. CASE Joined(c)
    <3>1. /\ inbox'[c] = <<>> /\ Len(inbox'[c]) = 0
          /\ \A e \in Endpoints : e # c => inbox'[e] = inbox[e]
      BY <1>0, <2>2, QueueTypes DEF Joined
    <3>2. UNCHANGED <<send_queue, uid_counter, submitting, pending, futures, handlers>>
      BY <1>3, <2>2 DEF Closing, Joined, clientVars, serverVars
    <3>3. ClientOrder'
      BY <3>2, ClientOrderFrame
    <3>4. ServerOrder'
      <4>1. \A g, h \in handlers : g.from = h.from /\ g.uid = h.uid => g = h
        BY DEF OrderInv, ServerOrder
      <4> QED BY <1>0, <3>1, <3>2, <4>1, ServerOrderFrame
    <3>5. ASSUME NEW d \in Clients, NEW i \in 1 .. Len(inbox'[d])
          PROVE  inbox'[d][i].to = d /\ HasLeft(d, inbox[d][i].uid)'
      <4>1. d # c
        BY <3>1
      <4>2. inbox'[d] = inbox[d]
        BY <1>0, <3>1, <4>1
      <4> QED BY <3>2, <4>2 DEF OrderInv, ReplyOrder, HasLeft
    <3>6. ASSUME NEW i \in 1 .. Len(send_queue'[Server])
          PROVE  HasLeft(send_queue[Server][i].to, send_queue[Server][i].uid)'
      BY <3>2 DEF OrderInv, ReplyOrder, HasLeft
    <3> QED BY <3>3, <3>4, <3>5, <3>6 DEF OrderInv, ReplyOrder
  <2> QED BY <1>3, <2>1, <2>2 DEF Closing
<1>4. ASSUME NEW e \in Endpoints, Waking(e) PROVE OrderInv'
  BY <1>4, OrderFrame DEF Waking, Wake, clientVars, serverVars
<1>5. ASSUME NEW e \in Endpoints, IOStep(e), UNCHANGED <<clientVars, serverVars>> PROVE OrderInv'
  <2>1. CASE SendQueued(e)
    BY <1>5, <2>1, RequestSentOrder, ReplySentOrder, QueueAssumption
  <2>2. CASE Loop(e) \/ Poll(e) \/ ReadWake(e) \/ Drain(e) \/ Drained(e)
    BY <1>5, <2>2, OrderFrame DEF Loop, Poll, ReadWake, Drain, Drained, clientVars, serverVars
  <2> QED BY <1>5, <2>1, <2>2 DEF IOStep
<1>6. ASSUME Crash PROVE OrderInv'
  <2>1. /\ send_queue'[Server] = <<>> /\ Len(send_queue'[Server]) = 0
        /\ inbox'[Server] = <<>> /\ Len(inbox'[Server]) = 0
        /\ \A c \in Clients : send_queue'[c] = send_queue[c] /\ inbox'[c] = inbox[c]
        /\ handlers' = {} /\ UNCHANGED <<uid_counter, submitting, pending, futures>>
    BY <1>0, <1>6, QueueTypes DEF Crash, clientVars
  <2>2. ClientOrder'
    BY <2>1, ClientOrderFrame
  <2>3. ServerOrder'
    BY <2>1 DEF ServerOrder
  <2>4. ASSUME NEW c \in Clients, NEW i \in 1 .. Len(inbox'[c])
        PROVE  inbox'[c][i].to = c /\ HasLeft(c, inbox[c][i].uid)'
    <3>1. /\ inbox'[c][i] = inbox[c][i]
          /\ inbox[c][i].to = c /\ HasLeft(c, inbox[c][i].uid)
      BY <2>1 DEF OrderInv, ReplyOrder
    <3> QED BY <2>1, <3>1 DEF HasLeft
  <2>5. ReplyOrder'
    BY <2>1, <2>4 DEF ReplyOrder
  <2> QED BY <2>2, <2>3, <2>5 DEF OrderInv
<1>7. ASSUME UNCHANGED vars PROVE OrderInv'
  BY <1>7, OrderFrame DEF vars, loopVars, clientVars, serverVars
<1> QED BY <1>1, <1>2, <1>3, <1>4, <1>5, <1>6, <1>7, <1>8, ClientRecvOrder, ServerRecvOrder,
           HandleOrder, NextCases

\* The order holds at the start.
LEMMA InitOrder == Init => OrderInv
<1> SUFFICES ASSUME Init PROVE OrderInv
  OBVIOUS
<1>1. /\ \A c \in Clients : send_queue[c] = <<>> /\ inbox[c] = <<>> /\ uid_counter[c] = 0
      /\ \A c \in Clients, u \in Uids : futures[c][u] = NoFuture /\ pending[c] = {}
                                         /\ submitting[c][u] = "no"
      /\ send_queue[Server] = <<>> /\ inbox[Server] = <<>> /\ handlers = {}
  BY QueueAssumption DEF Init, LoopInit
<1>2. ClientOrder
  <2>1. NoFuture.state = "unset"
    BY DEF NoFuture, Future
  <2>2. \A u \in Uids : ~(u < 0)
    BY QueueAssumption DEF Uids
  <2> QED BY <1>1, <2>1, <2>2 DEF ClientOrder
<1>3. ServerOrder /\ ReplyOrder
  BY <1>1 DEF ServerOrder, ReplyOrder
<1> QED BY <1>2, <1>3 DEF OrderInv

-----------------------------------------------------------------------------

\* The I/O thread and the handlers are different holders of the lock.
LEMMA IOThreadIsNoHandler == \A c \in Clients, u \in Uids : <<c, u>> # IOThread
  BY DEF IOThread

\* Every step keeps the lock with the thread that sends.
LEMMA NextLock == TypeInv /\ OrderInv /\ LockInv /\ [Next]_vars => LockInv'
<1> SUFFICES ASSUME TypeInv, OrderInv, LockInv, [Next]_vars PROVE LockInv'
  OBVIOUS
<1>0. Server \in Endpoints /\ Server \notin Clients /\ Clients \subseteq Endpoints
  BY QueueTypes
<1>t. /\ io \in [Endpoints -> IOState]
      /\ send_lock \in [Endpoints -> {Free, IOThread} \cup (Clients \X Uids)]
  BY DEF TypeInv, LoopType
<1>f. ASSUME UNCHANGED <<io, send_lock, handlers>> PROVE LockInv'
  BY <1>f DEF LockInv
<1>1. ASSUME NEW c \in Clients, NEW req \in ReqKinds, submit(c, req), Submits(c, req)
      PROVE  LockInv'
  BY <1>1, <1>f DEF submit, loopVars, serverVars
<1>11. ASSUME NEW c \in Clients, NEW u \in Uids, File(c, u) \/ Put(c, u) PROVE LockInv'
  BY <1>11, <1>f DEF File, Put, send, loopVars, serverVars
<1>2. ASSUME NEW c \in Clients, Close(c) PROVE LockInv'
  BY <1>2, <1>f DEF Close, Stop, serverVars
<1>3. ASSUME NEW c \in Clients, Closing(c) PROVE LockInv'
  BY <1>3, <1>f DEF Closing, StopWake, Joined, serverVars
<1>4. ASSUME NEW e \in Endpoints, Waking(e) PROVE LockInv'
  BY <1>4, <1>f DEF Waking, Wake, serverVars
<1>5. ASSUME NEW e \in Endpoints, IOStep(e), UNCHANGED <<clientVars, serverVars>> PROVE LockInv'
  <2>0. UNCHANGED handlers
    BY <1>5 DEF serverVars
  <2>1. CASE UNCHANGED send_lock /\ io'[e].pc # "send" /\ \A f \in Endpoints : f # e => io'[f] = io[f]
    BY <2>0, <2>1 DEF LockInv
  <2>2. CASE Drain(e)
    <3>1. /\ send_lock[e] = Free /\ send_lock'[e] = IOThread
          /\ \A f \in Endpoints : f # e => send_lock'[f] = send_lock[f] /\ io'[f] = io[f]
      BY <1>t, <2>2 DEF Drain, Goto
    <3>2. \A h \in handlers : h.pc = "send" => e # Server
      BY <3>1 DEF LockInv, Free
    <3> QED BY <1>0, <2>0, <3>1, <3>2 DEF LockInv
  <2>3. CASE SendQueued(e)
    <3>1. /\ io[e].pc = "send" /\ io'[e].pc # "send"
          /\ \A f \in Endpoints : f # e => send_lock'[f] = send_lock[f] /\ io'[f] = io[f]
      BY <1>t, <2>3 DEF SendQueued, Goto, IOState
    <3>2. \A h \in handlers : h.pc = "send" => e # Server
      BY <3>1, IOThreadIsNoHandler, Fields DEF LockInv
    <3> QED BY <1>0, <2>0, <3>1, <3>2 DEF LockInv
  <2>4. Poll(e) => UNCHANGED send_lock /\ io'[e].pc # "send" /\ \A f \in Endpoints : f # e => io'[f] = io[f]
    BY <1>t DEF Poll
  <2>5. Loop(e) \/ ReadWake(e) \/ Drained(e) =>
          UNCHANGED send_lock /\ io'[e].pc # "send" /\ \A f \in Endpoints : f # e => io'[f] = io[f]
    BY <1>t DEF Loop, ReadWake, Drained, Goto, IOState
  <2> QED BY <1>5, <2>1, <2>2, <2>3, <2>4, <2>5 DEF IOStep
<1>r. ASSUME NEW e \in Endpoints, Received(e)
      PROVE  io'[e].pc # "send" /\ \A f \in Endpoints : f # e => io'[f] = io[f]
  BY <1>t, <1>r DEF Received, Goto, IOState
<1>6. ASSUME NEW c \in Clients, ClientRecv(c) PROVE LockInv'
  BY <1>0, <1>6, <1>r DEF ClientRecv, LockInv, serverVars
<1>7. ASSUME ServerRecv PROVE LockInv'
  <2>1. io'[Server].pc # "send" /\ \A f \in Endpoints : f # Server => io'[f] = io[f]
    BY <1>0, <1>7, <1>r DEF ServerRecv
  <2>2. UNCHANGED send_lock /\ \A h \in handlers' : h \in handlers \/ h.pc = "run"
    BY <1>7 DEF ServerRecv
  <2> QED BY <2>1, <2>2 DEF LockInv
<1>8. ASSUME NEW h \in handlers, Handle(h) PROVE LockInv'
  <2>0. h \in HandlerRec /\ h.from \in Clients /\ h.uid \in Uids
    BY Fields
  <2>1. CASE HandleValue(h) \/ HandleChunks(h) \/ PostSend(h)
    <3>1. UNCHANGED <<io, send_lock>>
      BY <2>1 DEF HandleValue, HandleChunks, PostSend, send, loopVars
    <3>2. \A g \in handlers' : g \in handlers \/ g.pc = "lock"
      <4>1. [h EXCEPT !.pc = "lock"].pc = "lock"
        BY <2>0 DEF HandlerRec
      <4>2. handlers' = handlers \ {h} \/ handlers' = (handlers \ {h}) \cup {[h EXCEPT !.pc = "lock"]}
        BY <2>1 DEF HandleValue, HandleChunks, PostSend, Becomes, Ends
      <4> QED BY <4>1, <4>2
    <3> QED BY <3>1, <3>2 DEF LockInv
  <2>2. CASE SendNowLock(h)
    <3>1. /\ UNCHANGED io /\ send_lock[Server] = Free /\ send_lock'[Server] = <<h.from, h.uid>>
          /\ \A f \in Endpoints : f # Server => send_lock'[f] = send_lock[f]
      BY <1>0, <1>t, <2>2 DEF SendNowLock
    <3>2. \A g \in handlers' : g \in handlers \/ (g.pc = "send" /\ g.from = h.from /\ g.uid = h.uid)
      BY <2>0, <2>2 DEF SendNowLock, Becomes, HandlerRec
    <3>3. \A g \in handlers : g.pc # "send"
      BY <3>1 DEF LockInv, Free
    <3>4. io[Server].pc # "send"
      BY <1>0, <3>1 DEF LockInv, Free, IOThread
    <3> QED BY <3>1, <3>2, <3>3, <3>4 DEF LockInv
  <2>3. CASE SendNow(h)
    <3>1. /\ UNCHANGED io /\ send_lock[Server] = <<h.from, h.uid>>
          /\ \A f \in Endpoints : f # Server => send_lock'[f] = send_lock[f]
      BY <1>0, <1>t, <2>3 DEF SendNow, LockInv
    <3>2. \A g \in handlers' : (g \in handlers /\ g # h) \/ g.pc = "post"
      BY <2>0, <2>3 DEF SendNow, Becomes, HandlerRec
    <3>3. \A g \in handlers : g.pc = "send" => g.from = h.from /\ g.uid = h.uid
      <4>1. \A g \in handlers : g.pc = "send" => send_lock[Server] = <<g.from, g.uid>>
        BY DEF LockInv
      <4> QED BY <3>1, <4>1
    <3>4. \A g \in handlers' : g.pc # "send"
      <4>1. \A f, g \in handlers : f.from = g.from /\ f.uid = g.uid => f = g
        BY DEF OrderInv, ServerOrder
      <4> QED BY <3>2, <3>3, <4>1
    <3>5. io[Server].pc # "send"
      <4>1. send_lock[Server] # IOThread
        BY <2>0, <3>1, IOThreadIsNoHandler
      <4> QED BY <1>0, <4>1 DEF LockInv
    <3> QED BY <3>1, <3>4, <3>5 DEF LockInv
  <2> QED BY <1>8, <2>1, <2>2, <2>3 DEF Handle
<1>9. ASSUME Crash PROVE LockInv'
  <2>1. /\ io'[Server].pc = "loop" /\ handlers' = {}
        /\ \A f \in Endpoints : f # Server => send_lock'[f] = send_lock[f] /\ io'[f] = io[f]
    BY <1>0, <1>9, <1>t DEF Crash
  <2> QED BY <2>1 DEF LockInv
<1>10. ASSUME UNCHANGED vars PROVE LockInv'
  BY <1>10, <1>f DEF vars, loopVars, serverVars
<1> QED BY <1>1, <1>2, <1>3, <1>4, <1>5, <1>6, <1>7, <1>8, <1>9, <1>10, <1>11, NextCases

\* SendsAreExclusive: send_now of the handler threads and the sends of the
\* I/O thread hold send_lock, so two threads never write to the socket at
\* once; two handlers never share a name, since uids are never reused.
THEOREM SendsExclude == Spec => []SendsAreExclusive
<1>1. Init => TypeInv /\ OrderInv /\ LockInv
  <2>1. Init => LockInv
    BY DEF Init, LoopInit, LockInv
  <2> QED BY <2>1, InitType, InitOrder
<1>2. TypeInv /\ OrderInv /\ LockInv /\ [Next]_vars => TypeInv' /\ OrderInv' /\ LockInv'
  BY NextType, NextOrder, NextLock
<1>3. TypeInv /\ OrderInv /\ LockInv => SendsAreExclusive
  <2> SUFFICES ASSUME TypeInv, OrderInv, LockInv PROVE SendsAreExclusive
    OBVIOUS
  <2>1. ASSUME NEW g \in Sending, NEW h \in Sending PROVE g = h
    <3>1. <<g.from, g.uid>> = <<h.from, h.uid>> /\ g \in handlers /\ h \in handlers
      BY DEF Sending, LockInv
    <3> QED BY <3>1 DEF OrderInv, ServerOrder
  <2>2. ASSUME NEW h \in Sending PROVE io[Server].pc # "send"
    BY QueueTypes, IOThreadIsNoHandler, Fields DEF Sending, LockInv
  <2> QED BY <2>1, <2>2 DEF SendsAreExclusive
<1> QED BY <1>1, <1>2, <1>3, PTL DEF Spec

-----------------------------------------------------------------------------

\* Every step keeps the order of UNREGISTER, close and exit.
LEMMA NextClose == TypeInv /\ CloseInv /\ OrderInv /\ [Next]_vars => CloseInv'
<1> SUFFICES ASSUME TypeInv, OrderInv, CloseInv, [Next]_vars PROVE CloseInv'
  OBVIOUS
<1>0. Server \in Endpoints /\ Server \notin Clients /\ Clients \subseteq Endpoints
  BY QueueTypes
<1>t. /\ io \in [Endpoints -> IOState]
      /\ closing \in [Endpoints -> {"open", "stopping", "joining", "closed"}]
      /\ bye \in [Clients -> Uids \cup {None}]
      /\ futures \in [Clients -> [Uids -> FutureRec]]
  BY DEF TypeInv, LoopType, ClientType
<1>f. ASSUME UNCHANGED <<io, closing, bye, futures>> PROVE CloseInv'
  BY <1>f DEF CloseInv
<1>1. ASSUME NEW c \in Clients, NEW req \in ReqKinds, submit(c, req), Submits(c, req)
      PROVE  CloseInv'
  <2>1. UNCHANGED <<io, closing>>
    BY <1>1 DEF submit, loopVars
  <2>2. futures[c][uid_counter[c]].state = "unset"
    <3>1. futures[c][uid_counter[c]] = NoFuture
      BY <1>1, SubmitChanges
    <3>2. NoFuture.state = "unset"
      BY DEF NoFuture, Future
    <3> QED BY <3>1, <3>2
  <2>3. \A d \in Clients, v \in Uids : futures[d][v].state = "result" => futures'[d][v] = futures[d][v]
    BY <1>1, <2>2, SubmitChanges
  <2>4. \A d \in Clients : bye[d] # None => bye'[d] = bye[d] /\ bye[d] \in Uids
    BY <1>1, <1>t DEF Submits
  <2> QED BY <2>1, <2>3, <2>4 DEF CloseInv
<1>11. ASSUME NEW c \in Clients, NEW u \in Uids, File(c, u) \/ Put(c, u) PROVE CloseInv'
  BY <1>11, <1>f DEF File, Put, send, loopVars
<1>2. ASSUME NEW c \in Clients, Close(c) PROVE CloseInv'
  BY <1>0, <1>t, <1>2 DEF Close, Stop, CloseInv, clientVars
<1>3. ASSUME NEW c \in Clients, Closing(c) PROVE CloseInv'
  BY <1>0, <1>t, <1>3 DEF Closing, StopWake, Joined, CloseInv, clientVars
<1>4. ASSUME NEW e \in Endpoints, Waking(e) PROVE CloseInv'
  BY <1>4, <1>f DEF Waking, Wake, clientVars
<1>5. ASSUME NEW e \in Endpoints, IOStep(e), UNCHANGED <<clientVars, serverVars>> PROVE CloseInv'
  <2>1. \A f \in Endpoints : io'[f].pc = "exit" => io[f].pc = "exit" \/ closing[f] # "open"
    <3>1. CASE Poll(e)
      <4>1. io'[e].pc # "exit" /\ \A f \in Endpoints : f # e => io'[f] = io[f]
        BY <1>t, <3>1 DEF Poll
      <4> QED BY <4>1
    <3>2. CASE Loop(e)
      BY <1>t, <3>2 DEF Loop, Goto, stopped, IOState
    <3>3. CASE ReadWake(e) \/ Drain(e) \/ SendQueued(e) \/ Drained(e)
      BY <1>t, <3>3 DEF ReadWake, Drain, SendQueued, Drained, Goto, IOState
    <3> QED BY <1>5, <3>1, <3>2, <3>3 DEF IOStep
  <2>2. UNCHANGED <<closing, bye, futures>>
    BY <1>5 DEF IOStep, Loop, Poll, ReadWake, Drain, SendQueued, Drained, clientVars
  <2> QED BY <1>0, <2>1, <2>2 DEF CloseInv
<1>6. ASSUME NEW c \in Clients, ClientRecv(c) PROVE CloseInv'
  <2>1. UNCHANGED <<closing, bye>>
    BY <1>6 DEF ClientRecv
  <2>2. \A f \in Endpoints : io'[f].pc = "exit" => io[f].pc = "exit"
    BY <1>0, <1>t, <1>6 DEF ClientRecv, Received, Goto, IOState
  <2>3. \A d \in Clients, v \in Uids : futures[d][v].state = "result" => futures'[d][v] = futures[d][v]
    <3>1. PICK m \in ReplyMsg :
            /\ m.uid \in Uids
            /\ \/ futures[c][m.uid].state = "unset" /\ Settle(c, m.uid, m)
               \/ UNCHANGED futures
      BY <1>6, ClientReceives
    <3>2. CASE futures[c][m.uid].state = "unset" /\ Settle(c, m.uid, m)
      BY <3>1, <3>2, Settled
    <3>3. CASE UNCHANGED futures
      BY <3>3
    <3> QED BY <3>1, <3>2, <3>3
  <2>4. \A d \in Clients : bye[d] # None => bye[d] \in Uids
    BY <1>t
  <2> QED BY <1>0, <2>1, <2>2, <2>3, <2>4 DEF CloseInv
<1>7. ASSUME ServerRecv PROVE CloseInv'
  <2>1. \A c \in Clients : io'[c] = io[c]
    BY <1>0, <1>t, <1>7 DEF ServerRecv, Received, Goto
  <2> QED BY <1>7, <2>1 DEF ServerRecv, CloseInv, clientVars
<1>8. ASSUME NEW h \in handlers, Handle(h) PROVE CloseInv'
  BY <1>8, <1>f DEF Handle, HandleValue, HandleChunks, SendNowLock, SendNow, PostSend, send,
                    loopVars, clientVars
<1>9. ASSUME Crash PROVE CloseInv'
  <2>1. \A c \in Clients : io'[c] = io[c]
    BY <1>0, <1>t, <1>9 DEF Crash
  <2> QED BY <1>9, <2>1 DEF Crash, CloseInv, clientVars
<1>10. ASSUME UNCHANGED vars PROVE CloseInv'
  BY <1>10, <1>f DEF vars, loopVars, clientVars
<1> QED BY <1>1, <1>2, <1>3, <1>4, <1>5, <1>6, <1>7, <1>8, <1>9, <1>10, <1>11, NextCases

\* ByeInv is about what a client queues and what it is submitting.
LEMMA ByeFrame ==
  ASSUME TypeInv, ByeInv, UNCHANGED <<bye, submitting>>,
         \A c \in Clients : send_queue'[c] = send_queue[c],
         \A c \in Clients, u \in Uids : futures'[c][u].req = futures[c][u].req
  PROVE  ByeInv'
  BY DEF ByeInv

\* The submits of a client that is shutting down are those of load threads.
LEMMA SubmitBye ==
  ASSUME TypeInv, OrderInv, ByeInv, NEW c \in Clients, NEW req \in ReqKinds,
         submit(c, req), Submits(c, req)
  PROVE  ByeInv'
<1> DEFINE u == uid_counter[c]
<1>0. bye \in [Clients -> Uids \cup {None}] /\ u \in Uids
  BY SubmitChanges DEF TypeInv, ClientType
<1>1. ASSUME NEW d \in Clients, d # c PROVE bye'[d] = bye[d]
  BY <1>0, <1>1 DEF Submits
<1>2. ASSUME NEW d \in Clients, bye'[d] # None
      PROVE  /\ \A v \in Uids :
                  submitting'[d][v] # "no" => v = bye'[d] \/ futures'[d][v].req = "ack"
             /\ submitting'[d][bye'[d]] = "no" =>
                  \A i \in 1 .. Len(send_queue'[d]) :
                    \/ send_queue'[d][i].req = "ack"
                    \/ \E j \in i .. Len(send_queue'[d]) : send_queue'[d][j].uid = bye'[d]
  <2>1. UNCHANGED send_queue
    BY SubmitChanges
  <2>2. CASE d # c
    <3>1. bye'[d] = bye[d] /\ bye[d] \in Uids
      BY <1>0, <1>1, <1>2, <2>2
    <3>2. \A v \in Uids : futures'[d][v] = futures[d][v] /\ submitting'[d][v] = submitting[d][v]
      BY <2>2, SubmitChanges
    <3> QED BY <1>2, <2>1, <3>1, <3>2 DEF ByeInv
  <2>3. CASE d = c /\ UNCHANGED bye
    <3>1. bye[c] \in Uids /\ bye'[c] = bye[c] /\ req = "ack"
      BY <1>0, <1>2, <2>3 DEF Submits
    <3>2. futures'[c][u].req = "ack" /\ submitting'[c][u] # "no"
      <4>1. futures'[c][u] = Future(req) /\ submitting'[c][u] = "file"
        BY SubmitChanges
      <4>2. Future(req).req = req
        BY DEF Future
      <4> QED BY <3>1, <4>1, <4>2
    <3>3. \A v \in Uids : v # u => futures'[c][v] = futures[c][v] /\ submitting'[c][v] = submitting[c][v]
      BY SubmitChanges
    <3> QED BY <1>2, <2>1, <2>3, <3>1, <3>2, <3>3 DEF ByeInv
  <2>4. CASE d = c /\ HookIsFree(c) /\ bye' = [bye EXCEPT ![c] = u]
    <3>1. bye'[c] = u
      BY <1>0, <2>4
    <3>2. submitting'[c][u] # "no"
      BY SubmitChanges
    <3>3. \A v \in Uids : v # u => futures'[c][v] = futures[c][v] /\ submitting'[c][v] = submitting[c][v]
      BY SubmitChanges
    <3> QED BY <2>4, <3>1, <3>2, <3>3 DEF HookIsFree
  <2> QED BY <2>2, <2>3, <2>4 DEF Submits
<1> QED BY <1>2 DEF ByeInv

\* What is put behind the UNREGISTER is an ack.
LEMMA PutBye ==
  ASSUME TypeInv, ByeInv, NEW c \in Clients, NEW u \in Uids, Put(c, u)
  PROVE  ByeInv'
<1> DEFINE n == Len(send_queue[c])
           m == Request(c, u, futures[c][u].req)
<1>1. /\ send_queue'[c] = Append(send_queue[c], m)
      /\ \A d \in Clients : d # c => send_queue'[d] = send_queue[d]
      /\ \A d \in Clients, v \in Uids :
           submitting'[d][v] = IF d = c /\ v = u THEN "no" ELSE submitting[d][v]
      /\ submitting[c][u] # "no"
      /\ UNCHANGED <<bye, futures>>
  BY QueueTypes DEF Put, send, TypeInv, ClientType
<1>2. /\ n \in Nat /\ Len(send_queue'[c]) = n + 1
      /\ \A i \in 1 .. n : send_queue'[c][i] = send_queue[c][i]
      /\ send_queue'[c][n + 1] = m
  BY <1>1, QueueTypes, PutType, Appended
<1>3. m.uid = u /\ m.req = futures[c][u].req
  BY DEF Request
<1>4. bye \in [Clients -> Uids \cup {None}]
  BY DEF TypeInv, ClientType
<1>5. ASSUME NEW d \in Clients, bye[d] # None
      PROVE  /\ \A v \in Uids :
                  submitting'[d][v] # "no" => v = bye[d] \/ futures[d][v].req = "ack"
             /\ submitting'[d][bye[d]] = "no" =>
                  \A i \in 1 .. Len(send_queue'[d]) :
                    \/ send_queue'[d][i].req = "ack"
                    \/ \E j \in i .. Len(send_queue'[d]) : send_queue'[d][j].uid = bye[d]
  <2>0. bye[d] \in Uids
    BY <1>4, <1>5
  <2>1. CASE d # c
    BY <1>1, <1>5, <2>0, <2>1 DEF ByeInv
  <2>2. CASE d = c
    <3>1. \A v \in Uids : submitting'[d][v] # "no" => v = bye[d] \/ futures[d][v].req = "ack"
      BY <1>1, <1>5, <2>2 DEF ByeInv
    <3>2. ASSUME submitting'[c][bye[c]] = "no", NEW i \in 1 .. Len(send_queue'[c])
          PROVE  \/ send_queue'[c][i].req = "ack"
                 \/ \E j \in i .. Len(send_queue'[c]) : send_queue'[c][j].uid = bye[c]
      <4>1. CASE u = bye[c]
        <5>1. n + 1 \in i .. Len(send_queue'[c])
          BY <1>2
        <5> QED BY <1>2, <1>3, <4>1, <5>1
      <4>2. CASE u # bye[c]
        <5>1. futures[c][u].req = "ack" /\ submitting[c][bye[c]] = "no"
          BY <1>1, <1>5, <2>0, <2>2, <3>2, <4>2 DEF ByeInv
        <5>2. CASE i = n + 1
          BY <1>2, <1>3, <5>1, <5>2
        <5>3. CASE i \in 1 .. n
          <6>1. \/ send_queue[c][i].req = "ack"
                \/ \E j \in i .. n : send_queue[c][j].uid = bye[c]
            BY <1>5, <2>2, <5>1, <5>3 DEF ByeInv
          <6> QED BY <1>2, <5>3, <6>1
        <5> QED BY <1>2, <5>2, <5>3
      <4> QED BY <4>1, <4>2
    <3> QED BY <2>2, <3>1, <3>2
  <2> QED BY <2>1, <2>2
<1> QED BY <1>1, <1>5 DEF ByeInv

\* The head of a client's queue leaves.
LEMMA SendBye ==
  ASSUME TypeInv, ByeInv, NEW e \in Endpoints, SendQueued(e), UNCHANGED <<clientVars, serverVars>>
  PROVE  ByeInv'
<1>1. UNCHANGED <<bye, submitting, futures>>
  BY DEF clientVars
<1>2. \A d \in Clients : d # e => send_queue'[d] = send_queue[d]
  BY QueueTypes DEF SendQueued
<1>3. CASE e \notin Clients
  BY <1>1, <1>2, <1>3, ByeFrame
<1>4. CASE e \in Clients
  <2>1. /\ Len(send_queue[e]) \in Nat
        /\ Len(send_queue'[e]) = Len(send_queue[e]) - 1
        /\ \A i \in 1 .. Len(send_queue'[e]) : send_queue'[e][i] = send_queue[e][i + 1]
    <3>1. send_queue[e] \in Seq(RequestMsg) /\ send_queue[e] # <<>>
      BY <1>4, QueueTypes DEF SendQueued, TypeInv, LoopType
    <3>2. send_queue'[e] = Tail(send_queue[e])
      BY QueueTypes DEF SendQueued
    <3> QED BY <3>1, <3>2, Taken
  <2>2. ASSUME bye[e] # None, submitting[e][bye[e]] = "no", NEW i \in 1 .. Len(send_queue'[e])
        PROVE  \/ send_queue'[e][i].req = "ack"
               \/ \E j \in i .. Len(send_queue'[e]) : send_queue'[e][j].uid = bye[e]
    <3>1. i + 1 \in 1 .. Len(send_queue[e]) /\ send_queue'[e][i] = send_queue[e][i + 1]
      BY <2>1
    <3>2. CASE send_queue[e][i + 1].req = "ack"
      BY <3>1, <3>2
    <3>3. CASE \E j \in (i + 1) .. Len(send_queue[e]) : send_queue[e][j].uid = bye[e]
      <4>1. PICK j \in (i + 1) .. Len(send_queue[e]) : send_queue[e][j].uid = bye[e]
        BY <3>3
      <4>2. j - 1 \in i .. Len(send_queue'[e]) /\ j - 1 \in 1 .. Len(send_queue'[e]) /\ (j - 1) + 1 = j
        BY <2>1
      <4>3. send_queue'[e][j - 1] = send_queue[e][j]
        BY <2>1, <4>2
      <4> QED BY <4>1, <4>2, <4>3
    <3> QED BY <1>4, <2>2, <3>1, <3>2, <3>3 DEF ByeInv
  <2> QED BY <1>1, <1>2, <2>2 DEF ByeInv
<1> QED BY <1>3, <1>4

\* Every step keeps everything but acks in front of the UNREGISTER.
LEMMA NextBye == TypeInv /\ OrderInv /\ ByeInv /\ [Next]_vars => ByeInv'
<1> SUFFICES ASSUME TypeInv, OrderInv, ByeInv, [Next]_vars PROVE ByeInv'
  OBVIOUS
<1>0. Server \in Endpoints /\ Server \notin Clients /\ Clients \subseteq Endpoints
  BY QueueTypes
<1>f. ASSUME UNCHANGED <<bye, submitting, futures, send_queue>> PROVE ByeInv'
  BY <1>f, ByeFrame
<1>s. ASSUME UNCHANGED <<bye, submitting, futures>>, NEW m, send(Server, m) PROVE ByeInv'
  <2>1. \A c \in Clients : send_queue'[c] = send_queue[c]
    BY <1>0, <1>s, QueueTypes DEF send
  <2> QED BY <1>s, <2>1, ByeFrame
<1>1. ASSUME NEW c \in Clients, NEW u \in Uids, File(c, u) PROVE ByeInv'
  <2>1. \A d \in Clients, v \in Uids : submitting'[d][v] = "no" <=> submitting[d][v] = "no"
    BY <1>1 DEF File, TypeInv, ClientType
  <2>2. UNCHANGED <<bye, futures, send_queue>> /\ bye \in [Clients -> Uids \cup {None}]
    BY <1>1 DEF File, loopVars, TypeInv, ClientType
  <2> QED BY <2>1, <2>2 DEF ByeInv
<1>2. ASSUME NEW c \in Clients, Close(c) PROVE ByeInv'
  BY <1>2, <1>f DEF Close, Stop, clientVars
<1>3. ASSUME NEW c \in Clients, Closing(c) PROVE ByeInv'
  BY <1>3, <1>f DEF Closing, StopWake, Joined, clientVars
<1>4. ASSUME NEW e \in Endpoints, Waking(e) PROVE ByeInv'
  BY <1>4, <1>f DEF Waking, Wake, clientVars
<1>5. ASSUME NEW e \in Endpoints, IOStep(e), UNCHANGED <<clientVars, serverVars>> PROVE ByeInv'
  <2>1. CASE SendQueued(e)
    BY <1>5, <2>1, SendBye
  <2>2. CASE Loop(e) \/ Poll(e) \/ ReadWake(e) \/ Drain(e) \/ Drained(e)
    BY <1>5, <2>2, <1>f DEF Loop, Poll, ReadWake, Drain, Drained, clientVars
  <2> QED BY <1>5, <2>1, <2>2 DEF IOStep
<1>6. ASSUME NEW c \in Clients, ClientRecv(c) PROVE ByeInv'
  <2>1. UNCHANGED <<bye, submitting, send_queue>>
    BY <1>6 DEF ClientRecv
  <2>2. \A d \in Clients, v \in Uids : futures'[d][v].req = futures[d][v].req
    <3>1. PICK m \in ReplyMsg : m.uid \in Uids /\ (Settle(c, m.uid, m) \/ UNCHANGED futures)
      BY <1>6, ClientReceives
    <3> QED BY <3>1, Settled
  <2> QED BY <2>1, <2>2, ByeFrame
<1>7. ASSUME ServerRecv PROVE ByeInv'
  BY <1>7, <1>f DEF ServerRecv, clientVars
<1>8. ASSUME NEW h \in handlers, Handle(h) PROVE ByeInv'
  <2>1. UNCHANGED <<bye, submitting, futures>>
    BY <1>8 DEF Handle, HandleValue, HandleChunks, SendNowLock, SendNow, PostSend, clientVars
  <2>2. UNCHANGED send_queue \/ \E m : send(Server, m)
    BY <1>8 DEF Handle, HandleValue, HandleChunks, SendNowLock, SendNow, PostSend, loopVars
  <2> QED BY <1>f, <1>s, <2>1, <2>2
<1>9. ASSUME Crash PROVE ByeInv'
  <2>1. \A c \in Clients : send_queue'[c] = send_queue[c]
    BY <1>0, <1>9, QueueTypes DEF Crash
  <2> QED BY <1>9, <2>1, ByeFrame DEF Crash, clientVars
<1>10. ASSUME UNCHANGED vars PROVE ByeInv'
  BY <1>10, <1>f DEF vars, loopVars, clientVars
<1> QED BY <1>1, <1>2, <1>3, <1>4, <1>5, <1>6, <1>7, <1>8, <1>9, <1>10, SubmitBye, PutBye, NextCases

\* ShutdownFlushes: when a client's I/O thread has ended, everything its
\* hooks submitted has been sent, in whatever order its threads number, file
\* and queue their requests; run may leave its loop without a last drain
\* because close waits for the reply of UNREGISTER, and only acks of load
\* threads can be queued behind that.
THEOREM ShutdownIsClean == Spec => []ShutdownFlushes
<1>1. Init => TypeInv /\ OrderInv /\ CloseInv /\ ByeInv
  <2>1. Init => CloseInv /\ ByeInv
    BY QueueAssumption DEF Init, LoopInit, CloseInv, ByeInv
  <2> QED BY <2>1, InitType, InitOrder
<1>2. /\ TypeInv /\ OrderInv /\ CloseInv /\ ByeInv /\ [Next]_vars
        => TypeInv' /\ OrderInv' /\ CloseInv' /\ ByeInv'
  BY NextType, NextOrder, NextClose, NextBye
<1>3. TypeInv /\ OrderInv /\ CloseInv /\ ByeInv => ShutdownFlushes
  <2> SUFFICES ASSUME TypeInv, OrderInv, CloseInv, ByeInv, NEW c \in Clients, io[c].pc = "exit",
                      NEW i \in 1 .. Len(send_queue[c])
               PROVE  send_queue[c][i].req = "ack"
    BY DEF ShutdownFlushes
  <2>1. bye[c] \in Uids /\ bye[c] # None /\ futures[c][bye[c]].state = "result"
    BY DEF CloseInv, TypeInv, ClientType
  <2>2. HasLeft(c, bye[c])
    BY <2>1 DEF OrderInv, ClientOrder
  <2>3. ~ \E j \in i .. Len(send_queue[c]) : send_queue[c][j].uid = bye[c]
    <3>1. Len(send_queue[c]) \in Nat
      BY QueueTypes
    <3> QED BY <2>2, <3>1 DEF HasLeft
  <2> QED BY <2>1, <2>2, <2>3 DEF ByeInv, HasLeft
<1> QED BY <1>1, <1>2, <1>3, PTL DEF Spec

-----------------------------------------------------------------------------

\* The server's queue after a step: each reply is an old one or a new one
\* that is in order.
LEMMA QueuedKept ==
  ASSUME TypeInv, ReplyInv, UNCHANGED futures,
         \A c \in Clients, u \in Uids : Answered(c, u) => Answered(c, u)',
         \A i \in 1 .. Len(send_queue'[Server]) :
           \/ \E j \in 1 .. Len(send_queue[Server]) : send_queue'[Server][i] = send_queue[Server][j]
           \/ LET m == send_queue'[Server][i]
              IN  /\ m.to \in Clients /\ m.uid \in Uids
                  /\ IsReply(m.to, m.uid, m.ok, m.of)
                  /\ SecondReply(m.to, m.uid, m.ok) => Answered(m.to, m.uid)
  PROVE  QueuedInv'
<1> SUFFICES ASSUME NEW i \in 1 .. Len(send_queue'[Server])
             PROVE  /\ IsReply(send_queue[Server][i].to, send_queue[Server][i].uid,
                               send_queue[Server][i].ok, send_queue[Server][i].of)'
                    /\ SecondReply(send_queue[Server][i].to, send_queue[Server][i].uid,
                                   send_queue[Server][i].ok)'
                         => Answered(send_queue[Server][i].to, send_queue[Server][i].uid)'
  BY DEF QueuedInv
<1>1. PICK m : m = send_queue'[Server][i]
  OBVIOUS
<1>2. /\ m.to \in Clients /\ m.uid \in Uids
      /\ IsReply(m.to, m.uid, m.ok, m.of) /\ (SecondReply(m.to, m.uid, m.ok) => Answered(m.to, m.uid))
  <2>1. CASE \E j \in 1 .. Len(send_queue[Server]) : m = send_queue[Server][j]
    BY <2>1, Fields DEF ReplyInv, QueuedInv
  <2>2. CASE ~ \E j \in 1 .. Len(send_queue[Server]) : m = send_queue[Server][j]
    BY <1>1, <2>2
  <2> QED BY <2>1, <2>2
<1>3. IsReply(m.to, m.uid, m.ok, m.of)' /\ (SecondReply(m.to, m.uid, m.ok)' => Answered(m.to, m.uid)')
  BY <1>2 DEF IsReply, SecondReply
<1> QED BY <1>1, <1>3 DEF IsReply, SecondReply, Answered

\* A step that leaves calls, replies and handlers alone.
LEMMA ReplyFrame ==
  ASSUME ReplyInv, UNCHANGED <<pending, futures, raised, closing>>,
         \A c \in Clients : inbox'[c] = inbox[c],
         send_queue'[Server] = send_queue[Server] \/ send_queue'[Server] = <<>>,
         \A h \in handlers' : h \in handlers \/ h.pc = "run" \/ (h.pc # "post" /\ h.req = "chunks"),
         TypeInv, TypeInv'
  PROVE  ReplyInv'
<1>1. \A c \in Clients, u \in Uids : Answered(c, u) => Answered(c, u)'
  BY DEF Answered
<1>2. ASSUME NEW c \in Clients PROVE CallsInv(c)' /\ InboxInv(c)'
  <2>1. CallsInv(c) /\ InboxInv(c) /\ inbox'[c] = inbox[c]
    BY DEF ReplyInv
  <2>2. CallsInv(c)'
    BY <2>1 DEF CallsInv
  <2>3. InboxInv(c)'
    BY <2>1 DEF InboxInv, IsReply, SecondReply
  <2> QED BY <2>2, <2>3
<1>3. QueuedInv'
  <2>1. CASE send_queue'[Server] = send_queue[Server]
    BY <1>1, <2>1, QueuedKept
  <2>2. CASE send_queue'[Server] = <<>>
    BY <2>2 DEF QueuedInv
  <2> QED BY <2>1, <2>2
<1>4. HandlersInv'
  BY <1>1, Fields DEF ReplyInv, HandlersInv
<1> QED BY <1>2, <1>3, <1>4 DEF ReplyInv

\* A reply that arrives at its client, or is dropped because it has closed.
LEMMA ReplyArrives ==
  ASSUME TypeInv, ReplyInv, NEW m \in ReplyMsg, Transmit(m),
         IsReply(m.to, m.uid, m.ok, m.of),
         SecondReply(m.to, m.uid, m.ok) => Answered(m.to, m.uid),
         UNCHANGED <<pending, futures, closing, raised>>
  PROVE  /\ \A c \in Clients : CallsInv(c)' /\ InboxInv(c)'
         /\ \A c \in Clients, u \in Uids : Answered(c, u) => Answered(c, u)'
         /\ m.ok = TRUE => Answered(m.to, m.uid)'
<1>0. Server \in Endpoints /\ Server \notin Clients /\ Clients \subseteq Endpoints
  BY QueueTypes
<1> DEFINE n == Len(inbox[m.to])
<1>1. m.to \in Clients /\ m.uid \in Uids /\ m.to \in Endpoints
  BY <1>0 DEF ReplyMsg
<1>2. /\ \A f \in Endpoints : f # m.to => inbox'[f] = inbox[f]
      /\ n \in Nat
      /\ \/ inbox' = inbox /\ closing[m.to] = "closed"
         \/ /\ closing[m.to] # "closed"
            /\ Len(inbox'[m.to]) = n + 1
            /\ \A i \in 1 .. n : inbox'[m.to][i] = inbox[m.to][i]
            /\ inbox'[m.to][n + 1] = m
  <2>1. LoopType /\ m \in Sent(Server)
    BY DEF TypeInv, Sent
  <2>2. n \in Nat
    BY <1>1, QueueTypes
  <2> QED BY <1>0, <2>1, <2>2, Transmitted
<1>3. ASSUME NEW c \in Clients, NEW u \in Uids, Answered(c, u) PROVE Answered(c, u)'
  <2>1. CASE c = m.to
    <3>1. CASE u \notin pending[c] \/ closing[c] = "closed"
      BY <3>1 DEF Answered
    <3>2. CASE \E i \in 1 .. Len(inbox[c]) : inbox[c][i].uid = u /\ inbox[c][i].ok = TRUE
      <4>1. PICK i \in 1 .. Len(inbox[c]) : inbox[c][i].uid = u /\ inbox[c][i].ok = TRUE
        BY <3>2
      <4>2. i \in 1 .. Len(inbox'[c]) /\ inbox'[c][i] = inbox[c][i]
        BY <1>2, <2>1
      <4> QED BY <4>1, <4>2 DEF Answered
    <3> QED BY <1>3, <3>1, <3>2 DEF Answered
  <2>2. CASE c # m.to
    <3>1. inbox'[c] = inbox[c]
      BY <1>0, <1>2, <2>2
    <3> QED BY <1>3, <3>1 DEF Answered
  <2> QED BY <2>1, <2>2
<1>4. ASSUME m.ok = TRUE PROVE Answered(m.to, m.uid)'
  <2>1. CASE closing[m.to] = "closed"
    BY <2>1 DEF Answered
  <2>2. CASE closing[m.to] # "closed"
    <3>1. n + 1 \in 1 .. Len(inbox'[m.to]) /\ inbox'[m.to][n + 1] = m
      BY <1>2, <2>2
    <3> QED BY <1>4, <3>1 DEF Answered
  <2> QED BY <2>1, <2>2
<1>5. ASSUME NEW c \in Clients PROVE CallsInv(c)' /\ InboxInv(c)'
  <2>1. CallsInv(c) /\ InboxInv(c)
    BY DEF ReplyInv
  <2>2. CallsInv(c)'
    BY <2>1 DEF CallsInv
  <2>3. CASE inbox'[c] = inbox[c]
    <3>1. InboxInv(c)'
      BY <2>1, <2>3 DEF InboxInv, IsReply, SecondReply
    <3> QED BY <2>2, <3>1
  <2>4. CASE /\ c = m.to /\ closing[m.to] # "closed"
             /\ Len(inbox'[m.to]) = n + 1
             /\ \A i \in 1 .. n : inbox'[m.to][i] = inbox[m.to][i]
             /\ inbox'[m.to][n + 1] = m
    <3>1. ASSUME NEW i \in 1 .. Len(inbox'[c])
          PROVE  /\ IsReply(c, inbox[c][i].uid, inbox[c][i].ok, inbox[c][i].of)'
                 /\ SecondReply(c, inbox[c][i].uid, inbox[c][i].ok)' =>
                      \/ inbox'[c][i].uid \notin pending'[c]
                      \/ \E j \in 1 .. Len(inbox'[c]) :
                           j < i /\ inbox'[c][j].uid = inbox'[c][i].uid /\ inbox'[c][j].ok = TRUE
      <4>1. CASE i \in 1 .. n
        <5>1. /\ IsReply(c, inbox[c][i].uid, inbox[c][i].ok, inbox[c][i].of)
              /\ SecondReply(c, inbox[c][i].uid, inbox[c][i].ok) =>
                   \/ inbox[c][i].uid \notin pending[c]
                   \/ \E j \in 1 .. n :
                        j < i /\ inbox[c][j].uid = inbox[c][i].uid /\ inbox[c][j].ok = TRUE
          BY <2>1, <2>4, <4>1 DEF InboxInv
        <5>2. inbox'[c][i] = inbox[c][i] /\ \A j \in 1 .. n : j \in 1 .. Len(inbox'[c]) /\ inbox'[c][j] = inbox[c][j]
          BY <1>2, <2>4, <4>1
        <5>3. PICK k : k = inbox[c][i] /\ k = inbox'[c][i]
          BY <5>2
        <5>4. IsReply(c, k.uid, k.ok, k.of)'
          BY <5>1, <5>3 DEF IsReply
        <5>5. SecondReply(c, k.uid, k.ok)' =>
                \/ k.uid \notin pending'[c]
                \/ \E j \in 1 .. Len(inbox'[c]) : j < i /\ inbox'[c][j].uid = k.uid /\ inbox'[c][j].ok = TRUE
          BY <5>1, <5>2, <5>3 DEF SecondReply
        <5> QED BY <5>3, <5>4, <5>5 DEF IsReply, SecondReply
      <4>2. CASE i = n + 1
        <5>1. inbox'[c][i] = m
          BY <2>4, <4>2
        <5>2. IsReply(c, inbox[c][i].uid, inbox[c][i].ok, inbox[c][i].of)'
          BY <2>4, <5>1 DEF IsReply
        <5>3. SecondReply(c, m.uid, m.ok) =>
                m.uid \notin pending[c] \/ \E j \in 1 .. n : inbox[c][j].uid = m.uid /\ inbox[c][j].ok = TRUE
          BY <2>4 DEF Answered
        <5>4. \A j \in 1 .. n : j < i /\ j \in 1 .. Len(inbox'[c]) /\ inbox'[c][j] = inbox[c][j]
          BY <1>2, <2>4, <4>2
        <5> QED BY <5>1, <5>2, <5>3, <5>4 DEF SecondReply
      <4>3. i \in 1 .. n \/ i = n + 1
        BY <1>2, <2>4
      <4> QED BY <4>1, <4>2, <4>3, Zenon
    <3>2. InboxInv(c)'
      BY <2>4, <3>1 DEF InboxInv
    <3> QED BY <2>2, <3>2
  <2> QED BY <1>0, <1>2, <2>3, <2>4
<1> QED BY <1>3, <1>4, <1>5

\* A new call is unsettled and has no reply yet.
LEMMA SubmitReply ==
  ASSUME TypeInv, OrderInv, ReplyInv, NEW c \in Clients, NEW req \in ReqKinds, submit(c, req)
  PROVE  ReplyInv'
<1> DEFINE u == uid_counter[c]
<1>0. Server \in Endpoints /\ Server \notin Clients /\ Clients \subseteq Endpoints
  BY QueueTypes
<1>1. u \in Uids /\ Uids \subseteq Nat
  BY SubmitChanges, QueueTypes
<1>2. /\ UNCHANGED <<pending, inbox, closing, raised, handlers>>
      /\ send_queue'[Server] = send_queue[Server]
  BY SubmitChanges
<1>3. /\ futures'[c][u] = Future(req)
      /\ \A d \in Clients, v \in Uids : d # c \/ v # u => futures'[d][v] = futures[d][v]
  BY SubmitChanges
<1>4. ASSUME NEW d \in Clients, NEW v \in Uids, HasLeft(d, v)
      PROVE  /\ futures'[d][v] = futures[d][v] /\ (v \in pending'[d] <=> v \in pending[d])
             /\ Answered(d, v) => Answered(d, v)'
             /\ \A ok, of : IsReply(d, v, ok, of)' <=> IsReply(d, v, ok, of)
             /\ \A ok : SecondReply(d, v, ok)' <=> SecondReply(d, v, ok)
  <2>1. d # c \/ v # u
    BY <1>1, <1>4 DEF HasLeft
  <2>2. futures'[d][v] = futures[d][v] /\ (v \in pending'[d] <=> v \in pending[d])
    BY <1>2, <1>3, <2>1
  <2> QED BY <1>2, <2>2 DEF Answered, IsReply, SecondReply
<1>5. ASSUME NEW d \in Clients PROVE CallsInv(d)' /\ InboxInv(d)'
  <2>1. CallsInv(d) /\ InboxInv(d)
    BY DEF ReplyInv
  <2>2. CallsInv(d)'
    <3>1. raised'[d] = FALSE
      BY <1>2, <2>1 DEF CallsInv
    <3>2. ASSUME NEW v \in pending'[d] PROVE futures'[d][v].state = "unset"
      <4>1. v \in Uids
        BY <3>2, <1>2 DEF TypeInv, ClientType
      <4> QED BY <1>2, <1>3, <2>1, <3>2, <4>1 DEF CallsInv, Future
    <3>3. ASSUME NEW v \in Uids, futures'[d][v].state # "unset" PROVE futures'[d][v].of = <<d, v>>
      BY <1>3, <2>1, <3>3 DEF CallsInv, Future
    <3> QED BY <3>1, <3>2, <3>3 DEF CallsInv
  <2>3. ASSUME NEW i \in 1 .. Len(inbox'[d])
        PROVE  /\ IsReply(d, inbox[d][i].uid, inbox[d][i].ok, inbox[d][i].of)'
               /\ SecondReply(d, inbox[d][i].uid, inbox[d][i].ok)' =>
                    \/ inbox'[d][i].uid \notin pending'[d]
                    \/ \E j \in 1 .. Len(inbox'[d]) :
                         j < i /\ inbox'[d][j].uid = inbox'[d][i].uid /\ inbox'[d][j].ok = TRUE
    <3>1. PICK k : k = inbox[d][i] /\ k = inbox'[d][i]
      BY <1>2
    <3>2. k.uid \in Uids /\ HasLeft(d, k.uid)
      BY <1>2, <3>1, Fields DEF OrderInv, ReplyOrder
    <3>3. /\ IsReply(d, k.uid, k.ok, k.of)
          /\ SecondReply(d, k.uid, k.ok) =>
               \/ k.uid \notin pending[d]
               \/ \E j \in 1 .. Len(inbox[d]) : j < i /\ inbox[d][j].uid = k.uid /\ inbox[d][j].ok = TRUE
      BY <1>2, <2>1, <3>1 DEF InboxInv
    <3>4. /\ IsReply(d, k.uid, k.ok, k.of)'
          /\ SecondReply(d, k.uid, k.ok)' =>
               \/ k.uid \notin pending'[d]
               \/ \E j \in 1 .. Len(inbox[d]) : j < i /\ inbox[d][j].uid = k.uid /\ inbox[d][j].ok = TRUE
      BY <1>4, <3>2, <3>3
    <3> QED BY <1>2, <3>1, <3>4 DEF IsReply, SecondReply
  <2>4. InboxInv(d)'
    BY <1>2, <2>1, <2>3 DEF InboxInv
  <2> QED BY <2>2, <2>4
<1>6. QueuedInv'
  <2> SUFFICES ASSUME NEW i \in 1 .. Len(send_queue'[Server])
               PROVE  /\ IsReply(send_queue[Server][i].to, send_queue[Server][i].uid,
                                 send_queue[Server][i].ok, send_queue[Server][i].of)'
                      /\ SecondReply(send_queue[Server][i].to, send_queue[Server][i].uid,
                                     send_queue[Server][i].ok)'
                           => Answered(send_queue[Server][i].to, send_queue[Server][i].uid)'
    BY DEF QueuedInv
  <2>1. PICK m : m = send_queue[Server][i] /\ m = send_queue'[Server][i]
    BY <1>2
  <2>2. m.to \in Clients /\ m.uid \in Uids /\ HasLeft(m.to, m.uid)
    BY <1>2, <2>1, Fields DEF OrderInv, ReplyOrder
  <2>3. IsReply(m.to, m.uid, m.ok, m.of) /\ (SecondReply(m.to, m.uid, m.ok) => Answered(m.to, m.uid))
    BY <1>2, <2>1 DEF ReplyInv, QueuedInv
  <2>4. IsReply(m.to, m.uid, m.ok, m.of)' /\ (SecondReply(m.to, m.uid, m.ok)' => Answered(m.to, m.uid)')
    BY <1>4, <2>2, <2>3
  <2> QED BY <2>1, <2>4 DEF IsReply, SecondReply, Answered
<1>7. HandlersInv'
  <2> SUFFICES ASSUME NEW h \in handlers
               PROVE  /\ h.pc # "run" => h.req = "chunks"
                      /\ h.pc = "post" => Answered(h.from, h.uid)'
    BY <1>2 DEF HandlersInv
  <2>1. h.from \in Clients /\ h.uid \in Uids /\ HasLeft(h.from, h.uid)
    BY Fields DEF OrderInv, ServerOrder
  <2> QED BY <1>4, <2>1 DEF ReplyInv, HandlersInv
<1> QED BY <1>5, <1>6, <1>7 DEF ReplyInv

\* The future that is filed is unsettled, and no reply can be on its way.
LEMMA FileReply ==
  ASSUME TypeInv, OrderInv, ReplyInv, NEW c \in Clients, NEW u \in Uids, File(c, u)
  PROVE  ReplyInv'
<1>1. /\ UNCHANGED <<futures, inbox, send_queue, closing, raised, handlers>>
      /\ submitting[c][u] = "file"
      /\ pending \in [Clients -> SUBSET Uids]
      /\ pending' = [pending EXCEPT ![c] = @ \cup {u}]
  BY DEF File, loopVars, serverVars, TypeInv, ClientType
<1>2. ASSUME NEW d \in Clients, NEW v \in Uids, HasLeft(d, v)
      PROVE  /\ v \in pending'[d] <=> v \in pending[d]
             /\ Answered(d, v) => Answered(d, v)'
  <2>1. d # c \/ v # u
    BY <1>1, <1>2 DEF HasLeft
  <2>2. v \in pending'[d] <=> v \in pending[d]
    BY <1>1, <2>1
  <2> QED BY <1>1, <2>2 DEF Answered
<1>3. \A d \in Clients, v \in Uids :
        /\ \A ok, of : IsReply(d, v, ok, of)' <=> IsReply(d, v, ok, of)
        /\ \A ok : SecondReply(d, v, ok)' <=> SecondReply(d, v, ok)
  BY <1>1 DEF IsReply, SecondReply
<1>4. ASSUME NEW d \in Clients PROVE CallsInv(d)' /\ InboxInv(d)'
  <2>1. CallsInv(d) /\ InboxInv(d)
    BY DEF ReplyInv
  <2>2. futures[c][u].state = "unset"
    BY <1>1 DEF OrderInv, ClientOrder, HasLeft
  <2>3. CallsInv(d)'
    BY <1>1, <2>1, <2>2 DEF CallsInv
  <2>4. ASSUME NEW i \in 1 .. Len(inbox'[d])
        PROVE  /\ IsReply(d, inbox[d][i].uid, inbox[d][i].ok, inbox[d][i].of)'
               /\ SecondReply(d, inbox[d][i].uid, inbox[d][i].ok)' =>
                    \/ inbox'[d][i].uid \notin pending'[d]
                    \/ \E j \in 1 .. Len(inbox'[d]) :
                         j < i /\ inbox'[d][j].uid = inbox'[d][i].uid /\ inbox'[d][j].ok = TRUE
    <3>1. PICK k : k = inbox[d][i] /\ k = inbox'[d][i]
      BY <1>1
    <3>2. k.uid \in Uids /\ HasLeft(d, k.uid)
      BY <1>1, <3>1, Fields DEF OrderInv, ReplyOrder
    <3>3. /\ IsReply(d, k.uid, k.ok, k.of)
          /\ SecondReply(d, k.uid, k.ok) =>
               \/ k.uid \notin pending[d]
               \/ \E j \in 1 .. Len(inbox[d]) : j < i /\ inbox[d][j].uid = k.uid /\ inbox[d][j].ok = TRUE
      BY <1>1, <2>1, <3>1 DEF InboxInv
    <3>4. /\ IsReply(d, k.uid, k.ok, k.of)'
          /\ SecondReply(d, k.uid, k.ok)' =>
               \/ k.uid \notin pending'[d]
               \/ \E j \in 1 .. Len(inbox[d]) : j < i /\ inbox[d][j].uid = k.uid /\ inbox[d][j].ok = TRUE
      BY <1>2, <1>3, <3>2, <3>3
    <3> QED BY <1>1, <3>1, <3>4 DEF IsReply, SecondReply
  <2>5. InboxInv(d)'
    BY <1>1, <2>1, <2>4 DEF InboxInv
  <2> QED BY <2>3, <2>5
<1>5. QueuedInv'
  <2> SUFFICES ASSUME NEW i \in 1 .. Len(send_queue'[Server])
               PROVE  /\ IsReply(send_queue[Server][i].to, send_queue[Server][i].uid,
                                 send_queue[Server][i].ok, send_queue[Server][i].of)'
                      /\ SecondReply(send_queue[Server][i].to, send_queue[Server][i].uid,
                                     send_queue[Server][i].ok)'
                           => Answered(send_queue[Server][i].to, send_queue[Server][i].uid)'
    BY DEF QueuedInv
  <2>1. PICK m : m = send_queue[Server][i] /\ m = send_queue'[Server][i]
    BY <1>1
  <2>2. m.to \in Clients /\ m.uid \in Uids /\ HasLeft(m.to, m.uid)
    BY <1>1, <2>1, Fields DEF OrderInv, ReplyOrder
  <2>3. IsReply(m.to, m.uid, m.ok, m.of) /\ (SecondReply(m.to, m.uid, m.ok) => Answered(m.to, m.uid))
    BY <1>1, <2>1 DEF ReplyInv, QueuedInv
  <2>4. IsReply(m.to, m.uid, m.ok, m.of)' /\ (SecondReply(m.to, m.uid, m.ok)' => Answered(m.to, m.uid)')
    BY <1>2, <1>3, <2>2, <2>3
  <2> QED BY <2>1, <2>4 DEF IsReply, SecondReply, Answered
<1>6. HandlersInv'
  <2> SUFFICES ASSUME NEW h \in handlers
               PROVE  /\ h.pc # "run" => h.req = "chunks"
                      /\ h.pc = "post" => Answered(h.from, h.uid)'
    BY <1>1 DEF HandlersInv
  <2>1. h.from \in Clients /\ h.uid \in Uids /\ HasLeft(h.from, h.uid)
    BY Fields DEF OrderInv, ServerOrder
  <2> QED BY <1>2, <2>1 DEF ReplyInv, HandlersInv
<1> QED BY <1>4, <1>5, <1>6 DEF ReplyInv

\* on_recv of a client: the head of its inbox settles a waiting future with
\* the reply of its own request, or is a late second reply and changes none.
LEMMA ClientRecvReply ==
  ASSUME TypeInv, OrderInv, ReplyInv, NEW c \in Clients, ClientRecv(c)
  PROVE  ReplyInv'
<1>0. Server \in Endpoints /\ Server \notin Clients /\ Clients \subseteq Endpoints
  BY QueueTypes
<1>1. PICK m \in ReplyMsg :
        /\ m = inbox[c][1] /\ m.uid \in Uids /\ m.ok \in BOOLEAN
        /\ Len(inbox[c]) \in Nat \ {0}
        /\ Len(inbox'[c]) = Len(inbox[c]) - 1
        /\ \A i \in 1 .. Len(inbox'[c]) :
             i + 1 \in 1 .. Len(inbox[c]) /\ inbox'[c][i] = inbox[c][i + 1]
        /\ \A e \in Endpoints : e # c => inbox'[e] = inbox[e]
        /\ IF m.uid \in pending[c]
           THEN /\ pending' = [pending EXCEPT ![c] = @ \ {m.uid}]
                /\ IF futures[c][m.uid].state = "unset"
                   THEN Settle(c, m.uid, m) /\ UNCHANGED raised
                   ELSE raised' = [raised EXCEPT ![c] = TRUE] /\ UNCHANGED futures
           ELSE UNCHANGED <<pending, futures, raised>>
  BY ClientReceives
<1>2. UNCHANGED <<send_queue, closing, handlers>>
  BY DEF ClientRecv, serverVars
<1>3. CallsInv(c) /\ InboxInv(c)
  BY DEF ReplyInv
<1>4. m.of = <<c, m.uid>>
  BY <1>1, <1>3 DEF InboxInv, IsReply
<1>5. UNCHANGED raised
  BY <1>1, <1>3 DEF CallsInv
<1>6. /\ m.uid \notin pending'[c]
      /\ \A d \in Clients : pending'[d] \subseteq pending[d]
      /\ \A d \in Clients, v \in Uids :
           /\ futures'[d][v].req = futures[d][v].req
           /\ d # c \/ v # m.uid => futures'[d][v] = futures[d][v]
           /\ futures'[d][v] = futures[d][v] \/ (d = c /\ v = m.uid /\ futures'[d][v].of = <<c, m.uid>>)
  <2>0. pending \in [Clients -> SUBSET Uids]
    BY DEF TypeInv, ClientType
  <2>1. CASE m.uid \notin pending[c]
    BY <1>1, <2>1
  <2>2. CASE m.uid \in pending[c]
    <3>1. Settle(c, m.uid, m) /\ pending' = [pending EXCEPT ![c] = @ \ {m.uid}]
      BY <1>1, <1>3, <2>2 DEF CallsInv
    <3>2. m.uid \notin pending'[c] /\ \A d \in Clients : pending'[d] \subseteq pending[d]
      BY <2>0, <3>1
    <3> QED BY <1>1, <1>4, <3>1, <3>2, Settled
  <2> QED BY <2>1, <2>2
<1>7. \A d \in Clients, v \in Uids :
        /\ \A ok, of : IsReply(d, v, ok, of)' <=> IsReply(d, v, ok, of)
        /\ \A ok : SecondReply(d, v, ok)' <=> SecondReply(d, v, ok)
  BY <1>6 DEF IsReply, SecondReply
<1>8. ASSUME NEW j \in 1 .. Len(inbox[c]), j # 1
      PROVE  j - 1 \in 1 .. Len(inbox'[c]) /\ inbox'[c][j - 1] = inbox[c][j]
  <2>1. j - 1 \in 1 .. Len(inbox'[c]) /\ (j - 1) + 1 = j
    BY <1>1, <1>8
  <2>2. inbox'[c][j - 1] = inbox[c][(j - 1) + 1]
    BY <1>1, <2>1
  <2> QED BY <2>1, <2>2
<1>9. ASSUME NEW d \in Clients, NEW v \in Uids, Answered(d, v) PROVE Answered(d, v)'
  <2>1. CASE d # c
    <3>1. inbox'[d] = inbox[d]
      BY <1>0, <1>1, <2>1
    <3> QED BY <1>2, <1>6, <1>9, <3>1 DEF Answered
  <2>2. CASE d = c
    <3>1. CASE v \notin pending[c] \/ closing[c] = "closed"
      BY <1>2, <1>6, <2>2, <3>1 DEF Answered
    <3>2. CASE \E j \in 1 .. Len(inbox[c]) : inbox[c][j].uid = v /\ inbox[c][j].ok = TRUE
      <4>1. PICK j \in 1 .. Len(inbox[c]) : inbox[c][j].uid = v /\ inbox[c][j].ok = TRUE
        BY <3>2
      <4>2. CASE j = 1
        BY <1>1, <1>6, <2>2, <4>1, <4>2 DEF Answered
      <4>3. CASE j # 1
        BY <1>8, <2>2, <4>1, <4>3 DEF Answered
      <4> QED BY <4>2, <4>3
    <3> QED BY <1>9, <2>2, <3>1, <3>2 DEF Answered
  <2> QED BY <2>1, <2>2
<1>10. ASSUME NEW d \in Clients PROVE CallsInv(d)'
  <2>1. CallsInv(d)
    BY DEF ReplyInv
  <2>2. raised'[d] = FALSE
    BY <1>5, <2>1 DEF CallsInv
  <2>3. ASSUME NEW v \in pending'[d] PROVE futures'[d][v].state = "unset"
    <3>1. v \in pending[d] /\ v \in Uids /\ (d # c \/ v # m.uid)
      BY <1>6, <2>3 DEF TypeInv, ClientType
    <3> QED BY <1>6, <2>1, <3>1 DEF CallsInv
  <2>4. ASSUME NEW v \in Uids, futures'[d][v].state # "unset" PROVE futures'[d][v].of = <<d, v>>
    BY <1>6, <2>1, <2>4 DEF CallsInv
  <2> QED BY <2>2, <2>3, <2>4 DEF CallsInv
<1>11. ASSUME NEW d \in Clients PROVE InboxInv(d)'
  <2>1. CASE d # c
    <3>1. inbox'[d] = inbox[d] /\ InboxInv(d)
      BY <1>0, <1>1, <2>1 DEF ReplyInv
    <3>2. ASSUME NEW i \in 1 .. Len(inbox'[d])
          PROVE  /\ IsReply(d, inbox[d][i].uid, inbox[d][i].ok, inbox[d][i].of)'
                 /\ SecondReply(d, inbox[d][i].uid, inbox[d][i].ok)' =>
                      \/ inbox'[d][i].uid \notin pending'[d]
                      \/ \E j \in 1 .. Len(inbox'[d]) :
                           j < i /\ inbox'[d][j].uid = inbox'[d][i].uid /\ inbox'[d][j].ok = TRUE
      <4>1. PICK k : k = inbox[d][i] /\ k = inbox'[d][i] /\ k.uid \in Uids
        BY <3>1, Fields
      <4>2. /\ IsReply(d, k.uid, k.ok, k.of)
            /\ SecondReply(d, k.uid, k.ok) =>
                 \/ k.uid \notin pending[d]
                 \/ \E j \in 1 .. Len(inbox[d]) : j < i /\ inbox[d][j].uid = k.uid /\ inbox[d][j].ok = TRUE
        BY <3>1, <4>1 DEF InboxInv
      <4>3. /\ IsReply(d, k.uid, k.ok, k.of)'
            /\ SecondReply(d, k.uid, k.ok)' =>
                 \/ k.uid \notin pending'[d]
                 \/ \E j \in 1 .. Len(inbox[d]) : j < i /\ inbox[d][j].uid = k.uid /\ inbox[d][j].ok = TRUE
        BY <1>6, <1>7, <4>1, <4>2
      <4> QED BY <3>1, <4>1, <4>3 DEF IsReply, SecondReply
    <3> QED BY <1>2, <3>1, <3>2 DEF InboxInv
  <2>2. CASE d = c
    <3>1. ASSUME NEW i \in 1 .. Len(inbox'[c])
          PROVE  /\ IsReply(c, inbox[c][i].uid, inbox[c][i].ok, inbox[c][i].of)'
                 /\ SecondReply(c, inbox[c][i].uid, inbox[c][i].ok)' =>
                      \/ inbox'[c][i].uid \notin pending'[c]
                      \/ \E j \in 1 .. Len(inbox'[c]) :
                           j < i /\ inbox'[c][j].uid = inbox'[c][i].uid /\ inbox'[c][j].ok = TRUE
      <4>1. i + 1 \in 1 .. Len(inbox[c])
        BY <1>1
      <4>2. PICK k : k = inbox[c][i + 1] /\ k = inbox'[c][i] /\ k.uid \in Uids
        BY <1>1, <4>1, Fields
      <4>3. /\ IsReply(c, k.uid, k.ok, k.of)
            /\ SecondReply(c, k.uid, k.ok) =>
                 \/ k.uid \notin pending[c]
                 \/ \E j \in 1 .. Len(inbox[c]) : j < i + 1 /\ inbox[c][j].uid = k.uid /\ inbox[c][j].ok = TRUE
        <5>1. PICK l \in 1 .. Len(inbox[c]) : l = i + 1 /\ inbox[c][l] = k
          BY <4>1, <4>2
        <5>2. /\ IsReply(c, k.uid, k.ok, k.of)
              /\ SecondReply(c, k.uid, k.ok) =>
                   \/ k.uid \notin pending[c]
                   \/ \E j \in 1 .. Len(inbox[c]) : j < l /\ inbox[c][j].uid = k.uid /\ inbox[c][j].ok = TRUE
          BY <1>3, <5>1 DEF InboxInv
        <5> QED BY <5>1, <5>2
      <4>4. ASSUME NEW j \in 1 .. Len(inbox[c]), j < i + 1, inbox[c][j].uid = k.uid, inbox[c][j].ok = TRUE
            PROVE  \/ k.uid \notin pending'[c]
                   \/ \E l \in 1 .. Len(inbox'[c]) :
                        l < i /\ inbox'[c][l].uid = k.uid /\ inbox'[c][l].ok = TRUE
        <5>1. CASE j = 1
          BY <1>1, <1>6, <4>4, <5>1
        <5>2. CASE j # 1
          <6>1. j - 1 \in 1 .. Len(inbox'[c]) /\ inbox'[c][j - 1] = inbox[c][j] /\ j - 1 < i
            BY <1>8, <4>4, <5>2
          <6> QED BY <4>4, <6>1
        <5> QED BY <5>1, <5>2
      <4>5. IsReply(c, k.uid, k.ok, k.of)'
        BY <1>7, <4>2, <4>3
      <4>6. SecondReply(c, k.uid, k.ok)' =>
              \/ k.uid \notin pending'[c]
              \/ \E j \in 1 .. Len(inbox'[c]) : j < i /\ inbox'[c][j].uid = k.uid /\ inbox'[c][j].ok = TRUE
        BY <1>6, <1>7, <4>2, <4>3, <4>4
      <4> QED BY <4>2, <4>5, <4>6 DEF IsReply, SecondReply
    <3>2. closing[c] # "closed"
      BY <1>1, <1>3 DEF InboxInv
    <3> QED BY <1>2, <2>2, <3>1, <3>2 DEF InboxInv
  <2> QED BY <2>1, <2>2
<1>12. QueuedInv'
  <2> SUFFICES ASSUME NEW i \in 1 .. Len(send_queue'[Server])
               PROVE  /\ IsReply(send_queue[Server][i].to, send_queue[Server][i].uid,
                                 send_queue[Server][i].ok, send_queue[Server][i].of)'
                      /\ SecondReply(send_queue[Server][i].to, send_queue[Server][i].uid,
                                     send_queue[Server][i].ok)'
                           => Answered(send_queue[Server][i].to, send_queue[Server][i].uid)'
    BY DEF QueuedInv
  <2>1. PICK k : k = send_queue[Server][i] /\ k = send_queue'[Server][i]
    BY <1>2
  <2>2. k.to \in Clients /\ k.uid \in Uids
    BY <1>2, <2>1, Fields
  <2>3. IsReply(k.to, k.uid, k.ok, k.of) /\ (SecondReply(k.to, k.uid, k.ok) => Answered(k.to, k.uid))
    BY <1>2, <2>1 DEF ReplyInv, QueuedInv
  <2>4. IsReply(k.to, k.uid, k.ok, k.of)' /\ (SecondReply(k.to, k.uid, k.ok)' => Answered(k.to, k.uid)')
    BY <1>7, <1>9, <2>2, <2>3
  <2> QED BY <2>1, <2>4 DEF IsReply, SecondReply, Answered
<1>13. HandlersInv'
  BY <1>2, <1>9, Fields DEF ReplyInv, HandlersInv
<1> QED BY <1>10, <1>11, <1>12, <1>13 DEF ReplyInv

\* A reply on its way to the inbox stays what it is.
LEMMA ReplySentReply ==
  ASSUME TypeInv, ReplyInv, SendQueued(Server), UNCHANGED <<clientVars, serverVars>>
  PROVE  ReplyInv'
<1>0. Server \in Endpoints /\ Server \notin Clients /\ Clients \subseteq Endpoints
  BY QueueTypes
<1>1. send_queue[Server] \in Seq(ReplyMsg) /\ send_queue[Server] # <<>>
  BY <1>0, QueueTypes DEF TypeInv, LoopType, SendQueued
<1>2. PICK m \in ReplyMsg : m = Head(send_queue[Server]) /\ m = send_queue[Server][1]
  BY <1>1, Taken
<1>3. /\ Len(send_queue[Server]) \in Nat \ {0}
      /\ \A i \in 1 .. Len(send_queue'[Server]) :
           /\ i + 1 \in 1 .. Len(send_queue[Server])
           /\ send_queue'[Server][i] = send_queue[Server][i + 1]
  <2>1. send_queue'[Server] = Tail(send_queue[Server])
    BY <1>0, QueueTypes DEF SendQueued
  <2> QED BY <1>0, <1>1, <2>1, Taken
<1>4. Transmit(m) /\ UNCHANGED <<pending, futures, raised, closing, handlers>>
  BY <1>2 DEF SendQueued, clientVars, serverVars
<1>5. IsReply(m.to, m.uid, m.ok, m.of) /\ (SecondReply(m.to, m.uid, m.ok) => Answered(m.to, m.uid))
  <2>1. 1 \in 1 .. Len(send_queue[Server])
    BY <1>3
  <2> QED BY <1>2, <2>1 DEF ReplyInv, QueuedInv
<1>6. /\ \A c \in Clients : CallsInv(c)' /\ InboxInv(c)'
      /\ \A c \in Clients, u \in Uids : Answered(c, u) => Answered(c, u)'
  BY <1>4, <1>5, ReplyArrives
<1>7. QueuedInv'
  BY <1>3, <1>4, <1>6, QueuedKept
<1>8. HandlersInv'
  BY <1>4, <1>6, Fields DEF ReplyInv, HandlersInv
<1> QED BY <1>6, <1>7, <1>8 DEF ReplyInv

\* A handler replies to its own request.
LEMMA HandleReply ==
  ASSUME TypeInv, TypeInv', OrderInv, ReplyInv, NEW h \in handlers, Handle(h)
  PROVE  ReplyInv'
<1>0. Server \in Endpoints /\ Server \notin Clients /\ Clients \subseteq Endpoints
  BY QueueTypes
<1>1. UNCHANGED <<pending, futures, raised, closing>>
  BY DEF Handle, HandleValue, HandleChunks, SendNowLock, SendNow, PostSend, send, clientVars, loopVars
<1>2. /\ h \in HandlerRec /\ h.from \in Clients /\ h.uid \in Uids /\ h.req \in ReqKinds
      /\ h.req = futures[h.from][h.uid].req
      /\ h.pc # "run" => h.req = "chunks"
      /\ h.pc = "post" => Answered(h.from, h.uid)
  BY Fields DEF OrderInv, ServerOrder, IsRequest, ReplyInv, HandlersInv
<1>3. \A ok : /\ Reply(h, ok).to = h.from /\ Reply(h, ok).uid = h.uid /\ Reply(h, ok).ok = ok
              /\ Reply(h, ok).of = <<h.from, h.uid>>
  BY DEF Reply
<1>4. \A ok \in BOOLEAN : Reply(h, ok) \in ReplyMsg
  BY ReplyType DEF Sent
<1>5. \A pc : [h EXCEPT !.pc = pc].from = h.from /\ [h EXCEPT !.pc = pc].uid = h.uid
              /\ [h EXCEPT !.pc = pc].req = h.req /\ [h EXCEPT !.pc = pc].pc = pc
  BY <1>2 DEF HandlerRec
<1>6. ASSUME NEW m \in ReplyMsg, m.to = h.from, m.uid = h.uid, m.of = <<h.from, h.uid>>,
             send(Server, m), Ends(h), IsReply(h.from, h.uid, m.ok, m.of),
             SecondReply(h.from, h.uid, m.ok) => Answered(h.from, h.uid)
      PROVE  ReplyInv'
  <2>1. UNCHANGED inbox /\ send_queue'[Server] = Append(send_queue[Server], m)
    BY <1>0, <1>6, QueueTypes DEF send
  <2>2. \A c \in Clients, u \in Uids : Answered(c, u) => Answered(c, u)'
    BY <1>1, <2>1 DEF Answered
  <2>3. \A i \in 1 .. Len(send_queue'[Server]) :
          \/ \E j \in 1 .. Len(send_queue[Server]) : send_queue'[Server][i] = send_queue[Server][j]
          \/ send_queue'[Server][i] = m
    BY <2>1, QueueTypes, AppendedAt
  <2>4. QueuedInv'
    BY <1>1, <1>2, <1>6, <2>2, <2>3, QueuedKept
  <2>5. \A c \in Clients : CallsInv(c)' /\ InboxInv(c)'
    BY <1>1, <2>1 DEF ReplyInv, CallsInv, InboxInv, IsReply, SecondReply
  <2>6. HandlersInv'
    BY <1>6, <2>2, Fields DEF ReplyInv, HandlersInv, Ends
  <2> QED BY <2>4, <2>5, <2>6 DEF ReplyInv
<1>7. CASE HandleValue(h)
  <2>1. PICK ok \in BOOLEAN : ok = (h.req # "error")
    OBVIOUS
  <2>2. PICK m \in ReplyMsg : m = Reply(h, ok)
    BY <1>4
  <2>3. m.to = h.from /\ m.uid = h.uid /\ m.ok = ok /\ m.of = <<h.from, h.uid>>
    BY <1>3, <2>2
  <2>4. h.req \in {"value", "ack", "error"} /\ send(Server, m) /\ Ends(h)
    BY <1>2, <1>7, <2>1, <2>2 DEF HandleValue, is_chunk_result, ReqKinds
  <2>5. /\ futures[h.from][h.uid].req \in {"value", "ack"} => ok = TRUE
        /\ futures[h.from][h.uid].req = "error" => ok = FALSE
    BY <1>2, <2>1
  <2>6. IsReply(h.from, h.uid, m.ok, m.of) /\ ~SecondReply(h.from, h.uid, m.ok)
    BY <1>2, <2>3, <2>4, <2>5 DEF IsReply, SecondReply
  <2> QED BY <1>6, <2>3, <2>4, <2>6
<1>8. CASE HandleChunks(h) \/ SendNowLock(h)
  <2>1. UNCHANGED <<inbox, send_queue>> /\ h.req = "chunks"
    BY <1>2, <1>8 DEF HandleChunks, SendNowLock, loopVars, is_chunk_result
  <2>2. \A g \in handlers' : g \in handlers \/ (g.pc # "post" /\ g.req = "chunks")
    <3>1. PICK k : /\ k = [h EXCEPT !.pc = "lock"] \/ k = [h EXCEPT !.pc = "send"]
                   /\ handlers' = (handlers \ {h}) \cup {k}
      BY <1>8 DEF HandleChunks, SendNowLock, Becomes
    <3>2. k.pc # "post" /\ k.req = "chunks"
      BY <1>5, <2>1, <3>1
    <3> QED BY <3>1, <3>2
  <2> QED BY <1>1, <2>1, <2>2, ReplyFrame
<1>9. CASE SendNow(h)
  <2>1. PICK m \in ReplyMsg : m = Reply(h, TRUE)
    BY <1>4
  <2>2. m.to = h.from /\ m.uid = h.uid /\ m.ok = TRUE /\ m.of = <<h.from, h.uid>>
    BY <1>3, <2>1
  <2>3. h.req = "chunks" /\ Transmit(m) /\ UNCHANGED send_queue
    BY <1>2, <1>9, <2>1 DEF SendNow
  <2>4. IsReply(m.to, m.uid, m.ok, m.of) /\ ~SecondReply(m.to, m.uid, m.ok)
    BY <1>2, <2>2, <2>3 DEF IsReply, SecondReply
  <2>5. /\ \A c \in Clients : CallsInv(c)' /\ InboxInv(c)'
        /\ \A c \in Clients, u \in Uids : Answered(c, u) => Answered(c, u)'
        /\ Answered(m.to, m.uid)'
    BY <1>1, <2>2, <2>3, <2>4, ReplyArrives
  <2>6. QueuedInv'
    BY <1>1, <2>3, <2>5, QueuedKept
  <2>7. HandlersInv'
    <3> SUFFICES ASSUME NEW g \in handlers'
                 PROVE  (g.pc # "run" => g.req = "chunks") /\ (g.pc = "post" => Answered(g.from, g.uid)')
      BY DEF HandlersInv
    <3>1. CASE g \in handlers
      BY <2>5, <3>1, Fields DEF ReplyInv, HandlersInv
    <3>2. CASE g = [h EXCEPT !.pc = "post"]
      <4>1. g.from = h.from /\ g.uid = h.uid /\ g.req = h.req
        BY <1>5, <3>2
      <4>2. Answered(g.from, g.uid)'
        BY <2>2, <2>5, <4>1
      <4> QED BY <2>3, <4>1, <4>2
    <3> QED BY <1>9, <3>1, <3>2 DEF SendNow, Becomes
  <2> QED BY <2>5, <2>6, <2>7 DEF ReplyInv
<1>10. CASE PostSend(h)
  <2>1. CASE UNCHANGED loopVars
    <3>1. \A g \in handlers' : g \in handlers
      BY <1>10 DEF PostSend, Ends
    <3> QED BY <1>1, <2>1, <3>1, ReplyFrame DEF loopVars
  <2>2. CASE send(Server, Reply(h, FALSE))
    <3>1. PICK m \in ReplyMsg : m = Reply(h, FALSE)
      BY <1>4
    <3>2. m.to = h.from /\ m.uid = h.uid /\ m.ok = FALSE /\ m.of = <<h.from, h.uid>>
      BY <1>3, <3>1
    <3>3. h.req = "chunks" /\ Answered(h.from, h.uid) /\ Ends(h)
      BY <1>2, <1>10 DEF PostSend
    <3>4. IsReply(h.from, h.uid, m.ok, m.of)
      BY <1>2, <3>2, <3>3 DEF IsReply
    <3> QED BY <1>6, <2>2, <3>1, <3>2, <3>3, <3>4
  <2> QED BY <1>10, <2>1, <2>2 DEF PostSend
<1> QED BY <1>7, <1>8, <1>9, <1>10 DEF Handle

\* Every step keeps replies with their requests.
LEMMA NextReply == TypeInv /\ OrderInv /\ ReplyInv /\ [Next]_vars => ReplyInv'
<1> SUFFICES ASSUME TypeInv, OrderInv, ReplyInv, [Next]_vars PROVE ReplyInv'
  OBVIOUS
<1>0. Server \in Endpoints /\ Server \notin Clients /\ Clients \subseteq Endpoints
  BY QueueTypes
<1>t. TypeInv'
  BY NextType
<1>f. ASSUME UNCHANGED <<pending, futures, raised, closing, handlers>>,
             \A c \in Clients : inbox'[c] = inbox[c],
             send_queue'[Server] = send_queue[Server]
      PROVE  ReplyInv'
  BY <1>t, <1>f, ReplyFrame
<1>1. ASSUME NEW c \in Clients, NEW req \in ReqKinds, submit(c, req), Submits(c, req)
      PROVE  ReplyInv'
  BY <1>1, SubmitReply
<1>10. ASSUME NEW c \in Clients, NEW u \in Uids, Put(c, u) PROVE ReplyInv'
  <2>1. UNCHANGED <<pending, futures, raised, closing, handlers, inbox>>
    BY <1>10 DEF Put, send, serverVars
  <2>2. send_queue'[Server] = send_queue[Server]
    BY <1>0, <1>10, QueueTypes DEF Put, send
  <2> QED BY <1>f, <2>1, <2>2
<1>c. ASSUME NEW c \in Clients, UNCHANGED <<pending, futures, raised, handlers, send_queue>>,
             \A d \in Clients : d # c => inbox'[d] = inbox[d] /\ closing'[d] = closing[d],
             \/ inbox'[c] = inbox[c] /\ closing[c] # "closed" /\ closing'[c] # "closed"
             \/ inbox'[c] = <<>> /\ closing'[c] = "closed"
      PROVE  ReplyInv'
  <2>1. \A d \in Clients, u \in Uids : Answered(d, u) => Answered(d, u)'
    BY <1>c DEF Answered
  <2>2. ASSUME NEW d \in Clients PROVE CallsInv(d)' /\ InboxInv(d)'
    <3>1. CallsInv(d) /\ InboxInv(d)
      BY DEF ReplyInv
    <3>2. CallsInv(d)'
      BY <1>c, <3>1 DEF CallsInv
    <3>3. CASE inbox'[d] = inbox[d] /\ (closing'[d] = "closed" => closing[d] = "closed")
      BY <1>c, <3>1, <3>2, <3>3 DEF InboxInv, IsReply, SecondReply
    <3>4. CASE inbox'[d] = <<>>
      BY <3>2, <3>4 DEF InboxInv
    <3> QED BY <1>c, <3>3, <3>4
  <2>3. QueuedInv'
    BY <1>c, <2>1, QueuedKept
  <2>4. HandlersInv'
    BY <1>c, <2>1, Fields DEF ReplyInv, HandlersInv
  <2> QED BY <2>2, <2>3, <2>4 DEF ReplyInv
<1>2. ASSUME NEW c \in Clients, Close(c) PROVE ReplyInv'
  BY <1>0, <1>2, <1>c DEF Close, Stop, clientVars, serverVars, TypeInv, LoopType
<1>3. ASSUME NEW c \in Clients, Closing(c) PROVE ReplyInv'
  <2>1. CASE StopWake(c)
    BY <1>0, <1>3, <1>c, <2>1 DEF Closing, StopWake, clientVars, serverVars, TypeInv, LoopType
  <2>2. CASE Joined(c)
    BY <1>0, <1>3, <1>c, <2>2 DEF Closing, Joined, clientVars, serverVars, TypeInv, LoopType
  <2> QED BY <1>3, <2>1, <2>2 DEF Closing
<1>4. ASSUME NEW e \in Endpoints, Waking(e) PROVE ReplyInv'
  BY <1>4, <1>f DEF Waking, Wake, clientVars, serverVars
<1>5. ASSUME NEW e \in Endpoints, IOStep(e), UNCHANGED <<clientVars, serverVars>> PROVE ReplyInv'
  <2>1. CASE SendQueued(e) /\ e = Server
    BY <1>5, <2>1, ReplySentReply
  <2>2. CASE SendQueued(e) /\ e \in Clients
    <3>1. send_queue'[Server] = send_queue[Server]
      BY <1>0, <2>2, QueueTypes DEF SendQueued
    <3>2. \A c \in Clients : inbox'[c] = inbox[c]
      <4>1. send_queue[e] \in Seq(RequestMsg) /\ send_queue[e] # <<>>
        BY <2>2, QueueTypes DEF TypeInv, LoopType, SendQueued
      <4>2. PICK m \in RequestMsg : m = Head(send_queue[e])
        BY <4>1, Taken
      <4>3. m.to = Server /\ Transmit(m) /\ m \in Sent(e) /\ LoopType
        BY <1>0, <2>2, <4>2 DEF SendQueued, RequestMsg, Sent, TypeInv
      <4>4. \A f \in Endpoints : f # m.to => inbox'[f] = inbox[f]
        BY <4>3, Transmitted
      <4> QED BY <1>0, <4>3, <4>4
    <3>3. UNCHANGED <<pending, futures, raised, closing, handlers>>
      BY <1>5, <2>2 DEF SendQueued, clientVars, serverVars
    <3> QED BY <1>f, <3>1, <3>2, <3>3
  <2>3. CASE Loop(e) \/ Poll(e) \/ ReadWake(e) \/ Drain(e) \/ Drained(e)
    BY <1>5, <1>f, <2>3 DEF Loop, Poll, ReadWake, Drain, Drained, clientVars, serverVars
  <2> QED BY <1>5, <2>1, <2>2, <2>3, QueueAssumption DEF IOStep
<1>6. ASSUME ServerRecv PROVE ReplyInv'
  <2>1. \A c \in Clients : inbox'[c] = inbox[c]
    BY <1>0, <1>6, QueueTypes DEF ServerRecv, Received
  <2>2. \A h \in handlers' : h \in handlers \/ h.pc = "run"
    BY <1>6 DEF ServerRecv
  <2> QED BY <1>6, <1>t, <2>1, <2>2, ReplyFrame DEF ServerRecv, clientVars
<1>7. ASSUME Crash PROVE ReplyInv'
  <2>1. /\ \A c \in Clients : inbox'[c] = inbox[c]
        /\ send_queue'[Server] = <<>> /\ handlers' = {}
        /\ UNCHANGED <<pending, futures, raised, closing>>
    BY <1>0, <1>7, QueueTypes DEF Crash, clientVars
  <2> QED BY <1>t, <2>1, ReplyFrame
<1>8. ASSUME UNCHANGED vars PROVE ReplyInv'
  BY <1>8, <1>f DEF vars, loopVars, clientVars, serverVars
<1>9. ASSUME NEW h \in handlers, Handle(h) PROVE ReplyInv'
  BY <1>9, <1>t, HandleReply
<1> QED BY <1>1, <1>2, <1>3, <1>4, <1>5, <1>6, <1>7, <1>8, <1>9, <1>10, FileReply,
           ClientRecvReply, NextCases

-----------------------------------------------------------------------------

\* The refinement mapping, and what it makes of a future.
CallsView ==
  [x \in Clients \X Uids |->
     [req |-> futures[x[1]][x[2]].req, state |-> CallState(x[1], x[2])]]

StateOf(f) ==
  IF f.req = "none" THEN "idle" ELSE IF f.state = "unset" THEN "pending" ELSE f.state

\* The state of a call, as the queue's future shows it.
LEMMA CallStates ==
  ASSUME TypeInv, OrderInv, ReplyInv, NEW c \in Clients, NEW u \in Uids
  PROVE  CallState(c, u) = StateOf(futures[c][u])
<1>1. futures[c][u] \in FutureRec
  BY DEF TypeInv, ClientType
<1>2. /\ u >= uid_counter[c] => futures[c][u] = NoFuture
      /\ u < uid_counter[c] => futures[c][u].req \in ReqKinds
      /\ u \in Nat /\ uid_counter[c] \in Nat
  BY QueueTypes DEF OrderInv, ClientOrder
<1>3. raised[c] = FALSE /\ (futures[c][u].state # "unset" => futures[c][u].of = <<c, u>>)
  BY DEF ReplyInv, CallsInv
<1>4. CASE futures[c][u] = NoFuture
  BY <1>4 DEF CallState, StateOf, NoFuture, Future
<1>5. CASE futures[c][u] # NoFuture
  <2>1. futures[c][u].req # "none"
    BY <1>2, <1>5 DEF ReqKinds
  <2>2. CASE futures[c][u].state = "unset"
    BY <1>3, <1>5, <2>1, <2>2 DEF CallState, StateOf
  <2>3. CASE futures[c][u].state # "unset"
    BY <1>3, <1>5, <2>1, <2>3 DEF CallState, StateOf
  <2> QED BY <2>2, <2>3
<1> QED BY <1>4, <1>5

ViewIsExact ==
  \A x \in Clients \X Uids :
    CallsView[x] = [req |-> futures[x[1]][x[2]].req, state |-> StateOf(futures[x[1]][x[2]])]

\* The view of all calls is exact.
LEMMA Viewed == TypeInv /\ OrderInv /\ ReplyInv => ViewIsExact
  BY CallStates DEF CallsView, ViewIsExact

\* submit makes an idle call pending.
LEMMA SubmitRefines ==
  ASSUME TypeInv, OrderInv, ReplyInv, TypeInv', OrderInv', ReplyInv',
         NEW c \in Clients, NEW req \in ReqKinds, submit(c, req)
  PROVE  Layer!Submit(<<c, uid_counter[c]>>, req)
<1> DEFINE u == uid_counter[c]
           x == <<c, u>>
<1>v. ViewIsExact /\ ViewIsExact'
  BY Viewed, PTL
<1>1. u \in Uids
  BY SubmitChanges
<1>2. futures[c][u] = NoFuture
  BY SubmitChanges
<1>3. /\ futures'[c][u] = Future(req)
      /\ \A d \in Clients, v \in Uids : d # c \/ v # u => futures'[d][v] = futures[d][v]
  BY SubmitChanges
<1>4. x \in Clients \X Uids /\ x[1] = c /\ x[2] = u
  BY <1>1
<1>5. CallsView[x] = [req |-> "none", state |-> "idle"]
  BY <1>2, <1>4, <1>v DEF ViewIsExact, StateOf, NoFuture, Future
<1>6. CallsView' = [CallsView EXCEPT ![x] = [req |-> req, state |-> "pending"]]
  <2>1. \A y \in Clients \X Uids : CallsView'[y] =
          IF y = x THEN [req |-> req, state |-> "pending"] ELSE CallsView[y]
    <3> TAKE y \in Clients \X Uids
    <3>1. CallsView'[y] = [req |-> futures'[y[1]][y[2]].req, state |-> StateOf(futures'[y[1]][y[2]])]
      BY <1>v DEF ViewIsExact, StateOf
    <3>2. CallsView[y] = [req |-> futures[y[1]][y[2]].req, state |-> StateOf(futures[y[1]][y[2]])]
      BY <1>v DEF ViewIsExact
    <3>3. CASE y = x
      <4>1. futures'[y[1]][y[2]] = Future(req) /\ req # "none"
        BY <1>3, <3>3 DEF ReqKinds
      <4> QED BY <3>1, <3>3, <4>1 DEF StateOf, Future
    <3>4. CASE y # x
      <4>1. futures'[y[1]][y[2]] = futures[y[1]][y[2]]
        BY <1>3, <3>4
      <4> QED BY <3>1, <3>2, <3>4, <4>1
    <3> QED BY <3>3, <3>4
  <2>2. CallsView = [y \in Clients \X Uids |-> CallsView[y]]
    BY DEF CallsView
  <2>3. CallsView' = [y \in Clients \X Uids |-> CallsView'[y]]
    BY DEF CallsView
  <2> QED BY <1>4, <2>1, <2>2, <2>3
<1> QED BY <1>5, <1>6 DEF Layer!Submit, Layer!Idle, CallsView

\* on_recv settles a pending call as its handler ended, or changes nothing.
LEMMA ClientRecvRefines ==
  ASSUME TypeInv, OrderInv, ReplyInv, TypeInv', OrderInv', ReplyInv',
         NEW c \in Clients, ClientRecv(c)
  PROVE  (\E x \in Clients \X Uids : Layer!Settle(x)) \/ UNCHANGED CallsView
<1>v. ViewIsExact /\ ViewIsExact'
  BY Viewed, PTL
<1>1. PICK m \in ReplyMsg :
        /\ m = inbox[c][1] /\ m.uid \in Uids /\ m.ok \in BOOLEAN
        /\ Len(inbox[c]) \in Nat \ {0}
        /\ IF m.uid \in pending[c]
           THEN IF futures[c][m.uid].state = "unset"
                THEN Settle(c, m.uid, m) /\ UNCHANGED raised
                ELSE raised' = [raised EXCEPT ![c] = TRUE] /\ UNCHANGED futures
           ELSE UNCHANGED <<pending, futures, raised>>
  BY ClientReceives
<1>2. CASE m.uid \notin pending[c]
  BY <1>1, <1>2 DEF CallsView, CallState
<1>3. CASE m.uid \in pending[c]
  <2> DEFINE u == m.uid
             x == <<c, u>>
             r == futures[c][u].req
  <2>1. futures[c][u].state = "unset" /\ Settle(c, u, m)
    BY <1>1, <1>3 DEF ReplyInv, CallsInv
  <2>2. r \in ReqKinds
    <3>1. u \in Nat /\ uid_counter[c] \in Nat
      BY <1>1, QueueTypes
    <3> QED BY <1>1, <1>3, <3>1 DEF OrderInv, ClientOrder
  <2>3. m.ok = TRUE <=> r # "error"
    <3>1. 1 \in 1 .. Len(inbox[c]) /\ ~ \E j \in 1 .. Len(inbox[c]) : j < 1
      BY <1>1
    <3>2. IsReply(c, u, m.ok, m.of) /\ ~SecondReply(c, u, m.ok)
      BY <1>1, <1>3, <3>1 DEF ReplyInv, InboxInv
    <3> QED BY <1>1, <2>2, <3>2 DEF IsReply, SecondReply, ReqKinds
  <2>4. /\ futures'[c][u].req = r
        /\ futures'[c][u].state = IF r = "error" THEN "exception" ELSE "result"
        /\ \A d \in Clients, v \in Uids : d # c \/ v # u => futures'[d][v] = futures[d][v]
    BY <1>1, <2>1, <2>3, Settled
  <2>5. x \in Clients \X Uids /\ x[1] = c /\ x[2] = u
    BY <1>1
  <2>6. CallsView[x] = [req |-> r, state |-> "pending"]
    BY <2>1, <2>2, <2>5, <1>v DEF ViewIsExact, StateOf, ReqKinds
  <2>7. OutcomeOf[r] = IF r = "error" THEN "exception" ELSE "result"
    BY <2>2 DEF OutcomeOf
  <2>8. CallsView' = [CallsView EXCEPT ![x].state = OutcomeOf[CallsView[x].req]]
    <3>1. \A y \in Clients \X Uids : CallsView'[y] =
            IF y = x THEN [req |-> r, state |-> OutcomeOf[r]] ELSE CallsView[y]
      <4> TAKE y \in Clients \X Uids
      <4>1. CallsView'[y] = [req |-> futures'[y[1]][y[2]].req, state |-> StateOf(futures'[y[1]][y[2]])]
        BY <1>v DEF ViewIsExact, StateOf
      <4>2. CallsView[y] = [req |-> futures[y[1]][y[2]].req, state |-> StateOf(futures[y[1]][y[2]])]
        BY <1>v DEF ViewIsExact
      <4>3. CASE y = x
        <5>1. StateOf(futures'[c][u]) = OutcomeOf[r]
          BY <2>2, <2>4, <2>7 DEF StateOf, ReqKinds
        <5> QED BY <2>4, <4>1, <4>3, <5>1
      <4>4. CASE y # x
        <5>1. futures'[y[1]][y[2]] = futures[y[1]][y[2]]
          BY <2>4, <4>4
        <5> QED BY <4>1, <4>2, <4>4, <5>1
      <4> QED BY <4>3, <4>4
    <3>2. CallsView = [y \in Clients \X Uids |-> CallsView[y]]
      BY DEF CallsView
    <3>3. CallsView' = [y \in Clients \X Uids |-> CallsView'[y]]
      BY DEF CallsView
    <3>4. [CallsView[x] EXCEPT !.state = OutcomeOf[CallsView[x].req]] = [req |-> r, state |-> OutcomeOf[r]]
      BY <2>6
    <3> QED BY <2>5, <3>1, <3>2, <3>3, <3>4
  <2>9. CallsView[x].state = "pending"
    BY <2>6
  <2>10. Layer!Settle(x)
    BY <2>8, <2>9 DEF Layer!Settle, CallsView
  <2> QED BY <2>5, <2>10
<1> QED BY <1>2, <1>3

\* Every step of the queue is a step of RPC or none.
LEMMA NextRefines ==
  TypeInv /\ OrderInv /\ ReplyInv /\ [Next]_vars => [Layer!Next]_CallsView
<1> SUFFICES ASSUME TypeInv, OrderInv, ReplyInv, [Next]_vars
             PROVE  Layer!Next \/ UNCHANGED CallsView
  OBVIOUS
<1>t. TypeInv' /\ OrderInv' /\ ReplyInv'
  BY NextType, NextOrder, NextReply
<1>f. ASSUME UNCHANGED <<futures, raised>> PROVE UNCHANGED CallsView
  BY <1>f DEF CallsView, CallState
<1>1. ASSUME NEW c \in Clients, NEW req \in ReqKinds, submit(c, req) PROVE Layer!Next
  <2>1. <<c, uid_counter[c]>> \in Clients \X Uids /\ req \in DOMAIN OutcomeOf
    BY <1>1, SubmitChanges DEF OutcomeOf
  <2>2. Layer!Submit(<<c, uid_counter[c]>>, req)
    BY <1>1, <1>t, SubmitRefines
  <2> QED BY <2>1, <2>2 DEF Layer!Next
<1>2. ASSUME NEW c \in Clients, ClientRecv(c) PROVE Layer!Next \/ UNCHANGED CallsView
  BY <1>2, <1>t, ClientRecvRefines DEF Layer!Next
<1>3. ASSUME NEW c \in Clients, Close(c) PROVE UNCHANGED CallsView
  BY <1>3, <1>f DEF Close, clientVars
<1>4. ASSUME NEW c \in Clients, Closing(c) PROVE UNCHANGED CallsView
  BY <1>4, <1>f DEF Closing, clientVars
<1>5. ASSUME NEW e \in Endpoints, Waking(e) PROVE UNCHANGED CallsView
  BY <1>5, <1>f DEF Waking, clientVars
<1>6. ASSUME UNCHANGED <<clientVars, serverVars>> PROVE UNCHANGED CallsView
  BY <1>6, <1>f DEF clientVars
<1>7. ASSUME ServerRecv PROVE UNCHANGED CallsView
  BY <1>7, <1>f DEF ServerRecv, clientVars
<1>8. ASSUME NEW h \in handlers, Handle(h) PROVE UNCHANGED CallsView
  BY <1>8, <1>f DEF Handle, HandleValue, HandleChunks, SendNowLock, SendNow, PostSend, clientVars
<1>9. ASSUME Crash PROVE UNCHANGED CallsView
  BY <1>9, <1>f DEF Crash, clientVars
<1>10. ASSUME UNCHANGED vars PROVE UNCHANGED CallsView
  BY <1>10, <1>f DEF vars, clientVars
<1>11. ASSUME NEW c \in Clients, NEW u \in Uids, File(c, u) \/ Put(c, u) PROVE UNCHANGED CallsView
  BY <1>11, <1>f DEF File, Put
<1> QED BY <1>1, <1>2, <1>3, <1>4, <1>5, <1>6, <1>7, <1>8, <1>9, <1>10, <1>11, NextCases

\* There are no replies at the start.
LEMMA InitReply == Init => ReplyInv
<1> SUFFICES ASSUME Init PROVE ReplyInv
  OBVIOUS
<1>1. /\ \A c \in Clients : inbox[c] = <<>> /\ pending[c] = {} /\ raised[c] = FALSE
      /\ \A c \in Clients, u \in Uids : futures[c][u] = NoFuture
      /\ send_queue[Server] = <<>> /\ handlers = {}
  BY QueueAssumption DEF Init, LoopInit
<1>2. \A c \in Clients : CallsInv(c) /\ InboxInv(c)
  BY <1>1 DEF CallsInv, InboxInv, NoFuture, Future
<1>3. QueuedInv /\ HandlersInv
  BY <1>1 DEF QueuedInv, HandlersInv
<1> QED BY <1>2, <1>3 DEF ReplyInv

\* ImplementsRPC: through queues, threads, second replies, closes and
\* crashes of the server, clients see the abstract request/reply layer: a
\* call is settled at most once, by the reply to its own request and with
\* the outcome of its own handler, and on_recv never meets a settled future.
THEOREM QueueImplementsRPC == Spec => ImplementsRPC
<1>1. Init => TypeInv /\ OrderInv /\ ReplyInv
  BY InitType, InitOrder, InitReply
<1>2. TypeInv /\ OrderInv /\ ReplyInv /\ [Next]_vars => (TypeInv /\ OrderInv /\ ReplyInv)'
  BY NextType, NextOrder, NextReply
<1>3. Init => Layer!Init
  <2> SUFFICES ASSUME Init PROVE Layer!Init
    OBVIOUS
  <2>1. TypeInv /\ OrderInv /\ ReplyInv
    BY <1>1
  <2>2. \A x \in Clients \X Uids : CallsView[x] = [req |-> "none", state |-> "idle"]
    BY <2>1, Viewed DEF ViewIsExact, Init, StateOf, NoFuture, Future
  <2>3. CallsView = [x \in Clients \X Uids |-> [req |-> "none", state |-> "idle"]]
    BY <2>2 DEF CallsView
  <2> QED BY <2>3 DEF Layer!Init, Layer!Idle, CallsView
<1>4. TypeInv /\ OrderInv /\ ReplyInv /\ [Next]_vars => [Layer!Next]_CallsView
  BY NextRefines
<1> QED BY <1>1, <1>2, <1>3, <1>4, PTL DEF Spec, ImplementsRPC, Layer!Spec, CallsView

=============================================================================
