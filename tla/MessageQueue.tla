---------------------------- MODULE MessageQueue ----------------------------
(***************************************************************************)
(* MQClient and MQServer of mini_llmcache/mq.py over their socket loops.   *)
(*                                                                         *)
(* A client numbers its requests and keeps a future for each in pending;   *)
(* several of its threads submit, each in steps of its own.                *)
(* The server runs every request in a thread of its own (a record of       *)
(* handlers) and sends the reply through its queue, except for the chunks  *)
(* of a RETRIEVE, which the handler thread sends itself.  What a handler   *)
(* computes is abstract: a reply carries the request it answers.           *)
(***************************************************************************)
EXTENDS Integers, FiniteSets, SocketLoop

CONSTANTS
  Clients, Server,
  MaxUid,    \* bound: requests of a client
  Loading    \* load threads of a client that have their chunks at the start

\* A request whose handler returns a value, returns chunks or raises, and the
\* TRANSFER_ACK of a load thread, whose handler returns a value too.
ReqKinds == {"value", "chunks", "error", "ack"}

ASSUME QueueAssumption ==
  /\ Endpoints = Clients \cup {Server}
  /\ Server \notin Clients
  /\ MaxUid \in Nat
  /\ Loading \in Nat

VARIABLES
  uid_counter,  \* uid_counter[c]: the next uid
  submitting,   \* submitting[c][u]: what submit has yet to do for request u
  pending,      \* pending[c]: the uids whose futures wait in the table
  futures,      \* futures[c][u]: the future of request u, and its kind
  bye,          \* bye[c]: the uid of the UNREGISTER of shutdown, or None
  raised,       \* raised[c]: set_result met a settled future
  handlers,     \* the handler threads of the server
  crashed       \* history: the server has crashed

clientVars == <<uid_counter, submitting, pending, futures, bye, raised>>
serverVars == <<handlers, crashed>>
vars == <<loopVars, clientVars, serverVars>>

Uids == 0 .. (MaxUid - 1)
None == -1

Request(c, u, req) == [to |-> Server, from |-> c, uid |-> u, req |-> req]
Reply(h, ok) == [to |-> h.from, uid |-> h.uid, ok |-> ok, of |-> <<h.from, h.uid>>]
Future(req) == [state |-> "unset", of |-> <<>>, req |-> req]
NoFuture == Future("none")

Init ==
  /\ LoopInit
  /\ uid_counter = [c \in Clients |-> 0]
  /\ submitting = [c \in Clients |-> [u \in Uids |-> "no"]]
  /\ pending = [c \in Clients |-> {}]
  /\ futures = [c \in Clients |-> [u \in Uids |-> NoFuture]]
  /\ bye = [c \in Clients |-> None]
  /\ raised = [c \in Clients |-> FALSE]
  /\ handlers = {}
  /\ crashed = FALSE

-----------------------------------------------------------------------------

(***************************************************************************)
(* MQClient.                                                               *)
(***************************************************************************)

\* submit takes three steps, between which other threads of the client run:
\* it numbers the request and makes its future, ...
submit(c, req) ==
  LET u == uid_counter[c]
  IN  /\ u < MaxUid
      /\ uid_counter' = [uid_counter EXCEPT ![c] = u + 1]
      /\ futures' = [futures EXCEPT ![c][u] = Future(req)]
      /\ submitting' = [submitting EXCEPT ![c][u] = "file"]
      /\ UNCHANGED <<pending, raised, loopVars, serverVars>>

\* ... keeps the future ...
File(c, u) ==
  /\ submitting[c][u] = "file"
  /\ pending' = [pending EXCEPT ![c] = @ \cup {u}]
  /\ submitting' = [submitting EXCEPT ![c][u] = "put"]
  /\ UNCHANGED <<uid_counter, futures, bye, raised, loopVars, serverVars>>

\* ... and queues the message.
Put(c, u) ==
  /\ submitting[c][u] = "put"
  /\ send(c, Request(c, u, futures[c][u].req))
  /\ submitting' = [submitting EXCEPT ![c][u] = "no"]
  /\ UNCHANGED <<uid_counter, pending, futures, bye, raised, serverVars>>

\* The thread that runs the hooks of the connector is in none of its submits.
HookIsFree(c) == \A u \in Uids : submitting[c][u] # "no" => futures[c][u].req = "ack"

\* A hook of the connector runs in the thread that later calls shutdown.
Submit(c, req) ==
  /\ HookIsFree(c)
  /\ bye[c] = None
  /\ submit(c, req)
  /\ UNCHANGED bye

\* The load thread of a RETRIEVE submits its TRANSFER_ACK when it has the
\* chunks, whatever the hooks do and even while the client is shut down.  Its
\* RETRIEVE may be one of before the requests of the model.
LoadAck(c) ==
  LET Acks == {u \in Uids : futures[c][u].req = "ack"}
      Loads == {u \in Uids : futures[c][u].req = "chunks" /\ futures[c][u].state = "result"}
  IN  /\ Cardinality(Acks) < Loading + Cardinality(Loads)
      /\ submit(c, "ack")
      /\ UNCHANGED bye

\* shutdown of the connector: call(UNREGISTER_KV_CACHE) ...
Unregister(c) ==
  /\ HookIsFree(c)
  /\ bye[c] = None
  /\ submit(c, "value")
  /\ bye' = [bye EXCEPT ![c] = uid_counter[c]]

\* Mutant: shutdown closes the socket without waiting for the reply.
CloseAtOnce(c) ==
  /\ bye[c] # None
  /\ HookIsFree(c)
  /\ Stop(c)
  /\ UNCHANGED <<clientVars, serverVars>>

\* ... and, when it has returned, close.
Close(c) ==
  /\ bye[c] # None
  /\ futures[c][bye[c]].state = "result"
  /\ Stop(c)
  /\ UNCHANGED <<clientVars, serverVars>>

Closing(c) ==
  /\ StopWake(c) \/ Joined(c)
  /\ UNCHANGED <<clientVars, serverVars>>

Settle(c, u, m) ==
  futures' = [futures EXCEPT ![c][u].state = IF m.ok THEN "result" ELSE "exception",
                             ![c][u].of = m.of]

\* Mutant: pending.get instead of pending.pop.
ClientRecvKeeps(c) ==
  LET m == Head(inbox[c])
  IN  /\ Received(c)
      /\ IF futures[c][m.uid].state = "unset"
         THEN Settle(c, m.uid, m) /\ UNCHANGED raised
         ELSE raised' = [raised EXCEPT ![c] = TRUE] /\ UNCHANGED futures
      /\ UNCHANGED <<send_queue, wake, waking, closing, send_lock,
                     uid_counter, submitting, pending, bye, serverVars>>

\* on_recv: a reply settles the future it takes out of pending; a reply
\* that finds none is ignored.  A future that was settled before would raise
\* InvalidStateError in the I/O thread.
ClientRecv(c) ==
  LET m == Head(inbox[c])
  IN  /\ Received(c)
      /\ IF m.uid \in pending[c]
         THEN /\ pending' = [pending EXCEPT ![c] = @ \ {m.uid}]
              /\ IF futures[c][m.uid].state = "unset"
                 THEN Settle(c, m.uid, m) /\ UNCHANGED raised
                 ELSE raised' = [raised EXCEPT ![c] = TRUE] /\ UNCHANGED futures
         ELSE UNCHANGED <<pending, futures, raised>>
      /\ UNCHANGED <<send_queue, wake, waking, closing, send_lock,
                     uid_counter, submitting, bye, serverVars>>

-----------------------------------------------------------------------------

(***************************************************************************)
(* MQServer.                                                               *)
(***************************************************************************)

\* on_recv: a thread per request.
ServerRecv ==
  LET m == Head(inbox[Server])
  IN  /\ Received(Server)
      /\ handlers' = handlers \cup
           {[from |-> m.from, uid |-> m.uid, req |-> m.req, pc |-> "run"]}
      /\ UNCHANGED <<send_queue, wake, waking, closing, send_lock, clientVars, crashed>>

Becomes(h, pc) == handlers' = (handlers \ {h}) \cup {[h EXCEPT !.pc = pc]}
Ends(h) == handlers' = handlers \ {h}

\* A list of chunks and what to do when they are sent.
is_chunk_result(h) == h.req = "chunks"

\* handle, for a handler that returns a value or raises.
HandleValue(h) ==
  /\ h.pc = "run"
  /\ ~is_chunk_result(h)
  /\ send(Server, Reply(h, h.req # "error"))
  /\ Ends(h)
  /\ UNCHANGED <<clientVars, crashed>>

\* A chunk result is sent under the lock by the handler thread: send_now.
HandleChunks(h) ==
  /\ h.pc = "run"
  /\ is_chunk_result(h)
  /\ Becomes(h, "lock")
  /\ UNCHANGED <<loopVars, clientVars, crashed>>

\* Mutant: send_now without the lock.
SendNowUnlocked(h) ==
  /\ h.pc = "lock"
  /\ Becomes(h, "send")
  /\ UNCHANGED <<loopVars, clientVars, crashed>>

SendNowLock(h) ==
  /\ h.pc = "lock"
  /\ send_lock[Server] = Free
  /\ send_lock' = [send_lock EXCEPT ![Server] = <<h.from, h.uid>>]
  /\ Becomes(h, "send")
  /\ UNCHANGED <<send_queue, wake, waking, closing, io, inbox, clientVars, crashed>>

SendNow(h) ==
  /\ h.pc = "send"
  /\ Transmit(Reply(h, TRUE))
  /\ send_lock' = [send_lock EXCEPT ![Server] = Free]
  /\ Becomes(h, "post")
  /\ UNCHANGED <<send_queue, wake, waking, closing, io, clientVars, crashed>>

\* post_send returns, or raises and causes a second reply.
PostSend(h) ==
  /\ h.pc = "post"
  /\ UNCHANGED loopVars \/ send(Server, Reply(h, FALSE))
  /\ Ends(h)
  /\ UNCHANGED <<clientVars, crashed>>

Handle(h) ==
  HandleValue(h) \/ HandleChunks(h) \/ SendNowLock(h) \/ SendNow(h) \/ PostSend(h)

\* The server process dies with its threads and queues and is restarted,
\* once (a bound); the clients' sockets reconnect.
Crash ==
  /\ ~crashed
  /\ crashed' = TRUE
  /\ handlers' = {}
  /\ send_queue' = [send_queue EXCEPT ![Server] = <<>>]
  /\ wake' = [wake EXCEPT ![Server] = 0]
  /\ waking' = [waking EXCEPT ![Server] = 0]
  /\ io' = [io EXCEPT ![Server] = [pc |-> "loop", sock |-> FALSE]]
  /\ send_lock' = [send_lock EXCEPT ![Server] = Free]
  /\ inbox' = [inbox EXCEPT ![Server] = <<>>]
  /\ UNCHANGED <<closing, clientVars>>

-----------------------------------------------------------------------------

\* A thread finishes send, or the I/O thread of e makes a step.
Waking(e) == Wake(e) /\ UNCHANGED <<clientVars, serverVars>>
IO(e) ==
  \/ IOStep(e) /\ UNCHANGED <<clientVars, serverVars>>
  \/ e \in Clients /\ ClientRecv(e)
  \/ e = Server /\ ServerRecv

\* All clients have closed, or have nothing more to say.
Quiet ==
  /\ \A c \in Clients : uid_counter[c] = MaxUid \/ bye[c] # None
  /\ \A e \in Endpoints : waking[e] = 0 /\ io[e].pc \in {"poll", "exit"}
  /\ \A c \in Clients : inbox[c] = <<>> /\ \A u \in Uids : submitting[c][u] = "no"
  /\ handlers = {}

Waiting == Quiet /\ UNCHANGED vars

Next ==
  \/ \E c \in Clients :
       \/ \E req \in ReqKinds \ {"ack"} : Submit(c, req)
       \/ \E u \in Uids : File(c, u) \/ Put(c, u)
       \/ LoadAck(c) \/ Unregister(c) \/ Close(c) \/ Closing(c)
  \/ \E e \in Endpoints : Waking(e) \/ IO(e)
  \/ \E h \in handlers : Handle(h)
  \/ Crash
  \/ Waiting

Spec == Init /\ [][Next]_vars

\* Threads that can run do run; a closer that started finishes.
Fairness ==
  /\ \A e \in Endpoints : WF_vars(Waking(e)) /\ WF_vars(IO(e))
  /\ \A c \in Clients : WF_vars(Closing(c))
  /\ \A c \in Clients, u \in Uids :
       /\ WF_vars(File(c, u) \/ Put(c, u))
       /\ WF_vars(\E h \in handlers : h.from = c /\ h.uid = u /\ Handle(h))

FairSpec == Spec /\ Fairness

-----------------------------------------------------------------------------

\* The byte in the pipe is never consumed before the message it announces
\* can be seen: an I/O thread does not sleep over a filled queue, whatever
\* the order of puts, writes, reads and drains.
NoLostWakeup ==
  \A e \in Endpoints :
    io[e].pc = "poll" /\ send_queue[e] # <<>> => wake[e] > 0 \/ waking[e] > 0

\* The futures of all clients, as the calls of the abstract layer.
OutcomeOf == [req \in ReqKinds |-> IF req = "error" THEN "exception" ELSE "result"]

\* What the caller of request u is given.  A reply to another request, and a
\* second one that meets a settled future and ends the I/O thread with
\* InvalidStateError, are outcomes the layer does not have.
CallState(c, u) ==
  LET f == futures[c][u]
  IN  CASE f = NoFuture -> "idle"
        [] f # NoFuture /\ raised[c] -> "settled twice"
        [] f # NoFuture /\ ~raised[c] /\ f.state = "unset" -> "pending"
        [] OTHER -> IF f.of = <<c, u>> THEN f.state ELSE "foreign"
Layer == INSTANCE RPC WITH
  Calls <- Clients \X Uids, Outcome <- OutcomeOf,
  calls <- [x \in Clients \X Uids |->
              [req |-> futures[x[1]][x[2]].req, state |-> CallState(x[1], x[2])]]

\* Through queues, threads, replies that overtake each other or come twice
\* (a handler whose post_send raises answers again), and crashes of the
\* server, the clients see the abstract layer: every call ends at most once,
\* with the reply to its own request and the way its own handler ended.
ImplementsRPC == Layer!Spec

\* "Two threads never write at once": the sends of handler threads and of
\* the I/O thread exclude each other.
Sending == {h \in handlers : h.pc = "send"}
SendsAreExclusive ==
  /\ \A g, h \in Sending : g = h
  /\ Sending # {} => io[Server].pc # "send"

\* run leaves its loop without a last look at the queue; that everything the
\* hooks submitted has left by then is due to the call that precedes close,
\* whatever order the threads of the client number and queue their requests
\* in.  Only the TRANSFER_ACK of a late load is dropped.
ShutdownFlushes ==
  \A c \in Clients :
    io[c].pc = "exit" =>
      \A i \in 1 .. Len(send_queue[c]) : send_queue[c][i].req = "ack"

\* Every request is answered unless its client closes first or the server
\* that had it crashes.
RequestsAreAnswered ==
  \A c \in Clients, u \in Uids :
    u \in pending[c] ~> (u \notin pending[c] \/ stopped(c) \/ crashed)

\* A client that starts to close gets its thread joined.
CloseReturns == \A c \in Clients : stopped(c) ~> closing[c] = "closed"

=============================================================================
