----------------------------- MODULE SocketLoop -----------------------------
(***************************************************************************)
(* SocketLoop of mini_llmcache/mq.py: an endpoint owns one ZMQ socket, a   *)
(* queue of messages to send, a wakeup pipe and an I/O thread.             *)
(*                                                                         *)
(* Any thread queues a message and then writes a byte to the pipe; waking  *)
(* counts the threads between the two.  The I/O thread polls the pipe and  *)
(* the socket, empties the queue when it was woken and receives one        *)
(* message when the socket had one.  A message names its receiver; sending *)
(* puts it into the receiver's inbox, and drops it when the receiver has   *)
(* closed its socket.  How long it stays there is the network's delay.     *)
(***************************************************************************)
EXTENDS Naturals, Sequences

CONSTANTS
  Endpoints,  \* the clients and the server
  ReadSize,   \* bytes the I/O thread takes from the pipe at once
  PipeSize    \* bytes the pipe holds before a write blocks

ASSUME LoopAssumption ==
  /\ ReadSize \in Nat \ {0}
  /\ PipeSize \in Nat \ {0}

VARIABLES
  send_queue,  \* send_queue[e]: messages queued by send
  wake,        \* wake[e]: bytes in the wakeup pipe
  waking,      \* waking[e]: threads that queued and have not written yet
  closing,     \* closing[e]: how far close has come
  io,          \* io[e]: the I/O thread, and whether poll saw the socket
  send_lock,   \* send_lock[e]: the thread that holds it
  inbox        \* inbox[e]: messages the socket has not handed out

loopVars == <<send_queue, wake, waking, closing, io, send_lock, inbox>>

Free == <<>>
IOThread == <<"io">>

stopped(e) == closing[e] # "open"

LoopInit ==
  /\ send_queue = [e \in Endpoints |-> <<>>]
  /\ wake = [e \in Endpoints |-> 0]
  /\ waking = [e \in Endpoints |-> 0]
  /\ closing = [e \in Endpoints |-> "open"]
  /\ io = [e \in Endpoints |-> [pc |-> "loop", sock |-> FALSE]]
  /\ send_lock = [e \in Endpoints |-> Free]
  /\ inbox = [e \in Endpoints |-> <<>>]

\* send_multipart, as the receiver sees it.
Transmit(m) ==
  inbox' = IF closing[m.to] = "closed" THEN inbox
           ELSE [inbox EXCEPT ![m.to] = Append(@, m)]

\* send: queue the message; the byte follows in Wake.
send(e, m) ==
  /\ send_queue' = [send_queue EXCEPT ![e] = Append(@, m)]
  /\ waking' = [waking EXCEPT ![e] = @ + 1]
  /\ UNCHANGED <<wake, closing, io, send_lock, inbox>>

\* os.write blocks while the pipe is full and raises when it is closed.
Wake(e) ==
  /\ waking[e] > 0
  /\ IF closing[e] = "closed"
     THEN UNCHANGED wake
     ELSE wake[e] < PipeSize /\ wake' = [wake EXCEPT ![e] = @ + 1]
  /\ waking' = [waking EXCEPT ![e] = @ - 1]
  /\ UNCHANGED <<send_queue, closing, io, send_lock, inbox>>

-----------------------------------------------------------------------------

(***************************************************************************)
(* run: the I/O thread.                                                    *)
(***************************************************************************)
Goto(e, pc) == io' = [io EXCEPT ![e].pc = pc]

\* while not self.stopped
Loop(e) ==
  /\ io[e].pc = "loop"
  /\ Goto(e, IF stopped(e) THEN "exit" ELSE "poll")
  /\ UNCHANGED <<send_queue, wake, waking, closing, send_lock, inbox>>

\* poll returns what is ready, as soon as anything is.
Poll(e) ==
  /\ io[e].pc = "poll"
  /\ wake[e] > 0 \/ inbox[e] # <<>>
  /\ io' = [io EXCEPT ![e] = [pc |-> IF wake[e] > 0 THEN "wake" ELSE "recv",
                              sock |-> inbox[e] # <<>>]]
  /\ UNCHANGED <<send_queue, wake, waking, closing, send_lock, inbox>>

ReadWake(e) ==
  /\ io[e].pc = "wake"
  /\ wake' = [wake EXCEPT ![e] = IF @ > ReadSize THEN @ - ReadSize ELSE 0]
  /\ Goto(e, "drain")
  /\ UNCHANGED <<send_queue, waking, closing, send_lock, inbox>>

\* while not self.send_queue.empty(), and the lock around each send.
Drain(e) ==
  /\ io[e].pc = "drain"
  /\ send_queue[e] # <<>>
  /\ send_lock[e] = Free
  /\ send_lock' = [send_lock EXCEPT ![e] = IOThread]
  /\ Goto(e, "send")
  /\ UNCHANGED <<send_queue, wake, waking, closing, inbox>>

SendQueued(e) ==
  /\ io[e].pc = "send"
  /\ Transmit(Head(send_queue[e]))
  /\ send_queue' = [send_queue EXCEPT ![e] = Tail(@)]
  /\ send_lock' = [send_lock EXCEPT ![e] = Free]
  /\ Goto(e, "drain")
  /\ UNCHANGED <<wake, waking, closing>>

\* Mutant: one message per wakeup, then on to the socket.
DrainedEarly(e) ==
  /\ io[e].pc = "drain"
  /\ send_queue[e] = <<>> \/ wake[e] = 0
  /\ Goto(e, IF io[e].sock THEN "recv" ELSE "loop")
  /\ UNCHANGED <<send_queue, wake, waking, closing, send_lock, inbox>>

Drained(e) ==
  /\ io[e].pc = "drain"
  /\ send_queue[e] = <<>>
  /\ Goto(e, IF io[e].sock THEN "recv" ELSE "loop")
  /\ UNCHANGED <<send_queue, wake, waking, closing, send_lock, inbox>>

\* recv_multipart; what on_recv does with Head(inbox[e]) is the endpoint's.
Received(e) ==
  /\ io[e].pc = "recv"
  /\ inbox' = [inbox EXCEPT ![e] = Tail(@)]
  /\ Goto(e, "loop")

IOStep(e) ==
  Loop(e) \/ Poll(e) \/ ReadWake(e) \/ Drain(e) \/ SendQueued(e) \/ Drained(e)

(***************************************************************************)
(* close: stop, write the last byte, join the thread, close the socket.    *)
(***************************************************************************)
Stop(e) ==
  /\ closing[e] = "open"
  /\ closing' = [closing EXCEPT ![e] = "stopping"]
  /\ UNCHANGED <<send_queue, wake, waking, io, send_lock, inbox>>

\* Mutant: close does not wake the I/O thread.
StopNoWake(e) ==
  /\ closing[e] = "stopping"
  /\ closing' = [closing EXCEPT ![e] = "joining"]
  /\ UNCHANGED <<send_queue, wake, waking, io, send_lock, inbox>>

StopWake(e) ==
  /\ closing[e] = "stopping"
  /\ wake[e] < PipeSize
  /\ wake' = [wake EXCEPT ![e] = @ + 1]
  /\ closing' = [closing EXCEPT ![e] = "joining"]
  /\ UNCHANGED <<send_queue, waking, io, send_lock, inbox>>

Joined(e) ==
  /\ closing[e] = "joining"
  /\ io[e].pc = "exit"
  /\ closing' = [closing EXCEPT ![e] = "closed"]
  /\ inbox' = [inbox EXCEPT ![e] = <<>>]
  /\ UNCHANGED <<send_queue, wake, waking, io, send_lock>>

=============================================================================
