-------------------------------- MODULE RPC ---------------------------------
(***************************************************************************)
(* What the request/reply layer of mini_llmcache/mq.py promises a client:  *)
(* a call is settled at most once and with the outcome of its own handler, *)
(* a result when the handler returned and an exception when it raised.     *)
(***************************************************************************)
CONSTANTS
  Calls,     \* the calls that may be made
  Outcome    \* Outcome[req]: how the handler of a request ends

VARIABLE calls  \* calls[x]: "idle", or the request and its state

Idle == [req |-> "none", state |-> "idle"]

Init == calls = [x \in Calls |-> Idle]

Submit(x, req) ==
  /\ calls[x] = Idle
  /\ calls' = [calls EXCEPT ![x] = [req |-> req, state |-> "pending"]]

Settle(x) ==
  /\ calls[x].state = "pending"
  /\ calls' = [calls EXCEPT ![x].state = Outcome[calls[x].req]]

Next == \E x \in Calls :
          Settle(x) \/ \E req \in DOMAIN Outcome : Submit(x, req)

Spec == Init /\ [][Next]_calls

=============================================================================
