------------------------------- MODULE Delivery -------------------------------
(***************************************************************************)
(* What the proxy promises a client about one request: it is put to an     *)
(* upstream at most once.  An address that accepts no connection may be    *)
(* replaced by one other; after a connection was accepted nothing is sent  *)
(* again, however the connection ends, and an answer is one an upstream    *)
(* gave.                                                                   *)
(***************************************************************************)
EXTENDS Naturals

CONSTANT Threads

VARIABLES
  phase,   \* phase[r]: of the request that thread r handles
  misses   \* misses[r]: addresses that accepted no connection

Init ==
  /\ phase = [r \in Threads |-> "idle"]
  /\ misses = [r \in Threads |-> 0]

Receive(r) ==
  /\ phase[r] \in {"idle", "answered", "failed"}
  /\ phase' = [phase EXCEPT ![r] = "pending"]
  /\ misses' = [misses EXCEPT ![r] = 0]

Miss(r) ==
  /\ phase[r] = "pending"
  /\ misses[r] < 2
  /\ misses' = [misses EXCEPT ![r] = @ + 1]
  /\ \/ misses[r] = 0 /\ UNCHANGED phase
     \/ phase' = [phase EXCEPT ![r] = "failed"]

Deliver(r) ==
  /\ phase[r] = "pending"
  /\ phase' = [phase EXCEPT ![r] = "delivered"]
  /\ UNCHANGED misses

Answer(r) ==
  /\ phase[r] = "delivered"
  /\ phase' = [phase EXCEPT ![r] = "answered"]
  /\ UNCHANGED misses

Fail(r) ==
  /\ phase[r] \in {"pending", "delivered"}
  /\ phase' = [phase EXCEPT ![r] = "failed"]
  /\ UNCHANGED misses

Next == \E r \in Threads :
          Receive(r) \/ Miss(r) \/ Deliver(r) \/ Answer(r) \/ Fail(r)

Spec == Init /\ [][Next]_<<phase, misses>>
=============================================================================
