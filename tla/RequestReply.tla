---------------------------- MODULE RequestReply ----------------------------
(***************************************************************************)
(* What the router of connect/hub/routing.go promises to the callers of    *)
(* RouteRequest, without connectors, loops, locks or futures.              *)
(*                                                                         *)
(* A request is delivered at most once, and never when its node was not    *)
(* connected at the time of the call.  A call has one outcome; it is a     *)
(* reply only if the request was delivered.  Delivery may come after the   *)
(* caller gave up, and a failed call may have been delivered.              *)
(***************************************************************************)
EXTENDS Naturals

CONSTANTS Nodes, Calls

VARIABLES
  online,    \* the nodes a request can be routed to
  phase,     \* "idle", "pending", or the outcome of each call
  routed,    \* calls that found their node online
  received   \* how often the node's client received each request

vars == <<online, phase, routed, received>>

Outcomes == {"reply", "unavailable", "cancelled"}

Init ==
  /\ online = {}
  /\ phase = [c \in Calls |-> "idle"]
  /\ routed = {}
  /\ received = [c \in Calls |-> 0]

NodeOnline(n) ==
  /\ n \notin online
  /\ online' = online \cup {n}
  /\ UNCHANGED <<phase, routed, received>>

NodeOffline(n) ==
  /\ n \in online
  /\ online' = online \ {n}
  /\ UNCHANGED <<phase, routed, received>>

Request(c, n) ==
  /\ phase[c] = "idle"
  /\ phase' = [phase EXCEPT ![c] = "pending"]
  /\ routed' = IF n \in online THEN routed \cup {c} ELSE routed
  /\ UNCHANGED <<online, received>>

Deliver(c) ==
  /\ c \in routed
  /\ received[c] = 0
  /\ received' = [received EXCEPT ![c] = 1]
  /\ UNCHANGED <<online, phase, routed>>

Conclude(c, outcome) ==
  /\ phase[c] = "pending"
  /\ outcome = "reply" => received[c] = 1
  /\ phase' = [phase EXCEPT ![c] = outcome]
  /\ UNCHANGED <<online, routed, received>>

Next ==
  \/ \E n \in Nodes : NodeOnline(n) \/ NodeOffline(n)
  \/ \E c \in Calls :
       \/ \E n \in Nodes : Request(c, n)
       \/ Deliver(c)
       \/ \E outcome \in Outcomes : Conclude(c, outcome)

Spec == Init /\ [][Next]_vars
=============================================================================
