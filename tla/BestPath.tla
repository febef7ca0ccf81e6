------------------------------- MODULE BestPath -------------------------------
(***************************************************************************)
(* What a learning table promises about the path of a server, by delay or  *)
(* by loss: it leaves a path only for a strictly better one or when it is  *)
(* reset to the gateway, the cost it shows is the cost of that very path,  *)
(* and the gateway is never offered at another cost than the node's own.   *)
(* RouteTable implements it twice, when no command runs during a frame.    *)
(***************************************************************************)
EXTENDS Integers

CONSTANTS
  Rows,     \* the servers
  Gateway,  \* the own path
  Peers,    \* the other paths
  Costs     \* delays or loss rates

VARIABLES
  via,      \* the path of a server
  cost,     \* its cost
  own       \* the cost that the node measures through the gateway

vars == <<via, cost, own>>

\* The node measures its own path.
Measure(r, c) ==
  /\ own' = [own EXCEPT ![r] = c]
  /\ UNCHANGED <<via, cost>>

\* Path p costs c: news of the path in use, or a better path.
Offer(r, p, c) ==
  /\ p = Gateway => c = own[r]
  /\ p = via[r] \/ c < cost[r]
  /\ via' = [via EXCEPT ![r] = p] /\ cost' = [cost EXCEPT ![r] = c]
  /\ UNCHANGED own

\* Back to the own path, whatever it costs.
Reset(r) ==
  /\ via' = [via EXCEPT ![r] = Gateway] /\ cost' = [cost EXCEPT ![r] = own[r]]
  /\ UNCHANGED own

Next ==
  \E r \in Rows :
    \/ Reset(r)
    \/ \E c \in Costs : Measure(r, c)
    \/ \E p \in Peers \cup {Gateway}, c \in Costs : Offer(r, p, c)

Spec == [][Next]_vars
=============================================================================
