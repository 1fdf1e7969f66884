--------------------------- MODULE LaunchProtocol ---------------------------
(***************************************************************************)
(* What the bootstrapping workflow promises, with nothing of how it does   *)
(* it: nodes of a role are asked for only when every earlier role has its  *)
(* quota of announced nodes, the cluster is declared launched only when    *)
(* every role has, and the bootstrapper goes only after that.              *)
(***************************************************************************)
EXTENDS Integers, Sequences, FiniteSets

CONSTANTS
  Node,     \* the nodes that may be launched
  NodeRole, \* the role of each
  Order,    \* the roles, in the order they are launched
  Needed    \* how many nodes each role needs

VARIABLES
  asked,     \* roles whose nodes have been asked for
  announced, \* nodes that have announced themselves
  launched,  \* the cluster has been declared launched
  retired    \* the first role has been given up

protocolVars == <<asked, announced, launched, retired>>

Complete(k) ==
  Cardinality({n \in announced : NodeRole[n] = Order[k]}) >= Needed[Order[k]]

ProtocolInit ==
  /\ asked = {}
  /\ announced = {}
  /\ launched = FALSE
  /\ retired = FALSE

Ask(k) ==
  /\ Order[k] \notin asked
  /\ \A j \in 1..(k - 1) : Complete(j)
  /\ asked' = asked \cup {Order[k]}
  /\ UNCHANGED <<announced, launched, retired>>

Announce(n) ==
  /\ NodeRole[n] \in asked
  /\ n \notin announced
  /\ announced' = announced \cup {n}
  /\ UNCHANGED <<asked, launched, retired>>

DeclareLaunched ==
  /\ ~launched
  /\ \A k \in DOMAIN Order : Complete(k)
  /\ launched' = TRUE
  /\ UNCHANGED <<asked, announced, retired>>

RetireFirst ==
  /\ launched /\ ~retired
  /\ retired' = TRUE
  /\ UNCHANGED <<asked, announced, launched>>

ProtocolNext ==
  \/ \E k \in DOMAIN Order : Ask(k)
  \/ \E n \in Node : Announce(n)
  \/ DeclareLaunched
  \/ RetireFirst

ProtocolSpec == ProtocolInit /\ [][ProtocolNext]_protocolVars

=============================================================================
