---------------------------- MODULE RoutingSpec ----------------------------
(***************************************************************************)
(* What the route computation of the scenario driver promises (the Route  *)
(* Computation Engine and the RouteTable of the design).  Every node's    *)
(* table towards every host holds exactly the neighbours that lie on a    *)
(* path of fewest hops to that host over the links that are up, where     *)
(* only switches relay (a host is never a middle point).  A link failure  *)
(* takes one link down in both directions and rebuilds every table in the *)
(* same step: no table is ever seen half rebuilt.                         *)
(***************************************************************************)
EXTENDS Integers, Sequences, SequencesExt, FiniteSets

CONSTANTS Nodes,      \* every node of the topology
          Hosts,      \* the route end points
          Switches    \* the nodes that relay (intra-DC and DCI switches)

VARIABLES links,      \* the up adjacencies, as ordered pairs in both directions
          routes      \* routes[n][h]: the next hops of n towards host h

vars == <<links, routes>>

(* The simple paths that extend p to h over the adjacencies L, relaying   *)
(* only at switches.  Bounded by the number of nodes, so finite.          *)
RECURSIVE PathsTo(_, _, _)
PathsTo(L, p, h) ==
    IF Last(p) = h THEN {p}
    ELSE IF Len(p) > 1 /\ Last(p) \notin Switches THEN {}
    ELSE UNION {PathsTo(L, Append(p, m), h) :
                  m \in {m \in Nodes \ ToSet(p) : <<Last(p), m>> \in L}}

ShortestPaths(L, n, h) ==
    LET P == PathsTo(L, <<n>>, h)
    IN  {p \in P : \A q \in P : Len(p) <= Len(q)}

NextHops(L, n, h) ==
    IF n = h THEN {} ELSE {p[2] : p \in ShortestPaths(L, n, h)}

Routes(L) == [n \in Nodes |-> [h \in Hosts |-> NextHops(L, n, h)]]

Symmetric(L) == \A e \in L : <<e[2], e[1]>> \in L

TypeOK ==
    /\ links \subseteq Nodes \X Nodes
    /\ routes \in [Nodes -> [Hosts -> SUBSET Nodes]]

Init ==
    /\ links \in SUBSET (Nodes \X Nodes)
    /\ Symmetric(links)
    /\ routes = Routes(links)

(* One link fails and every table is rebuilt from the remaining links.    *)
LinkFail(a, b) ==
    /\ <<a, b>> \in links
    /\ links' = links \ {<<a, b>>, <<b, a>>}
    /\ routes' = Routes(links')

Next == \E e \in links : LinkFail(e[1], e[2])

Spec == Init /\ [][Next]_vars
=============================================================================
