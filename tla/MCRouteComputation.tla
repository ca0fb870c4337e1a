------------------------ MODULE MCRouteComputation ------------------------
(***************************************************************************)
(* A two-DC topology for the route computation.  Hosts h1, h2, h3; intra- *)
(* DC switches A (DC 1) and B (DC 2); DCI switches D1 and D2.  Every      *)
(* subset of the ten candidate lines is a topology file TLC starts from.  *)
(*   - A-D1-B is faster but narrower than A-D2-B (11 ns / 100 Gbps         *)
(*     against 13 ns / 400 Gbps): delay must win over bandwidth.           *)
(*   - A second D1-B line is parallel to the first (nbr2if keeps one).     *)
(*   - Host h3 joins A and B: a route through it would be shorter.         *)
(*   - D1-D2 gives longer-hop paths of less delay.                         *)
(***************************************************************************)
EXTENDS Integers

h1 == 0
h2 == 1
h3 == 2
A  == 3
B  == 4
D1 == 5
D2 == 6

MCNodes == 0 .. 6
MCNodeType == [n \in MCNodes |-> IF n \in {h1, h2, h3} THEN 0
                                 ELSE IF n \in {A, B} THEN 1 ELSE 2]

Line(s, d, delay, bw) == [src |-> s, dst |-> d, delay |-> delay, bw |-> bw]

MCCandLinks ==
    << Line(h1, A, 1, 400),  Line(h2, B, 1, 400),
       Line(A, D1, 1, 100),  Line(A, D2, 1, 400),
       Line(D1, B, 10, 400), Line(D2, B, 12, 400),
       Line(D1, B, 11, 100), Line(h3, A, 1, 100),
       Line(h3, B, 1, 100),  Line(D1, D2, 1, 400) >>

MCLinkDownPairs == {<<A, D1>>, <<D1, B>>, <<A, D2>>, <<h1, A>>, <<h1, B>>}

VARIABLES topo, nbr2if, devUp, nextHop, pairDelay, pairTxDelay, pairBw,
          table, pairRtt, maxRtt, linkDownDone

INSTANCE RouteComputation WITH Nodes <- MCNodes, NodeType <- MCNodeType,
    CandLinks <- MCCandLinks, PayloadBytes <- 1000, BwInf <- 1000000000,
    LinkDownPairs <- MCLinkDownPairs
=============================================================================
