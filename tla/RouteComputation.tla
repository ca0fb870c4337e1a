-------------------------- MODULE RouteComputation --------------------------
(***************************************************************************)
(* The routing of the scenario driver (scratch/third.cc): the neighbour   *)
(* map nbr2if built from the topology file, the breadth-first search of   *)
(* CalculateRoute over path variants, CalculateRoutes, SetRoutingEntries, *)
(* the start-up RTT table and TakeDownLink.                               *)
(*                                                                         *)
(* Nodes are numbered by id; a std::map keyed by Ptr<Node> is walked in   *)
(* id order (nodes are allocated in id order).  Delays are in ns and      *)
(* bandwidths in Gbps, so payload * 8e9 / bw is payload * 8 \div bw.      *)
(***************************************************************************)
EXTENDS Integers, Sequences, SequencesExt, FiniteSets, FiniteSetsExt, Functions

CONSTANTS Nodes,          \* node ids
          NodeType,       \* 0 host, 1 intra-DC switch, 2 DCI switch
          CandLinks,      \* the lines a topology file may hold, in file order
          PayloadBytes,   \* packet_payload_size
          BwInf,          \* UINT64_MAX, the bandwidth of the empty path
          LinkDownPairs   \* the (link_down_A, link_down_B) a config may name

ASSUME \A k \in DOMAIN CandLinks : CandLinks[k].src # CandLinks[k].dst

VARIABLES topo,         \* the lines of the topology file that was read
          nbr2if,       \* nbr2if[n][m]: [idx, up, delay, bw]
          devUp,        \* the <<node, ifIndex>> devices that are not taken down
          nextHop,      \* nextHop[n][h]: next hops of n towards host h
          pairDelay,    \* pairDelay[n][h]
          pairTxDelay,  \* pairTxDelay[n][h]
          pairBw,       \* pairBw[n][h]
          table,        \* the routing table of node n: host -> interfaces
          pairRtt,      \* pairRtt[i][j] of every host pair, set at start-up
          maxRtt,
          linkDownDone  \* the scheduled TakeDownLink event has run

vars == <<topo, nbr2if, devUp, nextHop, pairDelay, pairTxDelay, pairBw,
          table, pairRtt, maxRtt, linkDownDone>>

Hosts == {n \in Nodes : NodeType[n] = 0}
IsSwitch(n) == NodeType[n] \in {1, 2}
Ends(k) == {CandLinks[k].src, CandLinks[k].dst}
Empty == [x \in {} |-> 0]

-----------------------------------------------------------------------------
(* Topology set-up: qbb.Install adds one device at each end of a line.    *)
(* Device 0 of every node is the loopback of the Internet stack, so the   *)
(* k-th device installed on a node has ifIndex k.                         *)
IfIdxFromZero(T, k, n) == Cardinality({j \in T : j < k /\ n \in Ends(j)})
IfIdx(T, k, n) == 1 + Cardinality({j \in T : j < k /\ n \in Ends(j)})

(* nbr2if is keyed by neighbour: a later line between the same two nodes  *)
(* overwrites the entry of an earlier one.                                *)
Nbr2IfOf(T) ==
    [n \in Nodes |->
       LET nb == {m \in Nodes : \E k \in T : Ends(k) = {n, m}}
       IN  [m \in nb |->
              LET k == Max({j \in T : Ends(j) = {n, m}})
              IN  [idx |-> IfIdx(T, k, n), up |-> TRUE,
                   delay |-> CandLinks[k].delay, bw |-> CandLinks[k].bw]]]

Devices(T) == UNION {{<<n, IfIdx(T, k, n)>> : n \in Ends(k)} : k \in T}

-----------------------------------------------------------------------------
(* CalculateRoute(host).  The BFS state: the queue q, dis (hop count),    *)
(* the path variants of every node (the path's node list is not kept:     *)
(* nothing reads it) and the next hops towards host.                      *)
TxDelay(bw) == (PayloadBytes * 8) \div bw

Extend(P, ifc) ==
    [i \in DOMAIN P |->
       [delay |-> P[i].delay + ifc.delay,
        tx    |-> P[i].tx + TxDelay(ifc.bw),
        bw    |-> IF P[i].bw < ifc.bw THEN P[i].bw ELSE ifc.bw]]

(* The loop over the path variants of now, for one up neighbour next.     *)
(* The first variant that reaches an unvisited next visits it (and adds   *)
(* now as its first next hop); the others take the equal-distance branch, *)
(* so every variant of now is appended and now is added once.             *)
VisitFirstOnly(st, now, next, ifc) ==
    IF next \notin DOMAIN st.dis
    THEN [q     |-> IF IsSwitch(next) THEN Append(st.q, next) ELSE st.q,
          dis   |-> st.dis @@ (next :> st.dis[now] + 1),
          paths |-> st.paths @@ (next :> Extend(st.paths[now], ifc)),
          nh    |-> st.nh @@ (next :> <<now>>)]
    ELSE st

VisitNoDedup(st, now, next, ifc) ==
    LET P == Extend(st.paths[now], ifc)
        copies == [i \in DOMAIN P |-> now]
    IN  IF next \notin DOMAIN st.dis
        THEN [q     |-> IF IsSwitch(next) THEN Append(st.q, next) ELSE st.q,
              dis   |-> st.dis @@ (next :> st.dis[now] + 1),
              paths |-> st.paths @@ (next :> P),
              nh    |-> st.nh @@ (next :> copies)]
        ELSE IF st.dis[next] = st.dis[now] + 1
        THEN [st EXCEPT !.paths[next] = @ \o P, !.nh[next] = @ \o copies]
        ELSE st

Visit(st, now, next, ifc) ==
    IF next \notin DOMAIN st.dis
    THEN [q     |-> IF IsSwitch(next) THEN Append(st.q, next) ELSE st.q,
          dis   |-> st.dis @@ (next :> st.dis[now] + 1),
          paths |-> st.paths @@ (next :> Extend(st.paths[now], ifc)),
          nh    |-> st.nh @@ (next :> <<now>>)]
    ELSE IF st.dis[next] = st.dis[now] + 1
    THEN [st EXCEPT !.paths[next] = @ \o Extend(st.paths[now], ifc),
                    !.nh[next]    = IF Contains(@, now) THEN @ ELSE Append(@, now)]
    ELSE st

(* One dequeued node: its neighbours in map order, skipping links down.   *)
Expand(nbr, st, now) ==
    LET step(acc, m) == IF nbr[now][m].up THEN Visit(acc, now, m, nbr[now][m])
                                          ELSE acc
    IN  FoldLeft(step, st, SetToSortSeq(DOMAIN nbr[now], <))

RECURSIVE BFS(_, _, _)
BFS(nbr, st, i) ==
    IF i > Len(st.q) THEN st ELSE BFS(nbr, Expand(nbr, st, st.q[i]), i + 1)

CalculateRoute(nbr, host) ==
    BFS(nbr, [q |-> <<host>>, dis |-> host :> 0,
              paths |-> host :> <<[delay |-> 0, tx |-> 0, bw |-> BwInf]>>,
              nh |-> Empty], 1)

(* The reduction after the BFS: the minimum delay, then the largest       *)
(* bandwidth among the variants of that delay; the first such variant     *)
(* gives txDelay (the comparison is a strict >).                          *)
BestPathMaxBw(P) ==
    LET best == SelectInSeq(P, LAMBDA p : p.bw = Max({P[i].bw : i \in DOMAIN P}))
    IN  [delay |-> Min({P[i].delay : i \in DOMAIN P}), tx |-> P[best].tx,
         bw |-> P[best].bw]

BestPath(P) ==
    LET minDelay == Min({P[i].delay : i \in DOMAIN P})
        maxBw    == Max({P[i].bw : i \in {j \in DOMAIN P : P[j].delay = minDelay}})
        best     == SelectInSeq(P, LAMBDA p : p.delay = minDelay /\ p.bw = maxBw)
    IN  [delay |-> minDelay, tx |-> P[best].tx, bw |-> maxBw]

(* CalculateRoutes: one BFS per host.  nextHop is rebuilt from empty; the *)
(* pair metrics are only written for the nodes a BFS reaches.             *)
CalculateRoutes(nbr) == [h \in Hosts |-> CalculateRoute(nbr, h)]

NextHopOf(R) ==
    [n \in Nodes |-> [h \in Hosts |->
        IF n \in DOMAIN R[h].nh THEN R[h].nh[n] ELSE << >>]]

MetricOf(R, old, f) ==
    [n \in Nodes |-> [h \in Hosts |->
        IF n \in DOMAIN R[h].paths THEN BestPath(R[h].paths[n])[f] ELSE old[n][h]]]

(* SetRoutingEntries after ClearTable: one AddTableEntry (push_back) per  *)
(* next hop, the interface being nbr2if[node][next].idx.                  *)
SetRoutingEntries(nbr, nh) ==
    [n \in Nodes |-> [h \in Hosts |->
        [k \in DOMAIN nh[n][h] |-> nbr[n][nh[n][h][k]].idx]]]

-----------------------------------------------------------------------------
(* The state after start-up: the links, CalculateRoutes, SetRoutingEntries *)
(* and the RTT table (pair maps read with operator[] default to 0).       *)
Init ==
    /\ topo \in SUBSET DOMAIN CandLinks
    /\ nbr2if = Nbr2IfOf(topo)
    /\ devUp = Devices(topo)
    /\ nextHop = NextHopOf(CalculateRoutes(nbr2if))
    /\ LET R == CalculateRoutes(nbr2if)
           zero == [n \in Nodes |-> [h \in Hosts |-> 0]]
       IN  /\ pairDelay = MetricOf(R, zero, "delay")
           /\ pairTxDelay = MetricOf(R, zero, "tx")
           /\ pairBw = MetricOf(R, zero, "bw")
    /\ table = SetRoutingEntries(nbr2if, nextHop)
    /\ pairRtt = [i \in Hosts |-> [j \in Hosts |->
                    pairDelay[i][j] * 2 + pairTxDelay[i][j]]]
    /\ maxRtt = Max({pairRtt[i][j] : i, j \in Hosts})
    /\ linkDownDone = FALSE

(* TakeDownLink(a, b), scheduled once.  When the pair is not an up link   *)
(* it returns at once.  Otherwise both directions go down, the routes are *)
(* recomputed, every table is cleared, both devices are taken down and    *)
(* the tables are set again.  pairRtt and maxRtt are not recomputed.      *)
(* RedistributeQp on the hosts belongs to the RDMA stack, not modelled.   *)
TakeDownLinkNoop(a, b) ==
    /\ ~linkDownDone
    /\ ~(b \in DOMAIN nbr2if[a] /\ nbr2if[a][b].up)
    /\ linkDownDone' = TRUE
    /\ UNCHANGED <<topo, nbr2if, devUp, nextHop, pairDelay, pairTxDelay,
                   pairBw, table, pairRtt, maxRtt>>

TakeDownLinkOneWay(a, b) ==
    /\ ~linkDownDone
    /\ b \in DOMAIN nbr2if[a] /\ nbr2if[a][b].up
    /\ nbr2if' = [nbr2if EXCEPT ![a][b].up = FALSE]
    /\ LET R == CalculateRoutes(nbr2if')
       IN  /\ nextHop' = NextHopOf(R)
           /\ pairDelay' = MetricOf(R, pairDelay, "delay")
           /\ pairTxDelay' = MetricOf(R, pairTxDelay, "tx")
           /\ pairBw' = MetricOf(R, pairBw, "bw")
    /\ devUp' = devUp \ {<<a, nbr2if[a][b].idx>>, <<b, nbr2if[b][a].idx>>}
    /\ table' = SetRoutingEntries(nbr2if', nextHop')
    /\ linkDownDone' = TRUE
    /\ UNCHANGED <<topo, pairRtt, maxRtt>>

TakeDownLink(a, b) ==
    /\ ~linkDownDone
    /\ b \in DOMAIN nbr2if[a] /\ nbr2if[a][b].up
    /\ nbr2if' = [nbr2if EXCEPT ![a][b].up = FALSE, ![b][a].up = FALSE]
    /\ LET R == CalculateRoutes(nbr2if')
       IN  /\ nextHop' = NextHopOf(R)
           /\ pairDelay' = MetricOf(R, pairDelay, "delay")
           /\ pairTxDelay' = MetricOf(R, pairTxDelay, "tx")
           /\ pairBw' = MetricOf(R, pairBw, "bw")
    /\ devUp' = devUp \ {<<a, nbr2if[a][b].idx>>, <<b, nbr2if[b][a].idx>>}
    /\ table' = SetRoutingEntries(nbr2if', nextHop')
    /\ linkDownDone' = TRUE
    /\ UNCHANGED <<topo, pairRtt, maxRtt>>

Next == \E e \in LinkDownPairs : TakeDownLink(e[1], e[2]) \/ TakeDownLinkNoop(e[1], e[2])

Spec == Init /\ [][Next]_vars

-----------------------------------------------------------------------------
(* Properties. *)

Ifaces == 1 .. Len(CandLinks)

(* Every routing entry names a real interface (not the loopback 0) and    *)
(* every metric is defined for every pair.                                *)
TypeOK ==
    /\ topo \subseteq DOMAIN CandLinks
    /\ table \in [Nodes -> [Hosts -> Seq(Ifaces)]]
    /\ nextHop \in [Nodes -> [Hosts -> Seq(Nodes)]]
    /\ \A n \in Nodes, h \in Hosts : pairDelay[n][h] \in Nat /\ pairBw[n][h] \in Nat
    /\ linkDownDone \in BOOLEAN

(* The up adjacencies of nbr2if, as the abstract specification sees them. *)
UpLinks == {<<n, m>> \in Nodes \X Nodes : m \in DOMAIN nbr2if[n] /\ nbr2if[n][m].up}

(* The neighbour an interface of n leads to (nbr2if has one per neighbour). *)
IfNeighbour(n, i) == CHOOSE m \in DOMAIN nbr2if[n] : nbr2if[n][m].idx = i

Abs == INSTANCE RoutingSpec
         WITH Switches <- {n \in Nodes : IsSwitch(n)},
              links <- UpLinks,
              routes <- [n \in Nodes |-> [h \in Hosts |->
                           {IfNeighbour(n, table[n][h][k]) : k \in DOMAIN table[n][h]}]]

(* Refinement: the interface tables SetRoutingEntries installs from the   *)
(* BFS of CalculateRoutes hold, at start-up and after TakeDownLink,       *)
(* exactly the neighbours on a fewest-hop path over the up links that     *)
(* relays only at switches, and the rebuild is one atomic step.           *)
AbsSpec == Abs!Spec

(* The metrics of a reachable pair (PathMetric of the design): among the  *)
(* fewest-hop paths, pairDelay is the least delay and pairBw the largest  *)
(* bottleneck among the paths of that delay, pairTxDelay the tx delay of  *)
(* one of those; the path-variant BFS and its reduction must agree.       *)
PathMetrics(n, h) ==
    {[delay |-> FoldLeft(LAMBDA acc, i : acc + nbr2if[p[i+1]][p[i]].delay, 0, [i \in 1..Len(p)-1 |-> i]),
      tx    |-> FoldLeft(LAMBDA acc, i : acc + TxDelay(nbr2if[p[i+1]][p[i]].bw), 0, [i \in 1..Len(p)-1 |-> i]),
      bw    |-> Min({BwInf} \cup {nbr2if[p[i+1]][p[i]].bw : i \in 1..Len(p)-1})]
       : p \in Abs!ShortestPaths(UpLinks, n, h)}

MetricsMatchReference ==
    \A n \in Nodes, h \in Hosts :
        LET M == PathMetrics(n, h)
            d == Min({m.delay : m \in M})
            b == Max({m.bw : m \in {m \in M : m.delay = d}})
        IN  M # {} =>
              /\ pairDelay[n][h] = d
              /\ pairBw[n][h] = b
              /\ \E m \in M : m.delay = d /\ m.bw = b /\ m.tx = pairTxDelay[n][h]

(* A table entry lists each next hop once, so the hash of an ECMP or     *)
(* cost-aware switch weighs the next hops equally: a node reached by      *)
(* several path variants of the same predecessor adds it only once.       *)
NoDuplicateNextHop ==
    \A n \in Nodes, h \in Hosts : IsInjective(table[n][h])

(* TakeDownLink seen from an end of the failed link, as DCISwitch models  *)
(* it: while some of its next hops towards a host survive, the rebuilt    *)
(* entry is the old one without the failed interface, in the old order   *)
(* (the order decides the hash choice and the sampling order).            *)
LinkDownShrinksOwnTable ==
    [][\A e \in LinkDownPairs :
         TakeDownLink(e[1], e[2]) =>
           \A n \in {e[1], e[2]}, h \in Hosts :
             LET gone == nbr2if[n][IF n = e[1] THEN e[2] ELSE e[1]].idx
                 kept == SelectSeq(table[n][h], LAMBDA i : i # gone)
             IN  kept # << >> => table'[n][h] = kept]_vars

(* Two nodes joined by a line whose devices are both up stay neighbours   *)
(* in the routing graph: taking down one of several parallel links must   *)
(* leave the others in use (the parallel-link test of the design).        *)
AdjacencyFollowsDevices ==
    \A k \in topo :
        LET a == CandLinks[k].src  b == CandLinks[k].dst
        IN  {<<a, IfIdx(topo, k, a)>>, <<b, IfIdx(topo, k, b)>>} \subseteq devUp
              => nbr2if[a][b].up

(* pairRtt, the base RTT qp_finish reads with the recomputed pairBw, is   *)
(* the RTT of the current path metric: 2 * pairDelay + pairTxDelay.       *)
RttMatchesMetric ==
    \A i, j \in Hosts : pairRtt[i][j] = pairDelay[i][j] * 2 + pairTxDelay[i][j]
=============================================================================
