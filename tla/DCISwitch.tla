----------------------------- MODULE DCISwitch -----------------------------
(***************************************************************************)
(* One DCI switch (DCISwitchNode, dci-switch-node-v2.cc) forwarding the    *)
(* packets of a set of flows.                                              *)
(*                                                                         *)
(* State of the switch: the routing table m_rtTable, the per-port          *)
(* congestion state m_congState and the flow-affinity table flow2outdev.   *)
(* State of its collaborators: the occupancy of every egress queue (the    *)
(* buffer), whether each port's link is up (the topology) and the clock.   *)
(*                                                                         *)
(* A packet arrival is one atomic step, SwitchReceiveFromDevice ->         *)
(* SendToDev -> GetOutDev, as in the single-threaded simulator: idle-flow  *)
(* eviction, the cost evaluation of every candidate (with the congestion   *)
(* sampling it triggers) and the cache update all happen in that step.     *)
(***************************************************************************)
EXTENDS CostModel, SequencesExt, Functions, TLC

CONSTANTS
    Ports,          \* egress device indices 1..GetNDevices()-1
    Dsts,           \* destination addresses (ch.dip)
    Routes,         \* m_rtTable as installed by SetRoutingEntries: Dsts -> Seq(Ports)
    Flows,          \* flow identities (the 5-tuple behind GenerateFlowId)
    FlowDst,        \* Flows -> Dsts: the destination of each flow
    FlowHash,       \* Flows -> Nat: EcmpHash(5-tuple, m_ecmpSeed)
    LinkDelayNs,    \* Ports -> Nat: m_linkDelay (ns)
    LinkBwGbps,     \* Ports -> Nat: m_linkBw / 1e9
    QueueRange,     \* Ports -> SUBSET Nat: occupancies the buffer may report
    Times,          \* the clock values (ms) events may happen at
    IdleTimeoutMs,  \* IDLE_TIMEOUT (2 s)
    RoutingMode,    \* m_routingMode: 0 ECMP, 1 UCMP, 2 cost-aware
    LinkFailure     \* whether a TakeDownLink event is scheduled (link_down_time > 0)

ASSUME RoutingMode \in {0, 1, 2}
ASSUME LinkFailure \in BOOLEAN
ASSUME \A d \in Dsts : Routes[d] \in Seq(Ports)
ASSUME \A p \in Ports : 0 \in QueueRange[p]
ASSUME 0 \in Times /\ Times \subseteq Nat

VARIABLES
    qlen,           \* dev->GetQueue()->GetNBytesTotal() for every port
    linkUp,         \* m_devices[p]->IsLinkUp()
    now,            \* Simulator::Now() in ms
    rtTable,        \* m_rtTable: Dsts -> Seq(Ports), <<>> when there is no entry
    cong,           \* m_congState: Ports -> CongestionState
    flow2outdev,    \* flow -> [outDevIdx, lastSeen] for the cached flows
    pktLog          \* history, not program state: flow -> [at, port] of its last routed packet

vars == <<qlen, linkUp, now, rtTable, cong, flow2outdev, pktLog>>

\* CongestionState with its default member initialisers.
CongInit == [cur |-> 0, prev |-> 0, trend |-> 0, dur |-> 0, last |-> 0]

NoEval == [p \in {} |-> 0]

TypeOK ==
    /\ \A p \in Ports : qlen[p] \in QueueRange[p]
    /\ linkUp \in [Ports -> BOOLEAN]
    /\ now \in Times
    /\ rtTable \in [Dsts -> Seq(Ports)]
    /\ \A p \in Ports :
          cong[p] \in [cur : QueueRange[p], prev : QueueRange[p], trend : Int,
                       dur : Nat, last : Times \cap 0..now]
    /\ DOMAIN flow2outdev \subseteq Flows
    /\ \A f \in DOMAIN flow2outdev :
          flow2outdev[f] \in [outDevIdx : Ports, lastSeen : 0..now]

Init ==
    /\ qlen = [p \in Ports |-> 0]
    /\ linkUp = [p \in Ports |-> TRUE]
    /\ now = 0
    /\ rtTable = Routes
    /\ cong = [p \in Ports |-> CongInit]
    /\ flow2outdev = << >>
    /\ pktLog = << >>

-----------------------------------------------------------------------------
(***************************************************************************)
(* Congestion sampling and candidate scoring.                              *)
(***************************************************************************)

\* MonitorCongestionState: for every port, queueBytes_cur <- queue length,
\* lastTrendSampleTime <- now, then UpdateTrend.
MonitorCongestionState(c) ==
    [p \in Ports |-> UpdateTrend([c[p] EXCEPT !.cur = qlen[p], !.last = now])]

\* interval_ms = (Now - lastTrendSampleTime).GetMilliSeconds(), at least 1.
IntervalMs(last) == IF now - last < 1 THEN 1 ELSE now - last

\* One iteration of the candidate loop of GetOutDev: static cost, then a
\* sampling of every port, the candidate's queue level and duration
\* counter update, its instantaneous and trend costs, and the total.
EvalCandidate(acc, p) ==
    LET cs  == StaticCost(LinkDelayNs[p], LinkBwGbps[p])
        c1  == MonitorCongestionState(acc.cong)
        ql  == CalcQLevel(c1[p].cur)
        c2  == [c1 EXCEPT ![p] = UpdateDurationPenalty(@, ql)]
        ci  == InstCost(ql, CalcDurationPenalty(c2[p].dur))
        ct  == CalcTrendLevel(c2[p].trend, LinkBwGbps[p], IntervalMs(c2[p].last))
        tot == TotalCost(cs, ci, ct)
    IN  [cong  |-> c2,
         pairs |-> Append(acc.pairs, <<tot, p>>),
         eval  |-> acc.eval @@ (p :> [cost |-> tot, trend |-> c2[p].trend,
                                      tc |-> ct])]

\* The whole loop over the next hops, in routing-table order.
Evaluate(cands) ==
    FoldLeft(EvalCandidate, [cong |-> cong, pairs |-> << >>, eval |-> NoEval],
             cands)

\* Seeded fault: the comparator reversed (descending costs).
PairGreater(a, b) == a[1] > b[1] \/ (a[1] = b[1] /\ a[2] > b[2])

\* std::sort of (total_cost, intf_idx) pairs: lexicographic ascending.
PairLess(a, b) == a[1] < b[1] \/ (a[1] = b[1] /\ a[2] < b[2])

\* half = size / 2; at least 1; raised to 2 when it is 1.
HalfSize(n) ==
    LET h == n \div 2 IN IF h < 1 THEN 1 ELSE IF h < 2 THEN 2 ELSE h

\* The port chosen for a new flow: hash-select among the cheapest half;
\* the least-cost candidate if that subset were empty.
SelectPort(f, pairs) ==
    LET sorted    == SortSeq(pairs, PairLess)
        available == [i \in 1..HalfSize(Len(sorted)) |-> sorted[i][2]]
    IN  IF available = << >> THEN sorted[1][2]
        ELSE available[(FlowHash[f] % Len(available)) + 1]

\* CleanIdleFlows: erase every entry idle for more than IDLE_TIMEOUT.
CleanIdleFlows(table) ==
    RestrictDomain(table, LAMBDA g : ~(now - table[g].lastSeen > IdleTimeoutMs))

-----------------------------------------------------------------------------
(***************************************************************************)
(* Packet arrival.                                                         *)
(***************************************************************************)

\* Seeded fault: a hit keeps the entry's old lastSeen.
GetOutDevCostNoRefresh(f, cands) ==
    LET table == CleanIdleFlows(flow2outdev) IN
    IF f \in DOMAIN table
    THEN /\ flow2outdev' = table
         /\ UNCHANGED cong
    ELSE LET ev  == Evaluate(cands)
             sel == SelectPort(f, ev.pairs)
         IN  /\ cong' = ev.cong
             /\ flow2outdev' = table @@ (f :> [outDevIdx |-> sel, lastSeen |-> now])

\* m_routingMode == 2: sweep idle entries; a new flow is scored and cached,
\* a cached flow is refreshed and keeps its port.
GetOutDevCost(f, cands) ==
    LET table == CleanIdleFlows(flow2outdev) IN
    IF f \in DOMAIN table
    THEN /\ flow2outdev' = [table EXCEPT ![f].lastSeen = now]
         /\ UNCHANGED cong
    ELSE LET ev  == Evaluate(cands)
             sel == SelectPort(f, ev.pairs)
         IN  /\ cong' = ev.cong
             /\ flow2outdev' = table @@ (f :> [outDevIdx |-> sel, lastSeen |-> now])

\* m_routingMode == 1: a new flow hashes among the maximum-bandwidth next
\* hops and is cached; a cached flow keeps its port.  No sweep, no refresh.
GetOutDevBw(f, cands) ==
    /\ UNCHANGED cong
    /\ IF f \in DOMAIN flow2outdev
       THEN UNCHANGED flow2outdev
       ELSE LET maxBw == Max({LinkBwGbps[cands[i]] : i \in DOMAIN cands})
                best  == SelectSeq(cands, LAMBDA p : LinkBwGbps[p] = maxBw)
                sel   == best[(FlowHash[f] % Len(best)) + 1]
            IN  flow2outdev' = flow2outdev @@ (f :> [outDevIdx |-> sel,
                                                     lastSeen |-> now])

\* Default ECMP: the port is nexthops[hash % size] of the current entry.
EcmpPort(f, cands) == cands[(FlowHash[f] % Len(cands)) + 1]

\* Nothing is cached, so the step changes no modelled state; the port it
\* returns is EcmpPort.
GetOutDevHash(f, cands) == UNCHANGED <<cong, flow2outdev>>

\* SwitchReceiveFromDevice -> SendToDev -> GetOutDev for a packet of f.
\* Without a routing entry GetOutDev returns -1 before any sweep and the
\* packet is dropped.  Otherwise it leaves on the returned port; ingress
\* and egress admission are decided by the buffer and change no state
\* modelled here.
RecvPacket(f) ==
    LET cands == rtTable[FlowDst[f]] IN
    /\ IF cands = << >>
       THEN UNCHANGED <<cong, flow2outdev>>
       ELSE IF RoutingMode = 2 THEN GetOutDevCost(f, cands)
       ELSE IF RoutingMode = 1 THEN GetOutDevBw(f, cands)
       ELSE GetOutDevHash(f, cands)
    /\ UNCHANGED <<qlen, linkUp, now, rtTable>>

(***************************************************************************)
(* Collaborators.                                                          *)
(***************************************************************************)

\* The buffer enqueues or dequeues on port p: its occupancy becomes b.
QueueChange(p, b) ==
    /\ b # qlen[p]
    /\ qlen' = [qlen EXCEPT ![p] = b]
    /\ UNCHANGED <<linkUp, now, rtTable, cong, flow2outdev>>

\* Simulated time passes until the next event, at time t.
Tick(t) ==
    /\ t > now
    /\ now' = t
    /\ UNCHANGED <<qlen, linkUp, rtTable, cong, flow2outdev>>

\* TakeDownLink for the link on port p, the single scheduled failure: the
\* link goes down and every routing table is cleared and rebuilt from a
\* fresh BFS.  For this switch the rebuilt table drops p from every entry
\* and keeps the order of the other next hops; the step is restricted to
\* links whose loss leaves every destination an equal-cost next hop (the
\* rebuild of a table that loses its last next hop is RouteComputation's).
\* The switch's flow2outdev and m_congState are not touched.
LinkDown(p) ==
    /\ LinkFailure
    /\ \A q \in Ports : linkUp[q]
    /\ \A d \in Dsts : rtTable[d] # << >> => SelectSeq(rtTable[d], LAMBDA q : q # p) # << >>
    /\ linkUp' = [linkUp EXCEPT ![p] = FALSE]
    /\ rtTable' = [d \in Dsts |-> SelectSeq(rtTable[d], LAMBDA q : q # p)]
    /\ UNCHANGED <<qlen, now, cong, flow2outdev>>

\* The history of the flows' own packets: when a routed packet of f was
\* last sent and on which port (the ECMP port in mode 0).
LogPacket(f) ==
    pktLog' = IF rtTable[FlowDst[f]] = << >> THEN pktLog
              ELSE LET port == IF RoutingMode = 0 THEN EcmpPort(f, rtTable[FlowDst[f]])
                               ELSE flow2outdev'[f].outDevIdx
                   IN  [g \in DOMAIN pktLog \cup {f} |->
                          IF g = f THEN [at |-> now, port |-> port] ELSE pktLog[g]]

Next ==
    \/ \E f \in Flows : RecvPacket(f) /\ LogPacket(f)
    \/ /\ \/ \E p \in Ports : \E b \in QueueRange[p] : QueueChange(p, b)
          \/ \E t \in Times : Tick(t)
          \/ \E p \in Ports : LinkDown(p)
       /\ UNCHANGED pktLog

\* Packets keep arriving: eviction is lazy and only a packet triggers it.
Fairness == WF_vars(\E f \in Flows : RecvPacket(f) /\ LogPacket(f))

Spec == Init /\ [][Next]_vars /\ Fairness

-----------------------------------------------------------------------------
(***************************************************************************)
(* Properties.                                                             *)
(***************************************************************************)

\* An entry of flow g that the next sweep keeps.
Fresh(g) == g \in DOMAIN flow2outdev /\ ~(now - flow2outdev[g].lastSeen > IdleTimeoutMs)

\* An entry of flow g idle for longer than IDLE_TIMEOUT.
Idle(g) == g \in DOMAIN flow2outdev /\ now - flow2outdev[g].lastSeen > IdleTimeoutMs

\* A packet of f is decided afresh at this step (m_routingMode == 2): it
\* has a route and no entry the sweep keeps.
NewFlow(f) == rtTable[FlowDst[f]] # << >> /\ ~Fresh(f)

\* The candidate evaluation a new flow of f triggers from the current state.
EvalOf(f) == Evaluate(rtTable[FlowDst[f]]).eval

\* Flow affinity (spec sections 4.4 and 8), about the lookup, the refresh
\* of lastSeen and the CleanIdleFlows sweep of GetOutDev, whichever flow's
\* packet runs it: a flow whose packets are never more than IDLE_TIMEOUT
\* apart stays on the port its previous packet took, as long as that port
\* is still a next hop of its destination.  Stated over the flow's own
\* packet history, not over the cache entry.
FlowKeepsPath ==
    [][\A f \in Flows :
         /\ RecvPacket(f)
         /\ f \in DOMAIN pktLog
         /\ now - pktLog[f].at <= IdleTimeoutMs
         /\ \E i \in DOMAIN rtTable[FlowDst[f]] : rtTable[FlowDst[f]][i] = pktLog[f].port
         => pktLog'[f].port = pktLog[f].port
      ]_vars

\* Congestion avoidance (spec section 8, end-to-end scenario), about the
\* scoring loop and the low-cost subset of GetOutDev: a new flow is never
\* placed on a next hop whose queue is at the high-water level (queue
\* level >= 80% of 255) when at least max(2, n/2) of the other n
\* candidates have an empty queue and no worse static cost.
CongestionAvoided ==
    [][\A f \in Flows :
         RecvPacket(f) /\ NewFlow(f) =>
           LET cands == rtTable[FlowDst[f]]
               Calm(p) == {q \in ToSet(cands) \ {p} :
                             /\ qlen[q] = 0
                             /\ StaticCost(LinkDelayNs[q], LinkBwGbps[q])
                                  <= StaticCost(LinkDelayNs[p], LinkBwGbps[p])}
           IN  \A p \in ToSet(cands) :
                 /\ CalcQLevel(qlen[p]) >= 204
                 /\ Cardinality(Calm(p)) >= Max({2, Len(cands) \div 2})
                 => flow2outdev'[f].outDevIdx # p
      ]_vars

\* Idle entries do not stay: an entry idle beyond the timeout is eventually
\* evicted or refreshed, given that packets keep arriving (spec section
\* 4.4, "this bounds table size").  About CleanIdleFlows and its call on
\* every packet.
IdleFlowsEvicted == \A f \in Flows : Idle(f) ~> ~Idle(f)

\* A flow whose next packet leaves on a stored port without a new
\* decision: a fresh entry (mode 2, after the sweep) or any entry (mode 1).
Pinned(f) ==
    IF RoutingMode = 2 THEN Fresh(f)
    ELSE RoutingMode = 1 /\ f \in DOMAIN flow2outdev

\* The port the next packet of f leaves on, where no new decision is made:
\* the ECMP hash over the current next hops (mode 0) or the stored port.
NextOutDev(f) ==
    IF RoutingMode = 0 THEN EcmpPort(f, rtTable[FlowDst[f]])
    ELSE flow2outdev[f].outDevIdx

\* Link failure (spec section 8): the next packet of every routed flow
\* leaves on a port whose link is up and that is a next hop of its
\* destination in the current routing table.  About the port GetOutDev
\* returns (the cached outDevIdx or the ECMP hash), the NS_ASSERT of
\* SendToDev and TakeDownLink, which rebuilds the routing tables only.
ForwardOnRoute ==
    \A f \in Flows :
        rtTable[FlowDst[f]] # << >> /\ (RoutingMode = 0 \/ Pinned(f)) =>
            /\ linkUp[NextOutDev(f)]
            /\ Contains(rtTable[FlowDst[f]], NextOutDev(f))

\* Scoring is a function of a port's state (spec sections 4.2 and 9): two
\* candidates with the same link attributes, the same congestion state and
\* the same queue occupancy when a new flow arrives get the same total
\* cost.  About the MonitorCongestionState call inside the candidate loop.
PositionIndependentCost ==
    [][\A f \in Flows :
         RecvPacket(f) /\ NewFlow(f) =>
           \A p, q \in DOMAIN EvalOf(f) :
             /\ LinkDelayNs[p] = LinkDelayNs[q]
             /\ LinkBwGbps[p] = LinkBwGbps[q]
             /\ cong[p] = cong[q]
             /\ qlen[p] = qlen[q]
             => EvalOf(f)[p].cost = EvalOf(f)[q].cost
      ]_vars

\* The trend level the spec describes (section 4.3): the trend graded
\* against the per-ms thresholds scaled by the sampling interval, that is
\* trend / interval against the thresholds (exact in integers, and free
\* of the 32-bit products the code would form for long intervals).
SpecTrendLevel(trend, gbps, intervalMs) ==
    IF trend <= 0 THEN 0
    ELSE TopClass(LAMBDA i : trend \div intervalMs >= TrendThresh(gbps, i), 0)

\* The trend cost is rate-independent (spec section 4.3): the smoothed
\* trend is graded against the per-ms thresholds scaled by the time
\* elapsed since the port's previous sample (at least 1 ms).  About
\* CalcTrendLevel reading lastTrendSampleTime.
TrendNormalized ==
    [][\A f \in Flows :
         RecvPacket(f) /\ NewFlow(f) =>
           \A p \in DOMAIN EvalOf(f) :
             EvalOf(f)[p].tc =
               SpecTrendLevel(EvalOf(f)[p].trend, LinkBwGbps[p],
                              Max({1, now - cong[p].last}))
      ]_vars

=============================================================================
