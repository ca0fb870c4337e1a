# TLA+ models of the LCMP DCI switch simulator

This directory holds TLA+ models of the simulator's routing and forwarding core:
- the load-aware path selection in the DCI switch (`src/simulation/src/point-to-point/model/dci-switch-node-v2.cc` and `dci-switch-node.h`);
- the route computation, link failure and flow scheduling of the scenario driver (`src/simulation/scratch/third.cc`);
- the point-to-point channel (`src/simulation/src/point-to-point/model/qbb-channel.cc`), composed with the switch's egress path (admission, PFC, dequeue).

Every module is checked with TLC. `PROJECT.json` lists the components, the runs, the seeded faults, the line map to the source, the findings and the hazards.

## The system

| Part | Code | State | Operations |
|---|---|---|---|
| Cost functions | `DCISwitchNode()` tables, `CalcDelayCost`, `CalcBwCost`, `CalcQLevel`, `CalcTrendLevel`, `UpdateTrend`, `UpdateDurationPenalty`, `CalcDurationPenalty`, `clamp_uint8` | the constant tables `m_bw_thresh`, `qThresh` (uint32), `levelScore`, `trendThreshNorm` | pure functions to 8-bit scores |
| Congestion monitor | `MonitorCongestionState`, `m_congState` | per port: `queueBytes_cur/prev`, `trend` (int32), `durCounter` (uint32), `lastTrendSampleTime` | one sample of every port |
| Path selector | `GetOutDev` | `m_rtTable` (dst → next hops), `flow2outdev` (flow → port, lastSeen), `m_routingMode` | mode 2 cost-aware; mode 1 UCMP; mode 0 ECMP |
| Forwarding | `SwitchReceiveFromDevice`, `SendToDev`, `CheckAndSendPfc`, `CheckAndSendResume`, `SwitchNotifyDequeue` | the MMU's ingress/egress counters and pause flags, `m_bytes`, `m_txBytes`, the egress queues | lookup, assert that the link is up, qIndex, admission or drop, PFC pause, enqueue; on dequeue release, PFC resume, tx count |
| Topology setup | `main` (third.cc), lines 1296–1351 and 1542–1582 | `nbr2if` (per node, keyed by neighbour), the devices, `pairRtt`, `maxRtt` | one interface per line, metrics from the first route computation |
| Route computation | `CalculateRoute`, `CalculateRoutes`, `SetRoutingEntries` (third.cc) | `nextHop`, `pairDelay`, `pairTxDelay`, `pairBw`, every node's routing table | BFS over path variants, reduction to one metric, table install |
| Link failure | `TakeDownLink` (third.cc) | `nbr2if[a][b].up`, the two devices | down, recompute, clear, reinstall |
| Channel | `QbbChannel` (`Attach`, `TransmitStart`, the flow trace) | the two half-links, the static trace set and files | delivery after txTime + delay |
| Flow scheduling and lifecycle | `ReadFlowInput`, `ScheduleFlowInputs`, `qp_finish`, `monitor_buffer`, `periodic_monitoring`, `main` step 8 and `Simulator::Run` | `flow_input`, `flow_num`, `completed_flows`, the event list | start flows at their time, count completions, stop, self-rescheduling monitors |

How the parts interact:
- A packet arriving at the switch runs `SwitchReceiveFromDevice → SendToDev → GetOutDev` to completion. The simulator is a single-threaded discrete-event loop.
- In mode 2, `GetOutDev` first sweeps idle flows (`CleanIdleFlows`).
  - A cached flow has its `lastSeen` refreshed and keeps its port.
  - A new flow is scored candidate by candidate. Every iteration calls `MonitorCongestionState`, which samples all ports. The `(cost, port)` pairs are then sorted, the cheapest half kept (at least 2), one chosen by hash and the choice cached.
- `TakeDownLink` rebuilds every routing table. It never touches a switch's `flow2outdev` or `m_congState`.
- The route computation runs once in `main` and again in every `TakeDownLink`. `SetRoutingEntries` turns its next-hop nodes into interface indices through `nbr2if`.
- A routed packet below priority 0 is charged to the MMU (ingress port and egress port) or dropped, and may make the switch pause its ingress port (PFC). When the egress device dequeues it, `SwitchNotifyDequeue` releases the charge and may resume the ingress port; the device then hands it to the channel.
- The channel carries every packet between two devices. `TransmitStart` picks the half-link of the sender and schedules `Receive` at the far end.
- The driver reads the flow file while the simulation runs. Each flow's completion (`qp_finish`) is counted, and the last one stops the simulator. The two monitors reschedule themselves, and `TakeDownLink` is one more scheduled event.

The behaviours that make this code hard to test:
- the order of the sampling calls within one decision;
- the cache surviving a routing change;
- the idle-timeout boundary on a sweep triggered by another flow's packet;
- fixed-width arithmetic in the threshold tables;
- a saturated port competing with calm ones in the low-cost subset.

## Modules

### `CostModel.tla`: the cost functions

- The constructor's tables are operators.
  - `BwThresh`, `LevelScore` and `TrendThresh` are the tables the constructor builds.
  - `QThresh256` keeps the `uint32_t` truncation of `qThresh`. It works in units of 256 bytes so that `5e9 * i / 10 mod 2^32` is exact in TLC's 32-bit integers.
- Every function is translated with C++ arithmetic.
  - Integer division truncates.
  - `>> k` on the signed trend is floor division (`\div`).
  - `TopClass` is the "highest class reached" loop shared by the three graded scores.
- `StaticCost`, `InstCost` and `TotalCost` are the weighted sums of the `GetOutDev` loop. They use the hard-coded weights (3/1/>>2, 3/1/>>2, 4/2/2/>>3).
- `MCCostModel.tla` holds one input per function. Every step replaces one input by another value of its set, so an action property compares a function at two inputs. The input sets hold the class boundaries of every table.

### `DCISwitch.tla`: one DCI switch

Constants:
- `Ports` and `Dsts`.
- `Routes`: the table `SetRoutingEntries` installs.
- `Flows`, `FlowDst` and `FlowHash`. `FlowHash` is `EcmpHash` of the 5-tuple, a per-flow constant.
- `LinkDelayNs` and `LinkBwGbps`.
- `QueueRange`: the occupancies the buffer may report per port.
- `Times`: the clock values events happen at.
- `IdleTimeoutMs`, `RoutingMode`, and `LinkFailure` (whether the scenario schedules `TakeDownLink`).

Variables:
- `qlen` and `linkUp`: the devices.
- `now`: the clock.
- `rtTable`, `cong` and `flow2outdev`: the switch's own state.
- `pktLog`: a history variable, not program state. `LogPacket(f)` records, with every routed packet of `f`, its time and its port. Only `FlowKeepsPath` reads it.

Actions:
- `RecvPacket(f)` is the whole of `SendToDev`/`GetOutDev` for one packet of `f`.
  - Without a route it drops the packet.
  - Otherwise mode 2 takes `GetOutDevCost`: sweep, then refresh, or score, select and cache.
  - Mode 1 takes `GetOutDevBw`: cache on the first packet only. There is no sweep and no refresh.
  - Mode 0 takes `GetOutDevHash`: no state.
  - The scoring loop is `Evaluate`, a `FoldLeft` of `EvalCandidate` over the next hops in table order. Each iteration applies `MonitorCongestionState` to all ports before scoring its candidate, as line 188 does.
  - `SelectPort` is the sort (`PairLess`), the `HalfSize` rule and the hash. It also has the unreachable least-cost fallback.
  - The port the next packet of a flow leaves on without a new decision is `NextOutDev(f)`: the stored port of a `Pinned` flow, or `EcmpPort` over the current entry.
- `QueueChange(p, b)`: the buffer changes a port's occupancy.
- `Tick(t)`: time passes.
- `LinkDown(p)`: `TakeDownLink` of a switch uplink, the single scheduled failure.
  - The link goes down and every routing entry loses `p`.
  - `flow2outdev` and `cong` are kept.
  - The step is restricted to links whose loss leaves every destination a next hop. With equal-cost uplinks the recomputed table is then exactly the old one without `p`. Losing a destination's last uplink would need the route computation.

`MCDCISwitch.tla` is the switch under test:
- Three uplinks.
  - Ports 1 and 2 are 100 Gbps with 10 ms of delay.
  - Port 3 is 400 Gbps with 12 ms of delay.
- Two destinations: `d1` is reached over ports 1, 2 and 3, and `d2` over ports 2 and 3. So the cheapest-half rule both drops a candidate (three candidates) and keeps them all (two).
- Two flows, one per destination. `f1` has an even hash and `f2` an odd one, so both positions of a two-port subset are taken.
- Clock values {0, 1, 2000, 2001}. They put an entry's idle time on both sides of the strict 2 s boundary.
- Per-run occupancies for ports 1 and 2:
  - 300 MB is above the wrapped top threshold.
  - 10.4 MB is a jump whose smoothed trend (1.3 MB/ms) reaches the first 100 Gbps trend class once and falls below it after one more smoothing step.

### `RoutingSpec.tla`: what routing promises (abstract)

- Variables: `links`, the up adjacencies as ordered pairs in both directions; `routes[n][h]`, the next-hop nodes of `n` towards host `h`.
- `Routes(L)` gives every node, towards every host, the second node of each path of fewest hops over `L`. Only switches relay, so a host is never a middle point. `PathsTo` is a RECURSIVE enumeration of simple paths.
- `LinkFail(a, b)` removes one link in both directions and rebuilds every table in the same step.

### `RouteComputation.tla`: route computation and link failure (third.cc)

Constants:
- `Nodes` and `NodeType` (0 host, 1 switch, 2 DCI switch).
- `CandLinks`: the lines a topology file may hold, each with `src`, `dst`, `delay` and `bw`.
- `PayloadBytes`, `BwInf`, and `LinkDownPairs`: the `link_down_A`/`link_down_B` a run may name.

Variables:
- `topo`: which candidate lines the file holds. It is chosen in `Init`.
- `nbr2if` and `devUp`: the interfaces and the devices.
- `nextHop`, `pairDelay`, `pairTxDelay`, `pairBw` and `table` (every node's routing table, as interface indices).
- `pairRtt`, `maxRtt`, and `linkDownDone` (the single scheduled `TakeDownLink`).

Definitions:
- Interfaces:
  - `IfIdx` numbers a node's interfaces in file order from 1; 0 is the loopback.
  - `Nbr2IfOf` keys them by neighbour, so the last of two parallel lines wins.
- The BFS of `CalculateRoute` is `BFS`, a RECURSIVE operator over the queue.
  - `Expand` folds `Visit` over a node's neighbours in map order and skips links that are down.
  - `Visit` is the code's three cases: first visit, equal distance (path variants appended, next hop added once), and longer.
- `BestPath` reduces the variants: the least delay, then the largest bottleneck bandwidth, with the tx delay of the first such variant.
- `MetricOf` writes the metrics of the reached nodes only. `SetRoutingEntries` maps next-hop nodes to interfaces.
- `Init` is the state after start-up:
  - routes computed;
  - tables installed;
  - `pairRtt = 2 * delay + tx`;
  - `maxRtt` the largest of them.
- `TakeDownLink(a, b)` is the whole handler:
  - both directions go down;
  - routes are recomputed, with the metrics of the pairs no longer reached left as they were;
  - both devices go down;
  - every table is rebuilt.

  `TakeDownLinkNoop` is its early return.
- Refinement: `Abs == INSTANCE RoutingSpec WITH links <- UpLinks, routes <- ...` maps each table entry back to neighbour nodes through `nbr2if`. `AbsSpec` is `Abs!Spec`, checked as a property.

`MCRouteComputation.tla` is the instance:
- Three hosts, two intra-DC switches `A` and `B`, and two DCI switches `D1` and `D2`.
- Ten candidate lines:
  - two host uplinks at 400 Gbps, so the path bandwidth is decided in the core;
  - `A-D1-B` and `A-D2-B` with different delays;
  - a second, parallel `D1-B` line;
  - `D1-D2`;
  - a host `h3` attached to both `A` and `B`.
- Every subset of the lines is a possible topology, and any of five link failures may follow.

### `QbbChannel.tla`: one point-to-point channel

- Variables:
  - `nDevices` and `link` (the two half-links `m_link[0..1]`);
  - the static `m_traceFlowIds` and `m_flowTraceFiles`, and the number of open trace streams;
  - the scheduled `Receive` events, `now`, and per-device `sent` and `rcvd` histories.
- `Attach` joins the second device crosswise and makes both halves `IDLE`.
- `TransmitStart` has two guards, its two asserts. It picks the sender's half-link, opens the trace streams of a traced flow, and schedules `Receive` at the far end after `txTime + m_delay`.
- The devices are the environment. `DeviceSend` starts a packet only after the previous one is serialized, and `Receive` runs the earliest event first. `CleanupTraceFiles` runs after `Simulator::Run`.
- It is checked inside `SwitchEgress`, whose instance has two devices, several packets of one side and one of the other, and one traced flow.

### `SwitchEgress.tla`: the forwarding path to one egress port, over its channel

- Composition: `Ch == INSTANCE QbbChannel` shares the channel's variables. The channel's own actions keep the switch's variables unchanged, and the switch's `Dequeue` is the channel's `DeviceSend` of the switch device.
- Constants: the switch's device `SwDev` and its ifIndex `EgressIf`; per packet its ingress port (`FlowIdTag`), `l3Prot`, `pg` and size; `m_ackHighPrio`; the MMU's limits and PFC thresholds.
- Variables: the MMU's `ingress[port][q]`, `egress[q]` and `paused[port][q]`; `m_bytes` (`mBytes`) and `m_txBytes`; the egress device's `queue[q]`; the packets that arrived.
- `QIndexOf` is the qIndex rule of `SendToDev`. `SendToDev` is the rest of it for a routed packet: below priority 0, admission (both counters grow, then `CheckAndSendPfc`) or drop; then `m_bytes` and `SwitchSend`. `GetOutDev` is `DCISwitch`'s; here every packet is routed to `EgressIf`.
- `Dequeue(q)` takes the head of a queue, runs `SwitchNotifyDequeue` (below priority 0: release both charges and `m_bytes`, then `CheckAndSendResume` for the packet's ingress port; always `m_txBytes`) and `DeviceSend` on the channel.
- `SwitchMmu` and `QbbNetDevice` are not in the repository. The MMU is modelled at its interface (`Admit`, `ShouldPause`, `ShouldResume`: byte limits and a pause and a resume threshold, not the dynamic thresholds), and the device serves any non-empty queue, in FIFO order within it.
- The simulator's scheduling is part of the composition. `Deliver` and `Clock` never move the clock past a moment at which the egress device is free with a packet queued (`DeviceKeepsUp`: the device dequeues on `TransmitComplete`), and `RunEnds` (`Simulator::Run` returning, then `CleanupTraceFiles`) needs every queue empty, since a queued packet is a pending device event. Packets reach the switch (`Arrive`) up to `ArriveBy`, so the clock bound leaves time to transmit them all.
- `MCSwitchEgress.tla`: two UDP packets of pg 3 from port 1 (their 4 bytes cross the pause threshold 2), one from port 2 (the egress limit 5 drops it while both are queued), an ACK from port 1 that goes to queue 0, and one packet from the peer.

### `FlowScheduler.tla`: flow scheduling and the simulation's event life (third.cc)

- The flow file is a sequence of start times. An unreadable line, and the end of the file, is the model value `Bad`. The header declares a flow count.
- Actions. Each runs one handler of the ns-3 event list, taking the earliest event (ties in scheduling order) through `Pop`:
  - `Init` is `main` step 8: read the first line and schedule `ScheduleFlowInputs`, `TakeDownLink`, `monitor_buffer` and, with link-utilisation recording on, `periodic_monitoring`.
  - `ScheduleFlowInputs` is the whole handler. `ScheduleLoop` (RECURSIVE) starts every flow due by `now + eps` and reads the next line with `ReadFlowInput`, which shrinks `flow_num` on a failed read. The handler then reschedules itself (at least 1 ns ahead) or marks all flows scheduled. Each started flow's `qp_finish` is scheduled after a duration chosen from `Durations`, standing for the RDMA transfer.
  - `QpFinish` counts completions and calls `Simulator::Stop` at `completed_flows == flow_num`.
  - `MonitorBuffer` reschedules while `now < qlen_mon_end`.
  - `PeriodicMonitoring` reschedules while `Simulator::IsFinished()` is false.
  - `RunReturns` is `Simulator::Run` returning once Stop was called or no event is left.
- The event loop follows ns-3 (the ns-3.17 core this simulator is built on). `IsFinished` is "stopped or no event left". The ns-3 core is not part of the repository, so this is the model's assumption about it.
- `MCFlowScheduler.tla`: four files under headers of 0, 2 and 3 flows:
  - a batch of two flows at the same time, then a later flow;
  - unsorted start times;
  - an unreadable second line;
  - an unreadable first line.

  Declaring 3 flows for a two-line file makes the end of the file an unreadable line.

## Runs

| Run | Module / cfg | Expect | What it shows |
|---|---|---|---|
| cost_monotone | MCCostModel / MCCostModel.cfg | pass | `CostMonotone`: all scores are 8-bit and monotone in their signal over every class boundary (29160 states). |
| qlevel_spec | MCCostModel / MCCostModel_qlevel.cfg | violation | `QLevelMatchesSpec`: at 205032704 bytes the code gives queue level 255, the spec's thresholds give 25. The `uint32_t` `qThresh[9]` wrapped. |
| cost_aware | MCDCISwitch / MCDCISwitch.cfg | pass | Mode 2 with a hot port 1 and a link failure (9500 states). `TypeOK`; `FlowKeepsPath`: a flow whose packets are never more than the idle timeout apart leaves on the port its previous packet took, as long as that port is still a next hop; this is stated over the history variable `pktLog` (each flow's last routed packet: time and port), not over the cache entry, so it checks the refresh and the sweep together; `CongestionAvoided`: a new flow never lands on a port at the high-water queue level while at least max(2, n/2) other candidates are empty and statically no worse. |
| cost_aware_reroute | MCDCISwitch / MCDCISwitch_reroute.cfg | violation | `ForwardOnRoute` (invariant): after `TakeDownLink` of its port, a flow with a fresh cache entry keeps that port, so its next packet leaves on the failed link (the `NS_ASSERT` of `SendToDev` fires). |
| cost_aware_position | MCDCISwitch / MCDCISwitch_position.cfg | violation | `PositionIndependentCost`: ports 1 and 2, identical in links, state and queue, get different costs. Port 2 is scored after one more sampling of the jump. |
| cost_aware_trend | MCDCISwitch / MCDCISwitch_trend.cfg | violation | `TrendNormalized`: after 2001 ms without a sample, the trend is graded as if 1 ms had passed. |
| ucmp_idle | MCDCISwitch / MCDCISwitch_ucmp_idle.cfg | violation | `IdleFlowsEvicted` under weak fairness of packet arrival: in UCMP an idle entry stays forever. |
| route_computation | MCRouteComputation / MCRouteComputation.cfg | pass | Over every subset of the ten lines and every failure (4352 states): `TypeOK`; `MetricsMatchReference`: the path-variant BFS gives each reachable pair the least delay among fewest-hop paths and the largest bottleneck among those; `NoDuplicateNextHop`; `AbsSpec`: the interface tables refine `RoutingSpec`, before and after `TakeDownLink`; `LinkDownShrinksOwnTable`: at an end of the failed link, an entry that keeps some next hop is the old entry without the failed interface, in the old order. That is what `DCISwitch`'s `LinkDown` assumes. |
| route_parallel | MCRouteComputation / MCRouteComputation_parallel.cfg | violation | `AdjacencyFollowsDevices`: with two parallel `D1-B` lines, `nbr2if` keeps only the last. `TakeDownLink(D1, B)` therefore separates D1 and B although the other line's devices are up. |
| route_rtt | MCRouteComputation / MCRouteComputation_rtt.cfg | violation | `RttMatchesMetric`: after `A-D1` fails, the h1-h2 delay grows from 13 to 15 while `pairRtt`, which `qp_finish` and new flows read, keeps the start-up 166. |
| switch_egress | MCSwitchEgress / MCSwitchEgress.cfg | pass | The switch and its egress channel together (90606 states). `AdmissionBalanced`: the MMU's counters always equal the bytes of the admitted packets still queued, and queue 0 is never charged; `NoStalePause`: no ingress port stays paused once its bytes allow it to resume; `PeerFifo`: each device receives exactly what its peer sent, in order; `PauseLifted`: every PFC pause is eventually lifted; `QueuedDelivered`: every packet the switch queued eventually reaches the peer. |
| flow_lifecycle | MCFlowScheduler / MCFlowScheduler.cfg | pass | `AllFlowsRunAtReturn`: when `Simulator::Run` returns, exactly the readable flow lines were started and all of them completed. This holds for unsorted, truncated and unreadable files. `Termination`: `Simulator::Run` always returns (214 states). |

Every property of a passing run is also checked against a seeded fault of the code it is about. TLC must then find the property violated:

| Property | Definition | Seeded fault |
|---|---|---|
| `CostMonotone` | `CalcBwCost` | the score is not inverted |
| `TypeOK` (DCISwitch) | `UpdateDurationPenalty` | the decrement has no floor (unsigned wrap) |
| `FlowKeepsPath` | `GetOutDevCost` | a hit does not refresh `lastSeen` |
| `CongestionAvoided` | `PairLess` | the sort comparator is reversed |
| `TypeOK` (RouteComputation) | `IfIdx` | interfaces numbered from 0, onto the loopback |
| `MetricsMatchReference` | `BestPath` | the largest bandwidth is preferred over the least delay |
| `AbsSpec` | `Visit` | only the first path variant to reach a node is kept |
| `NoDuplicateNextHop` | `Visit` | a predecessor is appended once per variant |
| `LinkDownShrinksOwnTable` | `TakeDownLink` | only the `a → b` direction goes down |
| `PeerFifo` | `WireOf` | the wire of the sender is swapped |
| `PauseLifted` | `CheckAndSendResume` | the resume frame is sent but `SetResume` is not recorded |
| `QueuedDelivered` | `TransmitStart` | `Receive` is scheduled on the source of the half-link instead of its destination |
| `AdmissionBalanced` | `SwitchNotifyDequeue` | the release ignores the `qIndex != 0` guard |
| `NoStalePause` | `SwitchNotifyDequeue` | the resume is checked for the egress port instead of the ingress port |
| `AllFlowsRunAtReturn` | `ReadFlowInput` | a failed read does not shrink `flow_num` |
| `Termination` | `PeriodicMonitoring` | it reschedules without checking `IsFinished` |

## Bounds, fairness and what they cover

- Bounds:
  - DCISwitch:
    - Two flows cover the interesting interleaving: one flow's packet sweeps the other's idle entry.
    - The three ports and two destinations exercise the half rule for n = 2 and n = 3, where it differs.
    - The four clock values put idle entries at 1999, 2000 and 2001 ms.
    - Each run varies only the occupancies its question needs. The congestion history of every port is part of the state, so varying all queues at once grows the state space past what TLC finishes.
  - RouteComputation:
    - Seven nodes and ten candidate lines give two core paths of different delay and bandwidth, a parallel line, a DCI-to-DCI shortcut, and a dual-homed host.
    - Every subset of the lines is a start state. The BFS therefore meets unreachable hosts, equal-hop variants, and hosts that must not relay.
  - SwitchEgress: two ports share one queue; one port's packets cross the pause threshold and drain to the resume threshold, a packet of the other port meets a full egress queue, and a priority-0 packet bypasses the MMU. The devices' serialization interleaves arrivals and dequeues in every order.
  - QbbChannel (inside SwitchEgress): two packets from one side with different serialization times, so a later, shorter packet could overtake if delivery were not per-wire FIFO. One packet from the other side.
  - FlowScheduler: three lines per file and two completion times. These are enough for a batch, a late line, a shrink, and completions before and after the next start. The monitors' times interleave with the flow events.
- Fairness:
  - DCISwitch: weak fairness of packet arrival (`Fairness` in `Spec`).
    - Eviction is lazy: only a packet triggers it. So "idle entries go away" can only mean "as long as packets keep arriving", which is what the experiments' traffic provides.
    - Mode 2 states no liveness property. TLC evaluates `ENABLED` of the mode-2 packet action without caching the nested per-candidate fold, which makes the check impractically slow. Idle eviction in mode 2 is therefore checked as the action property `FlowKeepsPath`, at every packet.
  - FlowScheduler: weak fairness of `Next`. The ns-3 event loop runs the next event as long as one is left and Stop was not called.
  - SwitchEgress: weak fairness of the device's dequeue, of delivery and of the clock. The ns-3 event loop runs every scheduled event and moves time on to the next, and `QbbNetDevice` starts its next packet as soon as the previous one is serialized. Arrivals and the peer's own traffic are not fair: they need not happen.
  - RouteComputation and QbbChannel state no liveness.
- Deadlock:
  - `CHECK_DEADLOCK` is left on for CostModel and DCISwitch. A packet or a queue change is always possible.
  - It is off for RouteComputation, SwitchEgress and FlowScheduler. These components really stop: after the single scheduled link failure, once the packets are delivered and `Simulator::Run` has returned, and once `Simulator::Run` has returned.

## Not modelled, and why

- `RedistributeQp` on the hosts after `TakeDownLink`: host-side RDMA, outside the repository's sources.
- The inside of `SwitchMmu` (dynamic PFC thresholds, headroom, `ShouldSendCN`): not in the repository. `SwitchEgress` models the switch's calls to it against a simple interface, and leaves out ECN marking, which rewrites a header bit only.
- The switch configuration of `main` step 4 (`ConfigEcn`, `ConfigHdrm`, `pfc_a_shift`, `ConfigBufferSize`): it only computes parameters for `SwitchMmu`, which is not in the repository. Its fixed-width arithmetic is listed as hazards: the `uint32_t` headroom wraps for long inter-DC links, `dci_buffer_size * 1024 * 1024` wraps at 4096 MB, and `get_nic_rate` has no return for a topology without hosts.
- `m_bytes` is written but never read. For queue 0 it is incremented and never decremented, which contradicts its comment at `dci-switch-node.h:26`. `SwitchEgress` reproduces this; no run checks it because nothing depends on it.
- INT/PINT telemetry in `SwitchNotifyDequeue`: floating-point header encoding.
- Configuration parsing, trace and FCT output, queue-length histograms and link-utilisation logs: pure I/O. The handlers that produce them are modelled by their scheduling only.
- `EcmpHash`: a pure hash, abstracted to a per-flow constant.
- The dead helpers `CalcCongCost`, `calcIncrementBytes` and `GetTxBytesOutDev`.
- The ECMP branch of `GetOutDev` is in `DCISwitch`, but no passing run checks it. It keeps no state, and it hashes over the current entry, so `ForwardOnRoute` holds for it by construction.
