---------------------------- MODULE MCDCISwitch ----------------------------
(***************************************************************************)
(* A DCI switch with three uplinks to two destinations and two flows.    *)
(*                                                                         *)
(* Ports 1 and 2 are identical 100 Gbps links of 10 ms; port 3 is a 400    *)
(* Gbps link of 12 ms.  Destination d1 is reached over all three ports,    *)
(* d2 over ports 2 and 3, so the low-cost subset both drops a candidate    *)
(* (three candidates) and keeps all (two).  The queue occupancies are an   *)
(* empty queue, a 10.4 MB jump whose smoothed trend (1300000) reaches the  *)
(* first 100 Gbps trend class (1250000 bytes/ms) but falls below it after  *)
(* one more smoothing step, and a queue above the high-water level         *)
(* (>= 205032704 bytes, see CostModel).  The clock values put the idle      *)
(* time of an entry stamped at 0 or 1 at 1999, 2000 or 2001 ms: both       *)
(* sides of the strict IDLE_TIMEOUT boundary.                              *)
(***************************************************************************)
EXTENDS Integers, Sequences, TLC

CONSTANTS d1, d2, f1, f2, RoutingMode, LinkFailure,
          Hot1, Hot2   \* occupancies port 1 and port 2 may reach, per run

Ports == {1, 2, 3}
Dsts == {d1, d2}
Routes == (d1 :> <<1, 2, 3>>) @@ (d2 :> <<2, 3>>)
Flows == {f1, f2}
FlowDst == (f1 :> d1) @@ (f2 :> d2)
FlowHash == (f1 :> 2) @@ (f2 :> 1)
LinkDelayNs == (1 :> 10000000) @@ (2 :> 10000000) @@ (3 :> 12000000)
LinkBwGbps == (1 :> 100) @@ (2 :> 100) @@ (3 :> 400)
Times == {0, 1, 2000, 2001}
IdleTimeoutMs == 2000
QueueRange == (1 :> ({0} \cup Hot1)) @@ (2 :> ({0} \cup Hot2)) @@ (3 :> {0})

VARIABLES qlen, linkUp, now, rtTable, cong, flow2outdev, pktLog

INSTANCE DCISwitch

=============================================================================
