-------------------------- MODULE MCSwitchEgress --------------------------
(***************************************************************************)
(* The DCI switch dA forwards to its egress port 3, linked to dB.  Two    *)
(* UDP packets of priority group 3 arrive from port 1 (enough to cross    *)
(* the pause threshold), one from port 2 (which the egress limit may      *)
(* drop), and an ACK from port 1 that m_ackHighPrio puts in queue 0; dB   *)
(* sends one packet back.  a1 takes twice as long to serialize as the    *)
(* others, so a shorter packet queued behind it could overtake it if     *)
(* delivery were not FIFO per wire.                                       *)
(* The packets reach the switch by time 1, and the clock bound 8 leaves  *)
(* time to serialize and deliver all of them.                             *)
(***************************************************************************)
EXTENDS Integers, TLC

CONSTANTS dA, dB, a1, a2, a3, k1, b1, fx, fy, null

VARIABLES nDevices, link, phase, traceFlowIds, flowTraceFiles, openStreams,
          events, nextSeq, now, txFree, sent, rcvd,
          arrived, queue, ingress, egress, paused, mBytes, txBytes

INSTANCE SwitchEgress WITH Devs <- {dA, dB},
    Sender <- (a1 :> dA @@ a2 :> dA @@ a3 :> dA @@ k1 :> dA @@ b1 :> dB),
    FlowOf <- (a1 :> fx @@ a2 :> fx @@ a3 :> fy @@ k1 :> fx @@ b1 :> fy),
    TxTime <- (a1 :> 2 @@ a2 :> 1 @@ a3 :> 1 @@ k1 :> 1 @@ b1 :> 1),
    Delay <- 1, MaxTime <- 8, TracedFlows <- {fx}, NoDev <- null,
    SwDev <- dA, EgressIf <- 3,
    InDev <- (a1 :> 1 @@ a2 :> 1 @@ a3 :> 2 @@ k1 :> 1),
    L3Prot <- (a1 :> 17 @@ a2 :> 17 @@ a3 :> 17 @@ k1 :> 252),
    Pg <- (a1 :> 3 @@ a2 :> 3 @@ a3 :> 3 @@ k1 :> 3),
    Size <- (a1 :> 2 @@ a2 :> 2 @@ a3 :> 2 @@ k1 :> 1),
    AckHighPrio <- TRUE,
    IngressLimit <- 4, EgressLimit <- 5, PauseThresh <- 2, ResumeThresh <- 0,
    ArriveBy <- 1
=============================================================================
