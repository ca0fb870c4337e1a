----------------------------- MODULE SwitchEgress -----------------------------
(***************************************************************************)
(* A DCI switch's forwarding path to one egress port, composed with the   *)
(* channel behind that port (QbbChannel): SwitchReceiveFromDevice ->      *)
(* SendToDev classifies a packet, asks the MMU for admission, checks PFC  *)
(* pause towards the ingress port, counts m_bytes and enqueues it on the  *)
(* egress device; the device's dequeue runs SwitchNotifyDequeue (release  *)
(* the admission, PFC resume check, tx counters) and hands the packet to  *)
(* QbbChannel::TransmitStart.                                             *)
(*                                                                         *)
(* GetOutDev is DCISwitch's: here every routed packet leaves on the one   *)
(* modelled egress port.  The MMU (SwitchMmu) is a collaborator outside   *)
(* the repository, modelled at its interface: admission against byte     *)
(* limits, pause above and resume at or below an occupancy threshold.     *)
(* The device picks which non-empty queue to serve (its scheduler is not  *)
(* part of the repository), first in first out within a queue.            *)
(***************************************************************************)
EXTENDS Integers, Sequences, SequencesExt, FiniteSets

CONSTANTS Devs, Sender, FlowOf, TxTime, Delay, MaxTime, TracedFlows, NoDev

CONSTANTS SwDev,         \* the switch's egress QbbNetDevice (one of Devs)
          EgressIf,      \* its ifIndex
          InDev,         \* InDev[p]: the FlowIdTag of p, its ingress ifIndex
          L3Prot,        \* L3Prot[p]: ch.l3Prot (0x11 UDP, 0x06 TCP, 0xFC ACK, ...)
          Pg,            \* Pg[p]: ch.udp.pg
          Size,          \* Size[p]: p->GetSize()
          AckHighPrio,   \* m_ackHighPrio
          IngressLimit,  \* MMU: bytes an ingress queue may hold
          EgressLimit,   \* MMU: bytes the egress queue may hold
          PauseThresh,   \* MMU: an ingress queue above this is paused
          ResumeThresh,  \* MMU: a paused ingress queue at or below this resumes
          ArriveBy       \* the last time a packet reaches the switch

VARIABLES nDevices, link, phase, traceFlowIds, flowTraceFiles, openStreams,
          events, nextSeq, now, txFree, sent, rcvd

VARIABLES arrived,   \* the packets SwitchReceiveFromDevice was called with
          queue,     \* queue[q]: the egress device's queue q
          ingress,   \* MMU ingress bytes [port][q]
          egress,    \* MMU egress bytes of the egress port [q]
          paused,    \* MMU paused[port][q]: a PFC pause was sent to the port
          mBytes,    \* m_bytes[inDev][EgressIf][q]
          txBytes    \* m_txBytes[EgressIf]

Ch == INSTANCE QbbChannel

chVars == <<nDevices, link, phase, traceFlowIds, flowTraceFiles, openStreams,
            events, nextSeq, now, txFree, sent, rcvd>>
swVars == <<arrived, queue, ingress, egress, paused, mBytes, txBytes>>
vars == <<chVars, swVars>>

SwPkts == {p \in DOMAIN Sender : Sender[p] = SwDev}
Ports == {InDev[p] : p \in SwPkts} \cup {EgressIf}

(* qIndex of SendToDev: QCN, PFC and (if prioritised) ACK/NACK go to the *)
(* highest priority 0, TCP to 1, UDP to its pg.                           *)
QIndexOf(p) ==
    IF L3Prot[p] \in {255, 254} \/ (AckHighPrio /\ L3Prot[p] \in {253, 252}) THEN 0
    ELSE IF L3Prot[p] = 6 THEN 1
    ELSE Pg[p]

Qs == {QIndexOf(p) : p \in SwPkts}

-----------------------------------------------------------------------------
(* The MMU's interface (collaborator). *)
Admit(in, q, s) ==
    /\ ingress[in][q] + s <= IngressLimit
    /\ egress[q] + s <= EgressLimit

ShouldPause(ing, pz, in, q) == ~pz[in][q] /\ ing[in][q] > PauseThresh
ShouldResume(ing, pz, in, q) == pz[in][q] /\ ing[in][q] <= ResumeThresh

(* CheckAndSendPfc / CheckAndSendResume: send the frame and record it in  *)
(* the MMU (SendPfc itself is the ingress device's, on another link).     *)
CheckAndSendPfc(ing, pz, in, q) ==
    IF ShouldPause(ing, pz, in, q) THEN [pz EXCEPT ![in][q] = TRUE] ELSE pz

CheckAndSendResumeUnrecorded(ing, pz, in, q) == pz

CheckAndSendResume(ing, pz, in, q) ==
    IF ShouldResume(ing, pz, in, q) THEN [pz EXCEPT ![in][q] = FALSE] ELSE pz

-----------------------------------------------------------------------------
(* The constructor zeroes m_bytes and m_txBytes; the MMU starts empty.    *)
Init ==
    /\ Ch!Init
    /\ arrived = {}
    /\ queue = [q \in Qs |-> << >>]
    /\ ingress = [i \in Ports |-> [q \in Qs |-> 0]]
    /\ egress = [q \in Qs |-> 0]
    /\ paused = [i \in Ports |-> [q \in Qs |-> FALSE]]
    /\ mBytes = [i \in Ports |-> [q \in Qs |-> 0]]
    /\ txBytes = 0

(* SwitchReceiveFromDevice -> SendToDev for a packet routed to EgressIf:  *)
(* below priority 0 the packet is admitted (both counters grow, then the  *)
(* pause check) or dropped; an admitted or priority-0 packet is counted   *)
(* in m_bytes and enqueued by SwitchSend.                                 *)
SendToDev(p) ==
    LET q == QIndexOf(p)  in == InDev[p]  s == Size[p]
        ing == [ingress EXCEPT ![in][q] = @ + s]
        enqueue == /\ mBytes' = [mBytes EXCEPT ![in][q] = @ + s]
                   /\ queue' = [queue EXCEPT ![q] = Append(@, p)]
    IN  IF q # 0
        THEN \/ /\ Admit(in, q, s)
                /\ ingress' = ing
                /\ egress' = [egress EXCEPT ![q] = @ + s]
                /\ paused' = CheckAndSendPfc(ing, paused, in, q)
                /\ enqueue
             \/ /\ ~Admit(in, q, s)
                /\ UNCHANGED <<ingress, egress, paused, mBytes, queue>>
        ELSE /\ enqueue
             /\ UNCHANGED <<ingress, egress, paused>>

SwitchReceiveFromDevice(p) ==
    /\ phase = "run"
    /\ p \in SwPkts \ arrived
    /\ arrived' = arrived \cup {p}
    /\ SendToDev(p)
    /\ UNCHANGED <<txBytes, chVars>>

(* SwitchNotifyDequeue(EgressIf, q, p): below priority 0 release both    *)
(* admissions and m_bytes, then the resume check for the packet's ingress *)
(* port; always count the transmitted bytes.  (ECN marking rewrites the   *)
(* header only; INT/PINT telemetry is not modelled.)                      *)
SwitchNotifyDequeueAllQueues(p) ==
    LET q == QIndexOf(p)  in == InDev[p]  s == Size[p]
        ing == [ingress EXCEPT ![in][q] = @ - s]
    IN  /\ ingress' = ing
        /\ egress' = [egress EXCEPT ![q] = @ - s]
        /\ mBytes' = [mBytes EXCEPT ![in][q] = @ - s]
        /\ paused' = CheckAndSendResume(ing, paused, in, q)
        /\ txBytes' = txBytes + s

SwitchNotifyDequeueEgressResume(p) ==
    LET q == QIndexOf(p)  in == InDev[p]  s == Size[p]
        ing == [ingress EXCEPT ![in][q] = @ - s]
    IN  /\ IF q # 0
           THEN /\ ingress' = ing
                /\ egress' = [egress EXCEPT ![q] = @ - s]
                /\ mBytes' = [mBytes EXCEPT ![in][q] = @ - s]
                /\ paused' = CheckAndSendResume(ing, paused, EgressIf, q)
           ELSE UNCHANGED <<ingress, egress, mBytes, paused>>
        /\ txBytes' = txBytes + s

SwitchNotifyDequeue(p) ==
    LET q == QIndexOf(p)  in == InDev[p]  s == Size[p]
        ing == [ingress EXCEPT ![in][q] = @ - s]
    IN  /\ IF q # 0
           THEN /\ ingress' = ing
                /\ egress' = [egress EXCEPT ![q] = @ - s]
                /\ mBytes' = [mBytes EXCEPT ![in][q] = @ - s]
                /\ paused' = CheckAndSendResume(ing, paused, in, q)
           ELSE UNCHANGED <<ingress, egress, mBytes, paused>>
        /\ txBytes' = txBytes + s

(* The egress device takes the head of a queue, notifies the switch and  *)
(* starts transmitting it on the channel.                                 *)
Dequeue(q) ==
    /\ queue[q] # << >>
    /\ Ch!DeviceSend(SwDev, Head(queue[q]))
    /\ queue' = [queue EXCEPT ![q] = Tail(@)]
    /\ SwitchNotifyDequeue(Head(queue[q]))
    /\ UNCHANGED arrived

(* The egress device dequeues as soon as it is free (QbbNetDevice starts  *)
(* the next packet when the previous one is serialized), so the clock    *)
(* never passes a moment at which it is free with a packet queued.       *)
DeviceKeepsUp ==
    \/ now' = now
    \/ \A q \in Qs : queue[q] = << >>
    \/ now' <= txFree[SwDev]

ChannelStep ==
    /\ \/ \E d \in Devs : Ch!Attach(d)
       \/ \E f \in TracedFlows : Ch!AddTraceFlow(f)
       \/ Ch!Run
       \/ \E d \in Devs \ {SwDev}, p \in DOMAIN Sender : Ch!DeviceSend(d, p)
    /\ UNCHANGED swVars

(* Simulator::Run returns when no event is left: none on the channel and *)
(* none of the device, which has a transmission pending while a queue    *)
(* holds a packet.                                                        *)
RunEnds ==
    /\ Ch!CleanupTraceFiles
    /\ \A q \in Qs : queue[q] = << >>
    /\ UNCHANGED swVars

(* The simulator runs the far end's Receive, or time passes. *)
Deliver == Ch!Receive /\ DeviceKeepsUp /\ UNCHANGED swVars
Clock == \E t \in 0 .. MaxTime : Ch!Tick(t) /\ DeviceKeepsUp /\ UNCHANGED swVars

(* The ingress links hand the switch its packets by ArriveBy.            *)
Arrive == now <= ArriveBy /\ \E p \in SwPkts : SwitchReceiveFromDevice(p)

Next ==
    \/ ChannelStep
    \/ RunEnds
    \/ Deliver
    \/ Clock
    \/ Arrive
    \/ \E q \in Qs : Dequeue(q)

(* The event loop runs every scheduled event and time moves on to the    *)
(* next one; the device serves its queues whenever it is free.  Arrivals *)
(* and the peer's traffic are the environment and need not happen.       *)
Spec == Init /\ [][Next]_vars
        /\ WF_vars(\E q \in Qs : Dequeue(q)) /\ WF_vars(Deliver) /\ WF_vars(Clock)

-----------------------------------------------------------------------------
(* Properties. *)

(* The bytes of the packets from port i waiting in the egress queue q.   *)
QueuedBytes(i, q) ==
    FoldSeq(LAMBDA p, acc : Size[p] + acc, 0,
            SelectSeq(queue[q], LAMBDA p : InDev[p] = i))

(* What SendToDev charges the MMU below priority 0, SwitchNotifyDequeue   *)
(* gives back: at every moment the ingress counter of each (port, queue)  *)
(* and the egress counter of each queue equal the bytes of the admitted  *)
(* packets still queued, and the priority-0 queue, which is never         *)
(* admitted, never appears in either counter.  A release on the wrong    *)
(* port or queue, or of a packet that was never charged, drifts a counter *)
(* and with it every later admission and PFC decision.                    *)
AdmissionBalanced ==
    \A q \in Qs :
        /\ egress[q] = IF q = 0 THEN 0
                       ELSE FoldSeq(LAMBDA p, acc : Size[p] + acc, 0, queue[q])
        /\ \A i \in Ports : ingress[i][q] = IF q = 0 THEN 0 ELSE QueuedBytes(i, q)

(* A PFC pause that CheckAndSendPfc sent to an ingress port is lifted by  *)
(* CheckAndSendResume as soon as that port's queue has drained to the     *)
(* resume threshold: no port stays paused while its ingress bytes allow  *)
(* it to resume (the ingress peer would otherwise be stopped for good).  *)
NoStalePause ==
    \A i \in Ports, q \in Qs : paused[i][q] => ingress[i][q] > ResumeThresh

PeerFifo == Ch!PeerFifo

(* A PFC pause is never permanent: every pause CheckAndSendPfc records    *)
(* for a port is eventually lifted by a CheckAndSendResume, once the      *)
(* device has drained that port's packets (otherwise the upstream device *)
(* waits forever, the PFC deadlock).                                      *)
PauseLifted ==
    \A i \in Ports, q \in Qs : paused[i][q] ~> ~paused[i][q]

(* Every packet SendToDev queued (admitted, or of priority 0) is          *)
(* eventually received by the far end of the egress link: the device     *)
(* drains its queues and the channel delivers what was sent.             *)
QueuedDelivered ==
    \A p \in SwPkts :
        (\E q \in Qs : Contains(queue[q], p)) ~> Contains(rcvd[Ch!Peer(SwDev)], p)
=============================================================================
