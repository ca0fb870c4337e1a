----------------------------- MODULE QbbChannel -----------------------------
(***************************************************************************)
(* One point-to-point link (model/qbb-channel.cc): the two half-links     *)
(* m_link[0..1] set up by Attach, TransmitStart scheduling the peer's     *)
(* Receive after txTime + delay, and the per-flow routing trace (the      *)
(* static m_traceFlowIds / m_flowTraceFiles and the streams it opens).    *)
(*                                                                         *)
(* The devices and the simulator are the environment: a device starts a  *)
(* packet only when its previous one has been serialized (QbbNetDevice    *)
(* is busy for txTime), and the simulator runs the scheduled events in    *)
(* time order, equal times in the order they were scheduled.              *)
(***************************************************************************)
EXTENDS Integers, Sequences, SequencesExt, FiniteSets

CONSTANTS Devs,        \* the two QbbNetDevices qbb.Install attaches, in order
          Sender,      \* Sender[p]: the device that transmits packet p
          FlowOf,      \* FlowOf[p]: GetTraceFlowId of packet p
          TxTime,      \* TxTime[p]: serialization time of p on its device
          Delay,       \* m_delay
          MaxTime,     \* the clock bound
          TracedFlows, \* the flow ids ConfigureFlowTracking may add
          NoDev        \* a null Ptr<QbbNetDevice>

ASSUME Cardinality(Devs) = 2 /\ NoDev \notin Devs

Pkts == DOMAIN Sender

N_DEVICES == 2

VARIABLES nDevices,       \* m_nDevices
          link,           \* m_link[w]: [src, dst, state]
          phase,          \* "setup" before Simulator::Run, "run", "done" after it
          traceFlowIds,   \* the static m_traceFlowIds
          flowTraceFiles, \* the flows that have an entry in m_flowTraceFiles
          openStreams,    \* ofstream objects created and not yet deleted
          events,         \* scheduled Receive events: [at, seq, dev, pkt]
          nextSeq,        \* scheduling order, for events of equal time
          now,
          txFree,         \* when each device has finished serializing
          sent,           \* sent[d]: packets d transmitted, in order
          rcvd            \* rcvd[d]: packets delivered to d, in order

vars == <<nDevices, link, phase, traceFlowIds, flowTraceFiles, openStreams,
          events, nextSeq, now, txFree, sent, rcvd>>

Wires == {0, 1}

(* The constructor: no device, the trace set reset (it is static, so this *)
(* also clears flows added for earlier channels).                         *)
Init ==
    /\ nDevices = 0
    /\ link = [w \in Wires |-> [src |-> NoDev, dst |-> NoDev, state |-> "INITIALIZING"]]
    /\ traceFlowIds = {}
    /\ phase = "setup"
    /\ flowTraceFiles = {}
    /\ openStreams = 0
    /\ events = {}
    /\ nextSeq = 0
    /\ now = 0
    /\ txFree = [d \in Devs |-> 0]
    /\ sent = [d \in Devs |-> << >>]
    /\ rcvd = [d \in Devs |-> << >>]

(* Attach: the device becomes the source of the next half-link; with two  *)
(* devices both halves are joined and become IDLE.                        *)
Attach(d) ==
    /\ phase = "setup"
    /\ nDevices < N_DEVICES
    /\ d \notin {link[w].src : w \in Wires}
    /\ nDevices' = nDevices + 1
    /\ link' = IF nDevices + 1 = N_DEVICES
               THEN [w \in Wires |->
                       [src |-> IF w = nDevices THEN d ELSE link[w].src,
                        dst |-> IF w = nDevices THEN link[0].src ELSE d,
                        state |-> "IDLE"]]
               ELSE [link EXCEPT ![nDevices].src = d]
    /\ UNCHANGED <<phase, traceFlowIds, flowTraceFiles, openStreams, events,
                   nextSeq, now, txFree, sent, rcvd>>

AddTraceFlow(f) ==
    /\ phase = "setup"
    /\ traceFlowIds' = traceFlowIds \cup {f}
    /\ UNCHANGED <<nDevices, link, phase, flowTraceFiles, openStreams, events,
                   nextSeq, now, txFree, sent, rcvd>>

(* Simulator::Run, after the topology and the trace list are set up.      *)
Run ==
    /\ phase = "setup"
    /\ nDevices = N_DEVICES
    /\ phase' = "run"
    /\ UNCHANGED <<nDevices, link, traceFlowIds, flowTraceFiles, openStreams,
                   events, nextSeq, now, txFree, sent, rcvd>>

-----------------------------------------------------------------------------
WireOfSwapped(src) == IF src = link[0].src THEN 1 ELSE 0
WireOf(src) == IF src = link[0].src THEN 0 ELSE 1

(* The streams a traced packet opens: the flow's file the first time the  *)
(* flow is seen, and a new mixed_trace.txt stream every time.             *)
TraceStreams(f) == IF f \in flowTraceFiles THEN 1 ELSE 2

TransmitStartToSelf(src, p) ==
    /\ phase = "run"
    /\ link[0].state # "INITIALIZING" /\ link[1].state # "INITIALIZING"
    /\ IF FlowOf[p] \in traceFlowIds
       THEN /\ flowTraceFiles' = flowTraceFiles \cup {FlowOf[p]}
            /\ openStreams' = openStreams + TraceStreams(FlowOf[p])
       ELSE UNCHANGED <<flowTraceFiles, openStreams>>
    /\ events' = events \cup {[at |-> now + TxTime[p] + Delay, seq |-> nextSeq,
                               dev |-> link[WireOf(src)].src, pkt |-> p]}

(* TransmitStart(p, src, txTime): both halves initialized (asserted), the *)
(* wire of src, the trace of a traced flow, then Receive at the far end   *)
(* after txTime + m_delay.                                                *)
TransmitStart(src, p) ==
    /\ phase = "run"
    /\ link[0].state # "INITIALIZING" /\ link[1].state # "INITIALIZING"
    /\ IF FlowOf[p] \in traceFlowIds
       THEN /\ flowTraceFiles' = flowTraceFiles \cup {FlowOf[p]}
            /\ openStreams' = openStreams + TraceStreams(FlowOf[p])
       ELSE UNCHANGED <<flowTraceFiles, openStreams>>
    /\ events' = events \cup {[at |-> now + TxTime[p] + Delay, seq |-> nextSeq,
                               dev |-> link[WireOf(src)].dst, pkt |-> p]}

(* The device starts its next packet once the previous one is serialized. *)
DeviceSend(d, p) ==
    /\ Sender[p] = d
    /\ ~Contains(sent[d], p)
    /\ txFree[d] <= now
    /\ now + TxTime[p] + Delay <= MaxTime
    /\ TransmitStart(d, p)
    /\ nextSeq' = nextSeq + 1
    /\ txFree' = [txFree EXCEPT ![d] = now + TxTime[p]]
    /\ sent' = [sent EXCEPT ![d] = Append(@, p)]
    /\ UNCHANGED <<nDevices, link, phase, traceFlowIds, now, rcvd>>

(* The simulator runs the earliest event (first scheduled among equals):  *)
(* QbbNetDevice::Receive at the far end.                                  *)
First(e) == \A o \in events : e.at < o.at \/ (e.at = o.at /\ e.seq <= o.seq)

Receive ==
    \E e \in events :
        /\ First(e)
        /\ now' = e.at
        /\ events' = events \ {e}
        /\ rcvd' = [rcvd EXCEPT ![e.dev] = Append(@, e.pkt)]
        /\ UNCHANGED <<nDevices, link, phase, traceFlowIds, flowTraceFiles,
                       openStreams, nextSeq, txFree, sent>>

(* Time passes to a later event of the devices (a packet handed down).    *)
Tick(t) ==
    /\ phase = "run"
    /\ now < t /\ t <= MaxTime
    /\ \A e \in events : t <= e.at
    /\ now' = t
    /\ UNCHANGED <<nDevices, link, phase, traceFlowIds, flowTraceFiles,
                   openStreams, events, nextSeq, txFree, sent, rcvd>>

(* After Simulator::Run returns: CleanupTraceFiles closes and deletes the *)
(* stream of every m_flowTraceFiles entry and clears the map.             *)
CleanupTraceFiles ==
    /\ phase = "run"
    /\ events = {}
    /\ phase' = "done"
    /\ openStreams' = openStreams - Cardinality(flowTraceFiles)
    /\ flowTraceFiles' = {}
    /\ UNCHANGED <<nDevices, link, traceFlowIds, events, nextSeq, now, txFree,
                   sent, rcvd>>

Next ==
    \/ \E d \in Devs : Attach(d)
    \/ \E f \in TracedFlows : AddTraceFlow(f)
    \/ Run
    \/ \E d \in Devs, p \in Pkts : DeviceSend(d, p)
    \/ Receive
    \/ \E t \in 0 .. MaxTime : Tick(t)
    \/ CleanupTraceFiles

Spec == Init /\ [][Next]_vars

-----------------------------------------------------------------------------
(* Properties. *)

(* The peer of a device is the other device of the channel. *)
Peer(d) == CHOOSE o \in Devs : o # d

(* Every device receives exactly what its peer transmitted, in the order  *)
(* it was transmitted, so far: TransmitStart picks the wire of the sender *)
(* and Attach joined the halves crosswise, and delivery after txTime +    *)
(* delay keeps a serialized device's packets in order.                    *)
PeerFifo ==
    \A d \in Devs : IsPrefix(rcvd[d], sent[Peer(d)])
=============================================================================
