---------------------------- MODULE FlowScheduler ----------------------------
(***************************************************************************)
(* The event life of a simulation run as the scenario driver sets it up  *)
(* (scratch/third.cc): main reads the first flow line and schedules      *)
(* ScheduleFlowInputs, which starts every flow whose start time has come  *)
(* and reads the next line (a line that cannot be read shrinks flow_num); *)
(* qp_finish counts completed flows and stops the simulator when the      *)
(* count reaches flow_num; monitor_buffer and periodic_monitoring         *)
(* reschedule themselves; TakeDownLink is one more scheduled event.       *)
(*                                                                         *)
(* The simulator is the ns-3 event loop: it runs the earliest event        *)
(* (equal times in the order they were scheduled) until Stop was called  *)
(* or no event is left, and IsFinished is "stopped or no event left".     *)
(* How long a started flow takes until qp_finish is the environment (the  *)
(* RDMA transfer), a choice from Durations.  Times are in units of the    *)
(* 1 ns eps of ScheduleFlowInputs.                                        *)
(***************************************************************************)
EXTENDS Integers, Sequences, FiniteSets

CONSTANTS Files,             \* the flow files a run may be given: the start times of its lines
          Bad,               \* a line the stream cannot parse, or the end of the file
          FlowNums,          \* the flow counts the file's header may declare
          Durations,         \* how long a started flow may run until qp_finish
          QlenMonStart,      \* qlen_mon_start
          QlenMonEnd,        \* qlen_mon_end
          QlenMonInterval,   \* qlen_mon_interval
          LinkUtilRecord,    \* enable_link_util_record
          UtilMonStart,      \* the Seconds(2.0) of the first periodic_monitoring
          SwitchMonInterval, \* switch_mon_interval
          LinkDownAt,        \* Seconds(2) + link_down_time, or 0 when link_down_time = 0
          MaxTime            \* the clock bound of the model

Eps == 1

VARIABLES file,          \* the lines of flowf after its header
          declared,      \* flow_num as the header declared it
          flowNum,       \* flow_num
          idx,           \* flow_input.idx
          startTime,     \* flow_input.start_time
          allScheduled,  \* all_flows_scheduled
          completed,     \* completed_flows
          started,       \* the lines whose RdmaClient was installed
          finished,      \* the lines whose qp_finish ran
          stopped,       \* Simulator::Stop was called
          events,        \* the event list: [at, seq, kind, flow]
          seq,           \* scheduling order, for events of equal time
          now,
          phase          \* "run" inside Simulator::Run, "done" after it returns

vars == <<file, declared, flowNum, idx, startTime, allScheduled, completed,
          started, finished, stopped, events, seq, now, phase>>

(* Line i of the file (from 0, as flow_input.idx counts). *)
Line(f, i) == IF i < Len(f) THEN f[i + 1] ELSE Bad

Ev(at, s, kind, fl) == [at |-> at, seq |-> s, kind |-> kind, flow |-> fl]

-----------------------------------------------------------------------------
(* ReadFlowInput: read line i if i < flow_num; a failed read shrinks      *)
(* flow_num to i.  The result is the success, flow_num and start_time.    *)
ReadFlowInputNoShrink(f, i, n, st) ==
    IF i < n /\ Line(f, i) # Bad THEN [ok |-> TRUE, num |-> n, start |-> Line(f, i)]
    ELSE [ok |-> FALSE, num |-> n, start |-> st]

ReadFlowInput(f, i, n, st) ==
    IF i < n
    THEN IF Line(f, i) = Bad THEN [ok |-> FALSE, num |-> i, start |-> st]
         ELSE [ok |-> TRUE, num |-> n, start |-> Line(f, i)]
    ELSE [ok |-> FALSE, num |-> n, start |-> st]

(* The loop of ScheduleFlowInputs at time t, from flow_input (i, st) and  *)
(* flow_num n: start the flow, idx++, read the next line, until the next  *)
(* start is later than t + eps, idx reaches flow_num or a read fails.     *)
RECURSIVE ScheduleLoop(_, _, _, _, _)
ScheduleLoop(f, i, n, st, t) ==
    IF i < n /\ st <= t + Eps
    THEN LET r == ReadFlowInput(f, i + 1, n, st)
         IN  IF r.ok THEN ScheduleLoop(f, i + 1, r.num, r.start, t)
             ELSE [idx |-> i + 1, num |-> r.num, start |-> r.start]
    ELSE [idx |-> i, num |-> n, start |-> st]

-----------------------------------------------------------------------------
(* main, step 8 and the events it schedules, up to Simulator::Run: read   *)
(* the first line (flow_num = 0 if it fails) and schedule                 *)
(* ScheduleFlowInputs at its start; TakeDownLink; monitor_buffer; and     *)
(* periodic_monitoring when link utilisation is recorded.                  *)
Init ==
    /\ file \in Files
    /\ declared \in FlowNums
    /\ idx = 0
    /\ LET r == ReadFlowInput(file, 0, declared, 0)
           first == IF declared > 0 /\ r.ok
                    THEN << Ev(r.start, 0, "sched", 0) >> ELSE << >>
           rest == <<Ev(LinkDownAt, 0, "linkdown", 0), Ev(QlenMonStart, 0, "qmon", 0),
                     Ev(UtilMonStart, 0, "umon", 0)>>
           keep == SelectSeq(rest, LAMBDA e : (e.kind # "linkdown" \/ LinkDownAt > 0)
                                              /\ (e.kind # "umon" \/ LinkUtilRecord))
           all == first \o keep
       IN  /\ flowNum = IF declared > 0 /\ ~r.ok THEN 0 ELSE declared
           /\ startTime = IF declared > 0 THEN r.start ELSE 0
           /\ events = {[all[k] EXCEPT !.seq = k] : k \in 1 .. Len(all)}
           /\ seq = Len(all) + 1
    /\ allScheduled = FALSE
    /\ completed = 0
    /\ started = {}
    /\ finished = {}
    /\ stopped = FALSE
    /\ now = 0
    /\ phase = "run"

(* The event loop takes the earliest event, if Stop was not called.      *)
Pop(e) ==
    /\ phase = "run"
    /\ ~stopped
    /\ \A o \in events : e.at < o.at \/ (e.at = o.at /\ e.seq <= o.seq)
    /\ e.at <= MaxTime
    /\ now' = e.at

ScheduleFlowInputs(e) ==
    /\ e.kind = "sched"
    /\ Pop(e)
    /\ LET t == e.at
           r == ScheduleLoop(file, idx, flowNum, startTime, t)
           batch == idx .. r.idx - 1
           again == IF r.idx < r.num
                    THEN {Ev(IF r.start - t <= 0 THEN t + 1 ELSE r.start, seq, "sched", 0)}
                    ELSE {}
       IN  \E d \in [batch -> Durations] :
              /\ idx' = r.idx
              /\ flowNum' = r.num
              /\ startTime' = r.start
              /\ started' = started \cup batch
              /\ events' = (events \ {e}) \cup again
                             \cup {Ev(t + d[i], seq + 1 + i, "finish", i) : i \in batch}
              /\ seq' = seq + 1 + r.idx
              /\ allScheduled' = (allScheduled \/ r.idx >= r.num)
    /\ UNCHANGED <<file, declared, completed, finished, stopped, phase>>

(* qp_finish: one more completed flow; Stop when the count is flow_num.  *)
QpFinish(e) ==
    /\ e.kind = "finish"
    /\ Pop(e)
    /\ completed' = completed + 1
    /\ finished' = finished \cup {e.flow}
    /\ stopped' = (completed + 1 = flowNum)
    /\ events' = events \ {e}
    /\ UNCHANGED <<file, declared, flowNum, idx, startTime, allScheduled, started,
                   seq, phase>>

(* monitor_buffer samples the queues and reschedules until qlen_mon_end. *)
MonitorBuffer(e) ==
    /\ e.kind = "qmon"
    /\ Pop(e)
    /\ events' = (events \ {e}) \cup
                   (IF e.at < QlenMonEnd THEN {Ev(e.at + QlenMonInterval, seq, "qmon", 0)}
                    ELSE {})
    /\ seq' = seq + 1
    /\ UNCHANGED <<file, declared, flowNum, idx, startTime, allScheduled, completed,
                   started, finished, stopped, phase>>

(* periodic_monitoring logs the uplinks and reschedules while the         *)
(* simulator is not finished: Stop not called and some event left.       *)
PeriodicMonitoringAlways(e) ==
    /\ e.kind = "umon"
    /\ Pop(e)
    /\ events' = (events \ {e}) \cup {Ev(e.at + SwitchMonInterval, seq, "umon", 0)}
    /\ seq' = seq + 1
    /\ UNCHANGED <<file, declared, flowNum, idx, startTime, allScheduled, completed,
                   started, finished, stopped, phase>>

PeriodicMonitoring(e) ==
    /\ e.kind = "umon"
    /\ Pop(e)
    /\ events' = (events \ {e}) \cup
                   (IF events \ {e} # {} THEN {Ev(e.at + SwitchMonInterval, seq, "umon", 0)}
                    ELSE {})
    /\ seq' = seq + 1
    /\ UNCHANGED <<file, declared, flowNum, idx, startTime, allScheduled, completed,
                   started, finished, stopped, phase>>

(* TakeDownLink: its effect on the routes is RouteComputation's; here it  *)
(* is one event of the list.                                               *)
LinkDownEvent(e) ==
    /\ e.kind = "linkdown"
    /\ Pop(e)
    /\ events' = events \ {e}
    /\ UNCHANGED <<file, declared, flowNum, idx, startTime, allScheduled, completed,
                   started, finished, stopped, seq, phase>>

(* Simulator::Run returns: Stop was called or the event list is empty.   *)
RunReturns ==
    /\ phase = "run"
    /\ stopped \/ events = {}
    /\ phase' = "done"
    /\ UNCHANGED <<file, declared, flowNum, idx, startTime, allScheduled, completed,
                   started, finished, stopped, events, seq, now>>

Next ==
    \/ \E e \in events :
          \/ ScheduleFlowInputs(e)
          \/ QpFinish(e)
          \/ MonitorBuffer(e)
          \/ PeriodicMonitoring(e)
          \/ LinkDownEvent(e)
    \/ RunReturns

(* The event loop always runs the next event while there is one.        *)
Spec == Init /\ [][Next]_vars /\ WF_vars(Next)

-----------------------------------------------------------------------------
(* Properties. *)

(* The lines that can be read: those before the first unreadable line,   *)
(* up to the declared count.                                              *)
Readable == {i \in 0 .. declared - 1 : \A j \in 0 .. i : Line(file, j) # Bad}

(* When Simulator::Run returns, the flows that ran are exactly the lines  *)
(* that could be read, and each of them finished: qp_finish's Stop at     *)
(* completed_flows == flow_num, with flow_num shrunk by a failed read in  *)
(* ReadFlowInput, never cuts a flow short and never leaves a readable     *)
(* line unstarted, and no unreadable line is ever started.                *)
AllFlowsRunAtReturn ==
    phase = "done" => started = Readable /\ finished = Readable

(* Simulator::Run eventually returns: periodic_monitoring reschedules     *)
(* itself only while another event is pending, so the run ends once the  *)
(* flows and monitor_buffer are done even when Stop is never called.      *)
Termination == <>(phase = "done")
=============================================================================
