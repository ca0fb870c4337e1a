----------------------------- MODULE CostModel -----------------------------
(***************************************************************************)
(* The cost functions of the DCI switch path selector                      *)
(* (src/simulation/src/point-to-point/model/dci-switch-node-v2.cc).        *)
(*                                                                         *)
(* Every function maps link or queue signals to an 8-bit score.  The       *)
(* tables built by the DCISwitchNode constructor are operators here.       *)
(* Arithmetic follows the C++ types: integer division truncates, a right   *)
(* shift of a signed value is floor division (\div), and the queue        *)
(* threshold table keeps the 32-bit truncation of its uint32_t elements.   *)
(***************************************************************************)
EXTENDS Integers, FiniteSetsExt

\* kClassNum: number of classes of every bucketed score.
kClassNum == 10

\* levelScore[i] = 255 * (i + 1) / kClassNum, shared by all scores.
LevelScore(i) == (255 * (i + 1)) \div kClassNum

\* The loops "for i = kClassNum-1 downto 0: if reached(i) return
\* levelScore[i]; return dflt": the score of the highest class reached.
TopClass(Reached(_), dflt) ==
    LET hits == {i \in 0..(kClassNum - 1) : Reached(i)}
    IN  IF hits = {} THEN dflt ELSE LevelScore(Max(hits))

(***************************************************************************)
(* Static cost of a link.                                                  *)
(***************************************************************************)

\* MAX_BW = 400 Gbps; m_bw_thresh[i] = MAX_BW * (i + 1) / kClassNum.
MAX_BW == 400
BwThresh(i) == (MAX_BW * (i + 1)) \div kClassNum

\* delay_ms = static_cast<uint16_t>(m_linkDelay[intf] / 1e6): the link
\* delay in ns truncated to whole milliseconds (TLC integers stay far
\* below the uint16 limit of 65535 ms).
DelayMs(delayNs) == delayNs \div 1000000

\* CalcDelayCost: linear ramp, (ms * 255) >> 9, saturating above 512 ms.
CalcDelayCost(ms) == IF ms > 512 THEN 255 ELSE (ms * 255) \div 512

\* Seeded fault: the bandwidth class score used as the cost without
\* inverting it.
CalcBwCostUninverted(gbps) ==
    LET hits == {i \in 0..(kClassNum - 1) : gbps >= BwThresh(i)}
    IN  IF hits = {} THEN 0 ELSE LevelScore(Max(hits))

\* CalcBwCost: 255 - levelScore of the highest bandwidth class reached;
\* 255 below the lowest threshold.  The argument is bw_bps / 1e9.
CalcBwCost(gbps) ==
    LET hits == {i \in 0..(kClassNum - 1) : gbps >= BwThresh(i)}
    IN  IF hits = {} THEN 255 ELSE 255 - LevelScore(Max(hits))

\* clamp_uint8(value, 0, 255)
Clamp8(v) == IF v < 0 THEN 0 ELSE IF v > 255 THEN 255 ELSE v

\* C_static = clamp((w_dl * delay_score + w_bw * bw_score) >> S_static)
\* with the constants of GetOutDev: w_dl = 3, w_bw = 1, S_static = 2.
StaticCost(delayNs, gbps) ==
    Clamp8((3 * CalcDelayCost(DelayMs(delayNs)) + CalcBwCost(gbps)) \div 4)

(***************************************************************************)
(* Queue level.                                                            *)
(*                                                                         *)
(* qThresh[i] = m_bufferCapacity * i / kClassNum is computed in 64 bits    *)
(* and stored in a std::vector<uint32_t>, so it is reduced modulo 2^32.    *)
(* m_bufferCapacity = 5e9 bytes = 256 * 19531250; in units of 256 bytes    *)
(* both the quotient and the reduction (2^32 = 256 * 2^24) are exact, and  *)
(* bytes >= 256 * t iff bytes \div 256 >= t.                               *)
(***************************************************************************)
BufferCapacity256 == 19531250
QThresh256(i) == ((BufferCapacity256 * i) \div kClassNum) % (2^24)

\* CalcQLevel(port) on queueBytes_cur: 0 for an empty queue, otherwise the
\* score of the highest threshold the occupancy reaches.
CalcQLevel(bytes) ==
    IF bytes <= 0 THEN 0
    ELSE TopClass(LAMBDA i : bytes \div 256 >= QThresh256(i), 0)

(***************************************************************************)
(* Trend level.                                                            *)
(***************************************************************************)

\* trendThreshNorm[rate][i] = bytes_per_ms * (i + 1) / kClassNum with
\* bytes_per_ms = rate_gbps * 1e9 / 8 / 1000 = rate_gbps * 125000.  The
\* table built lazily for an unlisted rate uses the same formula as the
\* one built in the constructor, so the cache is not observable.
TrendThresh(gbps, i) == ((gbps * 125000) * (i + 1)) \div kClassNum

\* CalcTrendLevel: 0 unless the smoothed trend is positive; otherwise the
\* score of the highest class whose threshold, scaled by the sampling
\* interval in ms (at least 1), the trend reaches.
CalcTrendLevel(trend, gbps, intervalMs) ==
    IF trend <= 0 THEN 0
    ELSE TopClass(LAMBDA i : trend >= TrendThresh(gbps, i) * intervalMs, 0)

\* UpdateTrend: trend <- trend - (trend >> K) + (delta >> K), K = m_K = 3,
\* delta = cur - prev (int32; exact for occupancies below 2^31), then
\* queueBytes_prev <- queueBytes_cur.
UpdateTrend(st) ==
    LET delta == st.cur - st.prev
    IN  [st EXCEPT !.trend = st.trend - (st.trend \div 8) + (delta \div 8),
                   !.prev  = st.cur]

(***************************************************************************)
(* Duration penalty: a hysteresis counter on the queue level.              *)
(***************************************************************************)

\* Seeded fault: the decrement without the floor at 0.
UpdateDurationPenaltyUnfloored(st, qlevel) ==
    IF qlevel >= 204 THEN [st EXCEPT !.dur = @ + 1]
    ELSE IF qlevel <= 102 THEN [st EXCEPT !.dur = @ - 1]
    ELSE st

\* UpdateDurationPenalty: +1 when QLevel >= 255 * 0.8 (= 204), -1 floored
\* at 0 when QLevel <= 255 * 0.4 (= 102), unchanged in between.
UpdateDurationPenalty(st, qlevel) ==
    IF qlevel >= 204 THEN [st EXCEPT !.dur = @ + 1]
    ELSE IF qlevel <= 102 THEN [st EXCEPT !.dur = IF @ > 0 THEN @ - 1 ELSE 0]
    ELSE st

\* CalcDurationPenalty: min(durCounter >> 2, 255)
CalcDurationPenalty(dur) == IF dur \div 4 < 255 THEN dur \div 4 ELSE 255

(***************************************************************************)
(* Composite cost (GetOutDev, steps 1.2 and 1.4).                          *)
(***************************************************************************)

\* C_IC = clamp((w_ql * Qlevel + w_dp * DurationPenalty) >> S_IC),
\* w_ql = 3, w_dp = 1, S_IC = 2.
InstCost(qlevel, penalty) == Clamp8((3 * qlevel + penalty) \div 4)

\* total = clamp((alpha * C_static + beta * C_IC + gamma * C_TC) >> S_final),
\* alpha = 4, beta = 2, gamma = 2, S_final = 3.
TotalCost(cs, ci, ct) == Clamp8((4 * cs + 2 * ci + 2 * ct) \div 8)

=============================================================================
