---------------------------- MODULE MCCostModel ----------------------------
(***************************************************************************)
(* Checks the pure cost functions of CostModel over bounded inputs.        *)
(* The state is one input per function; every step replaces one input by   *)
(* any other value of its set, so the steps of a behaviour range over all  *)
(* pairs of inputs and an action property compares a function at two      *)
(* inputs.  The input sets hold the class boundaries of every table.       *)
(***************************************************************************)
EXTENDS CostModel

\* Link delays in ms around the 512 ms ceiling of CalcDelayCost.
DelayInputs == {0, 1, 2, 10, 100, 511, 512, 513, 1000}
\* Link rates in Gbps around the thresholds 40, 80, ..., 400 of m_bw_thresh.
BwInputs == {0, 1, 25, 39, 40, 100, 200, 399, 400, 800}
\* Queue occupancies in bytes around 32-bit-truncated qThresh[9]
\* (205032704) and the intended thresholds 5e8 * i, up to 2^31 - 1.
QueueInputs == {0, 1, 1000000, 205032703, 205032704, 499999999,
                500000000, 2000000000, 2147483647}
\* Smoothed trends around the 25 Gbps thresholds 312500 * (i + 1).
TrendInputs == {-100, 0, 1, 312499, 312500, 625000, 3125000, 3200000,
                100000000}
\* Link rates of the shared rate table (bwSharedList) and one unlisted rate.
RateInputs == {25, 100, 400, 50}

VARIABLES ms, gbps, bytes, trend, rate

vars == <<ms, gbps, bytes, trend, rate>>

Init ==
    /\ ms \in DelayInputs
    /\ gbps \in BwInputs
    /\ bytes \in QueueInputs
    /\ trend \in TrendInputs
    /\ rate \in RateInputs

NewDelay == \E v \in DelayInputs : ms' = v /\ UNCHANGED <<gbps, bytes, trend, rate>>
NewBw    == \E v \in BwInputs : gbps' = v /\ UNCHANGED <<ms, bytes, trend, rate>>
NewQueue == \E v \in QueueInputs : bytes' = v /\ UNCHANGED <<ms, gbps, trend, rate>>
NewTrend == \E v \in TrendInputs : trend' = v /\ UNCHANGED <<ms, gbps, bytes, rate>>
NewRate  == \E v \in RateInputs : rate' = v /\ UNCHANGED <<ms, gbps, bytes, trend>>

Next == NewDelay \/ NewBw \/ NewQueue \/ NewTrend \/ NewRate

Spec == Init /\ [][Next]_vars

-----------------------------------------------------------------------------
Score == 0..255

\* The cost functions are 8-bit scores and monotone in their signal (spec
\* section 8): the delay cost never falls as delay grows, the bandwidth
\* cost never rises as bandwidth grows, and the queue level and the trend
\* level (at a fixed link rate) never fall as occupancy or trend grow.
\* This is about CalcDelayCost, CalcBwCost, CalcQLevel and CalcTrendLevel
\* and the threshold tables the constructor builds for them.
CostMonotone ==
    [][ /\ {CalcDelayCost(ms'), CalcBwCost(gbps'), CalcQLevel(bytes'),
            CalcTrendLevel(trend', rate', 1)} \subseteq Score
        /\ ms' >= ms => CalcDelayCost(ms') >= CalcDelayCost(ms)
        /\ gbps' >= gbps => CalcBwCost(gbps') <= CalcBwCost(gbps)
        /\ bytes' >= bytes => CalcQLevel(bytes') >= CalcQLevel(bytes)
        /\ rate' = rate /\ trend' >= trend =>
              CalcTrendLevel(trend', rate, 1) >= CalcTrendLevel(trend, rate, 1)
      ]_vars

\* The queue level the spec describes (section 4.3): the score of the
\* highest of kClassNum equally spaced thresholds m_bufferCapacity * i /
\* kClassNum (5e8 * i bytes, 1953125 * i in units of 256 bytes) that the
\* occupancy reaches, 0 for an empty queue.
SpecQLevel(b) ==
    IF b <= 0 THEN 0 ELSE TopClass(LAMBDA i : b \div 256 >= 1953125 * i, 0)

\* CalcQLevel grades a queue the way the spec's equally spaced thresholds
\* do.  This is about the qThresh table of the DCISwitchNode constructor,
\* whose elements are uint32_t.
QLevelMatchesSpec == CalcQLevel(bytes) = SpecQLevel(bytes)

=============================================================================
