--------------------------- MODULE CongestionProofs -------------------------
(***************************************************************************)
(* The limits of the CongestionController, its backing off and its timeout *)
(* for all windows, block sizes, streaks, timeouts and round trips.        *)
(***************************************************************************)
EXTENDS Congestion, TLAPS

Lowest == AtLeast(WBaseline, WBurstTarget \div 5)

(* What BacksOff asks of a window.                                         *)
Below(window, failed) == window <= Lowest \/ 5 * window <= 4 * (failed + 1)

(* TypeOK, in parts.                                                       *)
Flags == inBurst \in BOOLEAN /\ burstExpired \in BOOLEAN /\ rttSet \in BOOLEAN

BurstType ==
    /\ currentWindow \in WBaseline .. WBurstTarget
    /\ ~inBurst => currentWindow = WBaseline
    /\ burstCeilingPenalty \in 20 .. 100
    /\ cleanBurstStreak \in 0 .. CleanBurstsToRecover
    /\ failedWindow \in Nat /\ cleanBursts \in 0 .. CleanBurstsToRecover

BlockType ==
    /\ currentBlockSize \in BlockMin .. BlockSoftMax
    /\ cleanTxStreak \in 0 .. CleanTxStreakForGrowth - 1
    /\ blockCap \in BlockMin .. BlockSoftMax
    /\ successes \in 0 .. CleanTxStreakForGrowth

(* In a burst the window is the ceiling; while clean bursts are missing    *)
(* both streaks agree, so the penalty is still that of the failed burst.   *)
CeilingInv ==
    /\ inBurst => currentWindow = Ceiling(burstCeilingPenalty)
    /\ cleanBursts < CleanBurstsToRecover =>
          /\ cleanBurstStreak = cleanBursts
          /\ Below(Ceiling(burstCeilingPenalty), failedWindow)

BlockInv ==
    /\ currentBlockSize <= blockCap
    /\ successes < CleanTxStreakForGrowth => cleanTxStreak = successes
    /\ successes = CleanTxStreakForGrowth => blockCap = BlockSoftMax

RttInv ==
    /\ rttAvg \in Nat /\ rttVar \in Nat
    /\ rttSet => rttAvg \in Fastest .. Slowest

IInv == Flags /\ BurstType /\ BlockType /\ CeilingInv /\ BlockInv /\ RttInv

-----------------------------------------------------------------------------
(* What the operators compute.                                             *)
LEMMA Product ==
    ASSUME NEW t \in Nat, NEW p \in 20 .. 100
    PROVE  t * p \in Nat /\ t * p <= t * 100 /\ t * p >= t * 20
OBVIOUS

LEMMA CeilingBetween ==
    ASSUME NEW p \in 20 .. 100
    PROVE  Ceiling(p) \in WBaseline .. WBurstTarget
PROOF
<1> DEFINE n == WBurstTarget * p
<1>1. n \in Nat /\ n <= WBurstTarget * 100
    BY CongestionAssumption, Product
<1>2. n \div 100 \in Nat /\ n \div 100 <= WBurstTarget
    <2> HIDE DEF n
    <2> QED BY <1>1, CongestionAssumption
<1> HIDE DEF n
<1>3. AtMost(WBurstAbsMax, AtLeast(WBaseline, n \div 100)) \in WBaseline .. WBurstTarget
    BY <1>2, CongestionAssumption DEF AtMost, AtLeast
<1> QED BY <1>3 DEF Ceiling, n

(* A failed burst lowers the next one by a fifth.                          *)
LEMMA PenaltyLowers ==
    ASSUME NEW p \in 20 .. 100
    PROVE  LET q == AtLeast(20, (p * 8) \div 10)
           IN  q \in 20 .. 100 /\ Below(Ceiling(q), Ceiling(p))
PROOF
<1> DEFINE q == AtLeast(20, (p * 8) \div 10)
           m == WBurstTarget * p
           n == WBurstTarget * q
<1>1. q \in 20 .. 100 /\ (q = 20 \/ 5 * q <= 4 * p)
    BY DEF AtLeast
<1> HIDE DEF q
<1>2. m \in Nat /\ n \in Nat /\ m <= WBurstTarget * 100 /\ n <= WBurstTarget * 100
    BY <1>1, CongestionAssumption, Product
<1>3. CASE q = 20
    <2>1. n \div 100 = WBurstTarget \div 5
        BY <1>3, CongestionAssumption
    <2> HIDE DEF n
    <2>2. AtMost(WBurstAbsMax, AtLeast(WBaseline, n \div 100)) <= Lowest
        BY <2>1, CongestionAssumption DEF AtMost, AtLeast, Lowest
    <2>3. Ceiling(q) <= Lowest
        BY <2>2 DEF Ceiling, n
    <2> QED BY <1>1, <2>3 DEF Below, q
<1>4. CASE 5 * q <= 4 * p
    <2>1. 5 * n <= 4 * m
        <3>1. WBurstTarget * (5 * q) <= WBurstTarget * (4 * p)
            BY <1>1, <1>4, CongestionAssumption
        <3> QED BY <3>1, <1>1, CongestionAssumption
    <2> HIDE DEF m, n
    <2> DEFINE v == m \div 100
               w == n \div 100
    <2>2. v \in Nat /\ w \in Nat /\ 100 * w <= n /\ m < 100 * (v + 1)
        BY <1>2
    <2>3. 5 * w <= 4 * (v + 1)
        BY <1>2, <2>1, <2>2
    <2>4. v <= WBurstTarget /\ w <= WBurstTarget
        BY <1>2, CongestionAssumption
    <2> HIDE DEF v, w
    <2>5. Below(AtMost(WBurstAbsMax, AtLeast(WBaseline, w)),
                AtMost(WBurstAbsMax, AtLeast(WBaseline, v)))
        BY <2>2, <2>3, <2>4, CongestionAssumption DEF Below, Lowest, AtMost, AtLeast
    <2> QED BY <1>1, <2>5 DEF Ceiling, v, w, m, n, q
<1> QED BY <1>1, <1>3, <1>4

(* A step towards a sample does not overshoot, whatever the rounding.      *)
LEMMA Average ==
    ASSUME NEW lo \in Int, NEW hi \in Int, NEW a \in lo .. hi, NEW b \in lo .. hi
    PROVE  /\ a + Quotient(b - a, 8) \in lo .. hi
           /\ a + Quotient(b - a, 4) \in lo .. hi
BY DEF Quotient

-----------------------------------------------------------------------------
LEMMA CongestionInit == Init => IInv
PROOF
<1> SUFFICES ASSUME Init PROVE IInv
    OBVIOUS
<1> USE CongestionAssumption DEF Init
<1>1. Flags BY DEF Flags
<1>2. BurstType BY DEF BurstType
<1>3. BlockType BY DEF BlockType
<1>4. CeilingInv BY DEF CeilingInv
<1>5. BlockInv BY DEF BlockInv
<1>6. RttInv BY DEF RttInv
<1> QED BY <1>1, <1>2, <1>3, <1>4, <1>5, <1>6 DEF IInv

(* The end of a clean burst raises the ceiling only with a full streak.    *)
LEMMA CleanEnds ==
    ASSUME IInv, inBurst, EndCleanBurst
    PROVE  IInv'
PROOF
<1> USE CongestionAssumption
<1> DEFINE streak == AtMost(CleanBurstsToRecover, cleanBurstStreak + 1)
           recovers == streak >= CleanBurstsToRecover /\ burstCeilingPenalty < 100
<1>1. /\ burstCeilingPenalty \in 20 .. 100
      /\ cleanBurstStreak \in 0 .. CleanBurstsToRecover
      /\ cleanBursts \in 0 .. CleanBurstsToRecover
    BY DEF IInv, BurstType
<1>2. streak \in 0 .. CleanBurstsToRecover
    BY <1>1 DEF AtMost
<1>3. /\ cleanBurstStreak' = IF recovers THEN 0 ELSE streak
      /\ burstCeilingPenalty' = IF recovers THEN AtMost(100, burstCeilingPenalty + 5)
                                ELSE burstCeilingPenalty
      /\ cleanBursts' = AtMost(CleanBurstsToRecover, cleanBursts + 1)
      /\ failedWindow' = IF cleanBursts' = CleanBurstsToRecover THEN 0 ELSE failedWindow
      /\ inBurst' = FALSE /\ currentWindow' = WBaseline
      /\ UNCHANGED <<burstExpired, block, rtt>>
    BY DEF EndCleanBurst
<1>4. /\ burstCeilingPenalty' \in 20 .. 100
      /\ cleanBurstStreak' \in 0 .. CleanBurstsToRecover
      /\ cleanBursts' \in 0 .. CleanBurstsToRecover
    BY <1>1, <1>2, <1>3 DEF AtMost
<1>5. BurstType'
    BY <1>3, <1>4 DEF IInv, BurstType
<1>6. CeilingInv'
    <2>1. CASE cleanBursts' < CleanBurstsToRecover
        <3>1. cleanBursts < CleanBurstsToRecover /\ cleanBursts' = cleanBursts + 1
            BY <1>1, <1>3, <2>1 DEF AtMost
        <3>2. streak = cleanBurstStreak + 1 /\ ~recovers
            BY <3>1, <1>1, <2>1 DEF IInv, CeilingInv, AtMost
        <3> QED BY <3>1, <3>2, <1>3, <2>1 DEF IInv, CeilingInv, Below, Ceiling, Lowest
    <2>2. CASE ~(cleanBursts' < CleanBurstsToRecover)
        BY <2>2, <1>3 DEF CeilingInv
    <2> QED BY <2>1, <2>2
<1>7. BlockType' /\ BlockInv' /\ RttInv'
    BY <1>3 DEF IInv, BlockType, BlockInv, RttInv, block, rtt
<1>8. Flags'
    BY <1>3 DEF IInv, Flags, rtt
<1> QED BY <1>5, <1>6, <1>7, <1>8 DEF IInv

(* An error ends the burst, if there is one, with a lower ceiling for the  *)
(* next.                                                                   *)
LEMMA ErrorBacksOff ==
    ASSUME IInv, OnErrorLocked, currentWindow' = WBaseline, UNCHANGED rtt
    PROVE  Flags' /\ BurstType' /\ CeilingInv'
PROOF
<1> USE CongestionAssumption
<1>1. CASE AbortBurst
    <2>1. /\ inBurst /\ inBurst' = FALSE /\ burstExpired' = burstExpired
          /\ burstCeilingPenalty' = AtLeast(20, (burstCeilingPenalty * 8) \div 10)
          /\ cleanBurstStreak' = 0 /\ failedWindow' = currentWindow /\ cleanBursts' = 0
        BY <1>1 DEF AbortBurst
    <2>2. burstCeilingPenalty \in 20 .. 100 /\ currentWindow \in Nat
        BY DEF IInv, BurstType
    <2>3. currentWindow = Ceiling(burstCeilingPenalty)
        BY <2>1 DEF IInv, CeilingInv
    <2>4. /\ burstCeilingPenalty' \in 20 .. 100
          /\ Below(Ceiling(burstCeilingPenalty'), failedWindow')
        BY <2>1, <2>2, <2>3, PenaltyLowers
    <2>5. CeilingInv'
        BY <2>1, <2>4 DEF CeilingInv, Below, Lowest, Ceiling
    <2>6. BurstType'
        BY <2>1, <2>2, <2>4 DEF BurstType
    <2>7. Flags'
        BY <2>1 DEF IInv, Flags, rtt
    <2> QED BY <2>5, <2>6, <2>7
<1>2. CASE ~inBurst /\ UNCHANGED burst
    <2>1. CeilingInv'
        BY <1>2 DEF IInv, CeilingInv, Below, Ceiling, Lowest, burst
    <2>2. BurstType'
        BY <1>2 DEF IInv, BurstType, burst
    <2>3. Flags'
        BY <1>2 DEF IInv, Flags, burst, rtt
    <2> QED BY <2>1, <2>2, <2>3
<1> QED BY <1>1, <1>2 DEF OnErrorLocked

LEMMA CongestionStep == IInv /\ [Next]_vars => IInv'
PROOF
<1> SUFFICES ASSUME IInv, [Next]_vars PROVE IInv'
    OBVIOUS
<1> USE CongestionAssumption
<1>1. ASSUME OnQueueNonEmpty PROVE IInv'
    <2>1. /\ ~inBurst /\ inBurst' = TRUE /\ burstExpired' = FALSE
          /\ currentWindow' = Ceiling(burstCeilingPenalty)
          /\ UNCHANGED <<burstCeilingPenalty, cleanBurstStreak, failedWindow,
                         cleanBursts, block, rtt>>
        BY <1>1 DEF OnQueueNonEmpty
    <2>2. currentWindow' \in WBaseline .. WBurstTarget
        BY <2>1, CeilingBetween DEF IInv, BurstType
    <2>3. BurstType'
        BY <2>1, <2>2 DEF IInv, BurstType
    <2>4. CeilingInv'
        BY <2>1 DEF IInv, CeilingInv, Below, Ceiling, Lowest
    <2>5. BlockType' /\ BlockInv' /\ RttInv'
        BY <2>1 DEF IInv, BlockType, BlockInv, RttInv, block, rtt
    <2>6. Flags'
        BY <2>1 DEF IInv, Flags, rtt
    <2> QED BY <2>3, <2>4, <2>5, <2>6 DEF IInv
<1>2. ASSUME OnQueueEmpty PROVE IInv'
    BY <1>2, CleanEnds DEF OnQueueEmpty
<1>3. ASSUME BurstTimePasses PROVE IInv'
    <2>1. /\ burstExpired' = TRUE
          /\ UNCHANGED <<currentWindow, inBurst, burstCeilingPenalty, cleanBurstStreak,
                         failedWindow, cleanBursts, block, rtt>>
        BY <1>3 DEF BurstTimePasses
    <2>2. BurstType' /\ BlockType'
        BY <2>1 DEF IInv, BurstType, BlockType, block
    <2>3. CeilingInv' /\ BlockInv' /\ RttInv'
        BY <2>1 DEF IInv, CeilingInv, BlockInv, RttInv, Below, Ceiling, Lowest, block, rtt
    <2>4. Flags'
        BY <2>1 DEF IInv, Flags, rtt
    <2> QED BY <2>2, <2>3, <2>4 DEF IInv
<1>4. ASSUME CheckBurstTimeout PROVE IInv'
    BY <1>4, CleanEnds DEF CheckBurstTimeout
<1>5. ASSUME OnTimeoutOrServerError PROVE IInv'
    <2>1. /\ OnErrorLocked /\ cleanTxStreak' = 0
          /\ currentWindow' = WBaseline
          /\ successes' = IF successes = CleanTxStreakForGrowth THEN successes ELSE 0
          /\ UNCHANGED <<currentBlockSize, blockCap, rtt>>
        BY <1>5 DEF OnTimeoutOrServerError, IInv, BurstType
    <2>2. Flags' /\ BurstType' /\ CeilingInv'
        BY <2>1, ErrorBacksOff
    <2>3. BlockType' /\ BlockInv' /\ RttInv'
        BY <2>1 DEF IInv, BlockType, BlockInv, RttInv, rtt
    <2> QED BY <2>2, <2>3 DEF IInv
<1>6. ASSUME OnIncompleteResponse PROVE IInv'
    <2>1. /\ OnErrorLocked /\ cleanTxStreak' = 0
          /\ currentWindow' = WBaseline
          /\ currentBlockSize' = Shrunk(currentBlockSize)
          /\ blockCap' = currentBlockSize' /\ successes' = 0
          /\ UNCHANGED rtt
        BY <1>6 DEF OnIncompleteResponse, IInv, BurstType
    <2>2. Shrunk(currentBlockSize) \in BlockMin .. BlockSoftMax
        BY DEF Shrunk, IInv, BlockType
    <2>3. Flags' /\ BurstType' /\ CeilingInv'
        BY <2>1, ErrorBacksOff
    <2>4. BlockType' /\ BlockInv' /\ RttInv'
        BY <2>1, <2>2 DEF IInv, BlockType, BlockInv, RttInv, rtt
    <2> QED BY <2>3, <2>4 DEF IInv
<1>7. ASSUME NEW sample \in Fastest .. Slowest, OnSuccess(sample) PROVE IInv'
    <2> DEFINE streak == cleanTxStreak + 1
               grows == streak >= CleanTxStreakForGrowth
    <2>1. /\ UpdateRTT(sample)
          /\ cleanTxStreak' = IF grows THEN 0 ELSE streak
          /\ currentBlockSize' = IF grows
                                 THEN AtMost(BlockSoftMax, (currentBlockSize * 11) \div 10)
                                 ELSE currentBlockSize
          /\ successes' = AtMost(CleanTxStreakForGrowth, successes + 1)
          /\ blockCap' = IF successes' = CleanTxStreakForGrowth THEN BlockSoftMax ELSE blockCap
          /\ UNCHANGED <<currentWindow, burst>>
        BY <1>7 DEF OnSuccess
    <2>2. /\ currentBlockSize' \in BlockMin .. BlockSoftMax
          /\ cleanTxStreak' \in 0 .. CleanTxStreakForGrowth - 1
          /\ successes' \in 0 .. CleanTxStreakForGrowth
          /\ blockCap' \in BlockMin .. BlockSoftMax
        BY <2>1 DEF IInv, BlockType, AtMost
    <2>3. rttSet' = TRUE /\ rttAvg' \in Fastest .. Slowest /\ rttVar' \in Nat
        <3>1. CASE ~rttSet
            BY <2>1, <3>1 DEF UpdateRTT
        <3>2. CASE rttSet
            <4>1. rttAvg \in Fastest .. Slowest /\ rttAvg \in Nat /\ rttVar \in Nat
                BY <3>2 DEF IInv, RttInv
            <4>2. rttAvg' \in Fastest .. Slowest
                <5>1. rttAvg' = rttAvg + Quotient(sample - rttAvg, 8)
                    BY <2>1, <3>2 DEF UpdateRTT
                <5>2. rttAvg + Quotient(sample - rttAvg, 8) \in Fastest .. Slowest
                    <6>1. /\ Fastest \in Int /\ Slowest \in Int
                          /\ rttAvg \in Fastest .. Slowest /\ sample \in Fastest .. Slowest
                        BY <4>1
                    <6> QED BY ONLY <6>1, Average
                <5> QED BY <5>1, <5>2
            <4>3. Distance(sample, rttAvg) \in Nat
                BY <4>1 DEF Distance
            <4>4. rttVar' \in Nat
                <5> DEFINE d == Distance(sample, rttAvg)
                <5>1. rttVar' = rttVar + Quotient(d - rttVar, 4)
                    BY <2>1, <3>2 DEF UpdateRTT
                <5>2. d \in Nat
                    BY <4>3
                <5> HIDE DEF d
                <5>3. /\ 0 \in Int /\ d + rttVar \in Int
                      /\ rttVar \in 0 .. (d + rttVar) /\ d \in 0 .. (d + rttVar)
                    BY <5>2, <4>1
                <5>4. rttVar + Quotient(d - rttVar, 4) \in 0 .. (d + rttVar)
                    BY ONLY <5>3, Average
                <5> QED BY <5>1, <5>3, <5>4
            <4> QED BY <2>1, <4>2, <4>4 DEF UpdateRTT
        <3> QED BY <3>1, <3>2
    <2>4. BurstType' /\ BlockType'
        BY <2>1, <2>2 DEF IInv, BurstType, BlockType, burst
    <2>5. CeilingInv'
        BY <2>1 DEF IInv, CeilingInv, Below, Ceiling, Lowest, burst
    <2>6. BlockInv'
        BY <2>1, <2>2 DEF IInv, BlockType, BlockInv, AtMost
    <2>7. RttInv'
        BY <2>3, CongestionAssumption DEF RttInv
    <2>8. Flags'
        BY <2>1, <2>3 DEF IInv, Flags, burst
    <2> QED BY <2>4, <2>5, <2>6, <2>7, <2>8 DEF IInv
<1>8. CASE UNCHANGED vars
    <2>1. BurstType' /\ BlockType'
        BY <1>8 DEF IInv, BurstType, BlockType, vars, burst, block
    <2>2. CeilingInv' /\ BlockInv' /\ RttInv'
        BY <1>8 DEF IInv, CeilingInv, BlockInv, RttInv, Below, Ceiling, Lowest,
                    vars, burst, block, rtt
    <2>3. Flags'
        BY <1>8 DEF IInv, Flags, vars, burst, rtt
    <2> QED BY <2>1, <2>2, <2>3 DEF IInv
<1> QED BY <1>1, <1>2, <1>3, <1>4, <1>5, <1>6, <1>7, <1>8 DEF Next

LEMMA InvariantHolds == Spec => []IInv
PROOF
<1> QED BY CongestionInit, CongestionStep, PTL DEF Spec

-----------------------------------------------------------------------------
(* Window, block size, penalty and streaks stay within their limits for    *)
(* all settings of the controller (congestion.go:17-36).                   *)
THEOREM TypeCorrect == Spec => []TypeOK
PROOF
<1>1. IInv => TypeOK
    BY DEF IInv, Flags, BurstType, BlockType, RttInv, TypeOK
<1> QED BY <1>1, InvariantHolds, PTL

(* After a failed burst the next ones are a fifth smaller, and after a     *)
(* truncated response the block stays at what was left, each until its     *)
(* streak is full again (congestion.go:144-171, :192-220).                 *)
THEOREM AlwaysBacksOff == Spec => []BacksOff
PROOF
<1>1. IInv => BacksOff
    BY DEF IInv, CeilingInv, BlockInv, BacksOff, Below, Lowest
<1> QED BY <1>1, InvariantHolds, PTL

(* The timeout is never less than the smoothed round trip, up to           *)
(* MaxTimeout, whatever the network's round trips                          *)
(* (congestion.go:224-256).                                                *)
THEOREM TimeoutAlwaysCovers == Spec => []TimeoutCoversRtt
PROOF
<1>1. IInv => TimeoutCoversRtt
    BY CongestionAssumption DEF IInv, RttInv, TimeoutCoversRtt, Timeout, AtMost, AtLeast
<1> QED BY <1>1, InvariantHolds, PTL
=============================================================================
