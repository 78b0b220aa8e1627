----------------------------- MODULE Congestion -----------------------------
(***************************************************************************)
(* The CongestionController of transport/congestion.go: a window that      *)
(* jumps up when data is queued and back when the queue is empty, a burst  *)
(* ceiling that errors lower, a block size that grows rarely, and a        *)
(* timeout from round-trip times.  Every method holds the mutex, so a call *)
(* is one step, and calls come in any order.                               *)
(*                                                                         *)
(* burstCeilingPenalty is in hundredths, rounded down where the code has   *)
(* a float64.  Streaks count up to the value they are compared with.       *)
(***************************************************************************)
EXTENDS Integers

CONSTANTS
    WBaseline, WBurstTarget, WBurstAbsMax,
    CleanBurstsToRecover,       \* clean bursts in a row before a recovery step
    BlockMin, BlockSoftTarget, BlockSoftMax, BlockShrinkStep,
    CleanTxStreakForGrowth,     \* successes in a row before the block grows
    MinTimeout, MaxTimeout,
    Fastest, Slowest            \* the round trips of the network

(* The defaults satisfy it (congestion.go:46-58).                          *)
ASSUME CongestionAssumption ==
    /\ WBaseline \in Nat /\ WBurstTarget \in Nat /\ WBurstAbsMax \in Nat
    /\ WBaseline <= WBurstTarget /\ WBurstTarget <= WBurstAbsMax
    /\ CleanBurstsToRecover \in Nat \ {0} /\ CleanTxStreakForGrowth \in Nat \ {0}
    /\ BlockMin \in Nat /\ BlockSoftTarget \in Nat /\ BlockSoftMax \in Nat
    /\ BlockMin <= BlockSoftTarget /\ BlockSoftTarget <= BlockSoftMax
    /\ BlockShrinkStep \in Nat
    /\ MinTimeout \in Nat /\ MaxTimeout \in Nat /\ MinTimeout <= MaxTimeout
    /\ Fastest \in Nat /\ Slowest \in Nat /\ Fastest <= Slowest

VARIABLES
    currentWindow, inBurst,
    burstExpired,               \* burstTimeout has passed since burstStarted
    burstCeilingPenalty, cleanBurstStreak,
    currentBlockSize, cleanTxStreak,
    rttAvg, rttVar, rttSet,
    failedWindow, cleanBursts,     \* history: the window of the last failed burst,
                                \* and the clean bursts since
    blockCap, successes         \* history: the block left by the last truncated
                                \* response, and the successes in a row since

burst == <<inBurst, burstExpired, burstCeilingPenalty, cleanBurstStreak,
           failedWindow, cleanBursts>>
block == <<currentBlockSize, cleanTxStreak, blockCap, successes>>
rtt == <<rttAvg, rttVar, rttSet>>
vars == <<currentWindow, burst, block, rtt>>

AtMost(limit, n) == IF n > limit THEN limit ELSE n
AtLeast(limit, n) == IF n < limit THEN limit ELSE n

Init ==
    /\ currentWindow = WBaseline /\ inBurst = FALSE /\ burstExpired = FALSE
    /\ burstCeilingPenalty = 100 /\ cleanBurstStreak = 0
    /\ currentBlockSize = BlockSoftTarget /\ cleanTxStreak = 0
    /\ rttAvg = 0 /\ rttVar = 0 /\ rttSet = FALSE
    /\ failedWindow = 0 /\ cleanBursts = CleanBurstsToRecover
    /\ blockCap = BlockSoftMax /\ successes = CleanTxStreakForGrowth

-----------------------------------------------------------------------------
(* Bursts.                                                                 *)
Ceiling(penalty) ==
    AtMost(WBurstAbsMax, AtLeast(WBaseline, (WBurstTarget * penalty) \div 100))

OnQueueNonEmpty ==
    /\ ~inBurst
    /\ inBurst' = TRUE /\ burstExpired' = FALSE
    /\ currentWindow' = Ceiling(burstCeilingPenalty)
    /\ UNCHANGED <<burstCeilingPenalty, cleanBurstStreak, failedWindow, cleanBursts, block, rtt>>

(* endBurstLocked(true).                                                   *)
EndCleanBurst ==
    /\ inBurst' = FALSE /\ currentWindow' = WBaseline
    /\ LET streak   == AtMost(CleanBurstsToRecover, cleanBurstStreak + 1)
           recovers == streak >= CleanBurstsToRecover /\ burstCeilingPenalty < 100
       IN  /\ cleanBurstStreak' = IF recovers THEN 0 ELSE streak
           /\ burstCeilingPenalty' = IF recovers THEN AtMost(100, burstCeilingPenalty + 5)
                                     ELSE burstCeilingPenalty
    /\ cleanBursts' = AtMost(CleanBurstsToRecover, cleanBursts + 1)
    /\ failedWindow' = IF cleanBursts' = CleanBurstsToRecover THEN 0 ELSE failedWindow
    /\ UNCHANGED <<burstExpired, block, rtt>>

OnQueueEmpty == inBurst /\ EndCleanBurst

BurstTimePasses ==
    /\ inBurst /\ ~burstExpired
    /\ burstExpired' = TRUE
    /\ UNCHANGED <<currentWindow, inBurst, burstCeilingPenalty, cleanBurstStreak,
                   failedWindow, cleanBursts, block, rtt>>

CheckBurstTimeout == inBurst /\ burstExpired /\ EndCleanBurst

-----------------------------------------------------------------------------
(* Errors.                                                                 *)

(* Mutant: inBurst is tested after the burst has been ended.              *)
AbortBurst_EndsFirst ==
    /\ inBurst
    /\ inBurst' = FALSE
    /\ failedWindow' = currentWindow /\ cleanBursts' = 0
    /\ UNCHANGED <<burstExpired, burstCeilingPenalty, cleanBurstStreak>>

(* onErrorLocked in a burst: the next one has a lower ceiling.             *)
AbortBurst ==
    /\ inBurst
    /\ inBurst' = FALSE
    /\ burstCeilingPenalty' = AtLeast(20, (burstCeilingPenalty * 8) \div 10)
    /\ cleanBurstStreak' = 0
    /\ failedWindow' = currentWindow /\ cleanBursts' = 0
    /\ UNCHANGED burstExpired

OnErrorLocked == AbortBurst \/ (~inBurst /\ UNCHANGED burst)

(* The decrement comes after the burst has ended.                          *)
OnTimeoutOrServerError ==
    /\ OnErrorLocked
    /\ LET window == IF inBurst THEN WBaseline ELSE currentWindow
       IN  currentWindow' = IF window > WBaseline THEN window - 1 ELSE window
    /\ cleanTxStreak' = 0
    /\ successes' = IF successes = CleanTxStreakForGrowth THEN successes ELSE 0
    /\ UNCHANGED <<currentBlockSize, blockCap, rtt>>

Shrunk(size) == IF size > BlockMin + BlockShrinkStep THEN size - BlockShrinkStep ELSE BlockMin

OnIncompleteResponse ==
    /\ OnErrorLocked
    /\ currentWindow' = IF inBurst THEN WBaseline ELSE currentWindow
    /\ currentBlockSize' = Shrunk(currentBlockSize)
    /\ cleanTxStreak' = 0
    /\ blockCap' = currentBlockSize' /\ successes' = 0
    /\ UNCHANGED rtt

-----------------------------------------------------------------------------
(* Successes.                                                              *)

(* Go's division rounds towards zero.                                      *)
Quotient(n, d) == IF n >= 0 THEN n \div d ELSE -((-n) \div d)
Distance(m, n) == IF m >= n THEN m - n ELSE n - m

(* Mutant: the deviation keeps its sign.                                   *)
UpdateRTT_Signed(sample) ==
    /\ rttSet' = TRUE
    /\ rttAvg' = IF rttSet THEN rttAvg + Quotient(sample - rttAvg, 8) ELSE sample
    /\ rttVar' = IF rttSet THEN rttVar + Quotient(sample - rttAvg - rttVar, 4)
                 ELSE sample \div 2

(* updateRTTLocked.                                                        *)
UpdateRTT(sample) ==
    /\ rttSet' = TRUE
    /\ rttAvg' = IF rttSet THEN rttAvg + Quotient(sample - rttAvg, 8) ELSE sample
    /\ rttVar' = IF rttSet THEN rttVar + Quotient(Distance(sample, rttAvg) - rttVar, 4)
                 ELSE sample \div 2

OnSuccess(sample) ==
    /\ UpdateRTT(sample)
    /\ LET streak == cleanTxStreak + 1
           grows  == streak >= CleanTxStreakForGrowth
       IN  /\ cleanTxStreak' = IF grows THEN 0 ELSE streak
           /\ currentBlockSize' = IF grows
                                  THEN AtMost(BlockSoftMax, (currentBlockSize * 11) \div 10)
                                  ELSE currentBlockSize
    /\ successes' = AtMost(CleanTxStreakForGrowth, successes + 1)
    /\ blockCap' = IF successes' = CleanTxStreakForGrowth THEN BlockSoftMax ELSE blockCap
    /\ UNCHANGED <<currentWindow, burst>>

(* Timeout().                                                              *)
Timeout ==
    IF ~rttSet THEN MinTimeout
    ELSE AtMost(MaxTimeout, AtLeast(MinTimeout, rttAvg + 4 * rttVar))

-----------------------------------------------------------------------------
Next ==
    \/ OnQueueNonEmpty
    \/ OnQueueEmpty
    \/ BurstTimePasses
    \/ CheckBurstTimeout
    \/ OnTimeoutOrServerError
    \/ OnIncompleteResponse
    \/ \E sample \in Fastest .. Slowest : OnSuccess(sample)

Spec == Init /\ [][Next]_vars

-----------------------------------------------------------------------------
(* Types and limits: the window is the baseline outside bursts and at most *)
(* the burst target in one, the block size stays between its hard floor    *)
(* and its soft ceiling, and a burst's ceiling is never less than a fifth  *)
(* (congestion.go:17-36, :167-169).                                        *)
TypeOK ==
    /\ inBurst \in BOOLEAN /\ burstExpired \in BOOLEAN
    /\ currentWindow \in WBaseline .. WBurstTarget
    /\ ~inBurst => currentWindow = WBaseline
    /\ burstCeilingPenalty \in 20 .. 100
    /\ cleanBurstStreak \in 0 .. CleanBurstsToRecover
    /\ currentBlockSize \in BlockMin .. BlockSoftMax
    /\ cleanTxStreak \in 0 .. CleanTxStreakForGrowth - 1
    /\ rttSet \in BOOLEAN /\ rttAvg \in Nat /\ rttVar \in Nat
    /\ failedWindow \in Nat /\ cleanBursts \in 0 .. CleanBurstsToRecover
    /\ blockCap \in BlockMin .. BlockSoftMax /\ successes \in 0 .. CleanTxStreakForGrowth

(* Until CleanBurstsToRecover bursts in a row were clean, a burst after a  *)
(* failed one has at most four fifths of its window (plus one, for the     *)
(* rounding), down to a fifth of the target; and until                     *)
(* CleanTxStreakForGrowth transactions in a row succeeded, the block stays *)
(* at what the last truncated response left (congestion.go:144-171,        *)
(* :192-220).                                                              *)
BacksOff ==
    /\ inBurst /\ cleanBursts < CleanBurstsToRecover =>
          \/ currentWindow <= AtLeast(WBaseline, WBurstTarget \div 5)
          \/ 5 * currentWindow <= 4 * (failedWindow + 1)
    /\ currentBlockSize <= blockCap

(* The smoothed round trip stays among the network's round trips, and the  *)
(* timeout is never less than it, up to its ceiling                        *)
(* (congestion.go:224-256).                                                *)
TimeoutCoversRtt ==
    rttSet => /\ rttAvg \in Fastest .. Slowest
              /\ Timeout >= AtMost(MaxTimeout, rttAvg)
=============================================================================
