----------------------------- MODULE PidProofs -----------------------------
(***************************************************************************)
(* Proofs about Pid, for all errors, gains, slider positions and limits.   *)
(***************************************************************************)
EXTENDS Pid, SequenceLemmas, SequenceTheorems, TLAPS

(* What the tuner enlarges or reduces grows by a tenth at most. *)
LEMMA TenthsBounds ==
    ASSUME NEW x \in Int, NEW n \in {9, 11}
    PROVE  Tenths(x, n) \in Int /\ 10 * Abs(Tenths(x, n)) <= n * Abs(x)
<1>1. CASE n = 9
  BY <1>1 DEF Tenths, Abs
<1>2. CASE n = 11
  BY <1>2 DEF Tenths, Abs
<1> QED  BY <1>1, <1>2

(* The errors of a frame: the integral is below the windup limit. *)
LEMMA ErrorsAfterBounds ==
    ASSUME error \in [Gains -> Int], NEW cte \in Int
    PROVE  /\ ErrorsAfter(cte) \in [Gains -> Int]
           /\ Abs(ErrorsAfter(cte)[2]) < WindupLimit
<1>1. /\ error[1] \in Int /\ error[2] \in Int
      /\ WindupLimit \in Nat \ {0}
  BY WindupAssumption, InitialAssumption DEF Gains
<1>2. /\ ErrorsAfter(cte)[1] = cte
      /\ ErrorsAfter(cte)[2] = IF UnderWindupLimit(cte) THEN error[2] + cte ELSE 0
      /\ ErrorsAfter(cte)[3] = cte - error[1]
      /\ DOMAIN ErrorsAfter(cte) = 1..3
      /\ ErrorsAfter(cte) = [i \in 1..3 |-> ErrorsAfter(cte)[i]]
  BY DEF ErrorsAfter
<1>3. Abs(ErrorsAfter(cte)[2]) < WindupLimit
  BY <1>1, <1>2 DEF UnderWindupLimit, Abs
<1>4. \A i \in 1..3 : ErrorsAfter(cte)[i] \in Int
  BY <1>1, <1>2
<1> QED  BY <1>2, <1>3, <1>4 DEF Gains

(* The sum and its errors keep their types, and the average is a number. *)
LEMMA AverageType ==
    ASSUME PidTypeOK, NEW cte \in Int, UpdateAverage(cte)
    PROVE  /\ recent_errors' \in Seq(Int)
           /\ Len(recent_errors') <= MaxErrorsSize
           /\ sum_errors' \in Int
           /\ Average \in Int
<1> DEFINE longer == Append(recent_errors, cte)
<1>1. /\ recent_errors \in Seq(Int) /\ Len(recent_errors) \in Nat
      /\ Len(recent_errors) <= MaxErrorsSize /\ sum_errors \in Int
      /\ MaxErrorsSize \in Nat \ {0}
  BY SizeAssumption, LenProperties DEF PidTypeOK
<1>2. /\ longer \in Seq(Int) /\ Len(longer) = Len(recent_errors) + 1 /\ longer # << >>
  BY <1>1, AppendProperties
<1>3. /\ Tail(longer) \in Seq(Int) /\ Len(Tail(longer)) = Len(recent_errors)
      /\ Head(longer) \in Int
  BY <1>1, <1>2, HeadTailProperties
<1>4. /\ recent_errors' = IF Len(longer) > MaxErrorsSize THEN Tail(longer) ELSE longer
      /\ sum_errors' = sum_errors + cte
                       - (IF Len(longer) > MaxErrorsSize THEN Head(longer) ELSE 0)
  BY DEF UpdateAverage
<1> HIDE DEF longer
<1>5. /\ recent_errors' \in Seq(Int) /\ Len(recent_errors') \in 1..MaxErrorsSize
      /\ sum_errors' \in Int
  BY <1>1, <1>2, <1>3, <1>4
<1> QED  BY <1>5 DEF Average

-----------------------------------------------------------------------------
(***************************************************************************)
(* The inductive invariant adds that the calls since the last turn are     *)
(* exactly those that lead from INCREASE_P to the present state.           *)
(***************************************************************************)
ProbesFollowState ==
    probes = CASE tune_state = "INCREASE_P"  -> 0
               [] tune_state = "RESAMPLE_P"  -> 1
               [] tune_state = "DECREASE_2P" -> 2
               [] tune_state = "RESAMPLE_2P" -> 3

PidInv == PidTypeOK /\ IntegralBounded /\ ProbesFollowState /\ TunedGainsStay

LEMMA PidInitInv == PidInit => PidInv
<1> SUFFICES ASSUME PidInit PROVE PidInv
  OBVIOUS
<1>1. InitialGains[2] \in Int /\ WindupLimit \in Nat \ {0}
  BY InitialAssumption, WindupAssumption DEF Gains
<1>2. PidTypeOK
  <2>1. << >> \in Seq(Int) /\ Len(<< >>) = 0
    OBVIOUS
  <2>2. recent_errors \in Seq(Int) /\ Len(recent_errors) <= MaxErrorsSize
    BY <2>1, SizeAssumption DEF PidInit
  <2>3. frames \in 0..MaxFrames /\ probes \in Nat /\ sum_errors \in Int
    BY SizeAssumption DEF PidInit
  <2>4. error \in [Gains -> Int] /\ K \in [Gains -> Int] /\ slider \in [Gains -> Int]
    BY InitialAssumption DEF PidInit
  <2> QED  BY <2>2, <2>3, <2>4, InitialAssumption DEF PidInit, PidTypeOK, States
<1>3. IntegralBounded
  BY <1>1, WindupAssumption DEF PidInit, IntegralBounded, Abs
<1> QED  BY <1>2, <1>3 DEF PidInit, PidInv, ProbesFollowState, TunedGainsStay

(* One call of the tuner with the errors of the frame. *)
LEMMA TunerStep ==
    ASSUME PidInv, NEW dp \in [Gains -> Int], Abs(dp[2]) < WindupLimit, NEW cte \in Int,
           AutoTuneController(dp, cte)
    PROVE  /\ error' \in [Gains -> Int] /\ IntegralBounded'
           /\ K' \in [Gains -> Int] /\ best_error' \in Int
           /\ tune_state' \in States /\ K_index' \in {1, 2}
           /\ probes' \in Nat /\ ProbesFollowState'
<1>1. /\ K \in [Gains -> Int] /\ best_error \in Int /\ K_index \in {1, 2}
      /\ WindupLimit \in Nat \ {0}
      /\ 1 \in Gains /\ 2 \in Gains
      /\ dp[1] \in Int /\ dp[2] \in Int /\ K[1] \in Int /\ K[2] \in Int
  <2>1. K \in [Gains -> Int] /\ best_error \in Int /\ K_index \in {1, 2}
    BY Zenon DEF PidInv, PidTypeOK
  <2>2. WindupLimit \in Nat /\ InitialGains[2] \in Int /\ 1 \in Gains /\ 2 \in Gains
    BY InitialAssumption, WindupAssumption DEF Gains
  <2>3. WindupLimit \in Nat \ {0}
    BY <2>2, WindupAssumption
  <2> QED  BY <2>1, <2>2, <2>3
<1>within. 10 * Abs(dp[2]) < 11 * WindupLimit
  <2>1. \A m, limit \in Nat : m < limit => 10 * m < 11 * limit
    OBVIOUS
  <2>2. \A x \in Int : Abs(x) \in Nat
    BY DEF Abs
  <2>3. Abs(dp[2]) \in Nat /\ WindupLimit \in Nat
    BY <1>1, <2>2
  <2> QED  BY <2>1, <2>3
<1>2. ASSUME error' = dp PROVE error' \in [Gains -> Int] /\ IntegralBounded'
  <2>1. error'[2] = dp[2] /\ error' \in [Gains -> Int]
    BY <1>2
  <2> QED  BY <1>within, <2>1 DEF IntegralBounded
<1>3. ASSUME NEW n \in {9, 11}, error' = [dp EXCEPT ![K_index] = Tenths(@, n)]
      PROVE  error' \in [Gains -> Int] /\ IntegralBounded'
  <2>1. /\ Tenths(dp[K_index], n) \in Int
        /\ 10 * Abs(Tenths(dp[K_index], n)) <= n * Abs(dp[K_index])
    BY <1>1, TenthsBounds
  <2>2. error' \in [Gains -> Int]
    BY <1>1, <1>3, <2>1
  <2>3. CASE K_index = 1
    <3>1. error'[2] = dp[2]
      BY <1>1, <1>3, <2>3
    <3> QED  BY <1>within, <2>2, <3>1 DEF IntegralBounded
  <2>4. CASE K_index = 2
    <3>1. error'[2] = Tenths(dp[2], n)
      BY <1>1, <1>3, <2>4
    <3>2. Abs(dp[2]) \in Nat /\ Abs(Tenths(dp[2], n)) \in Nat
      BY <1>1, <2>1, <2>4 DEF Abs
    <3>3. n * Abs(dp[2]) < 11 * WindupLimit
      <4>1. CASE n = 9
        BY <1>1, <3>2, <4>1
      <4>2. CASE n = 11
        BY <1>1, <3>2, <4>2
      <4> QED  BY <4>1, <4>2
    <3>4. 10 * Abs(Tenths(dp[2], n)) <= n * Abs(dp[2])
      BY <2>1, <2>4
    <3>5. 10 * Abs(Tenths(dp[2], n)) < 11 * WindupLimit
      <4>1. CASE n = 9
        BY <1>1, <3>2, <3>3, <3>4, <4>1
      <4>2. CASE n = 11
        BY <1>1, <3>2, <3>3, <3>4, <4>2
      <4> QED  BY <4>1, <4>2
    <3> QED  BY <2>2, <3>1, <3>5 DEF IntegralBounded
  <2> QED  BY <1>1, <2>2, <2>3, <2>4
<1>4. /\ OtherGain \in {1, 2}
      /\ OtherGain # K_index
  BY <1>1 DEF OtherGain
<1>5. probes' = IF K_index' = K_index THEN probes + 1 ELSE 0
  BY DEF AutoTuneController
<1>6. CASE IncreaseP(dp)
  BY <1>1, <1>2, <1>5, <1>6 DEF IncreaseP, PidInv, ProbesFollowState, States
<1>7. CASE ResampleP(dp, cte)
  <2>1. CASE Improved(cte)
    BY <1>1, <1>3, <1>4, <1>5, <1>7, <2>1 DEF ResampleP, ProbesFollowState, States
  <2>2. CASE ~Improved(cte)
    BY <1>1, <1>2, <1>5, <1>7, <2>2 DEF ResampleP, PidInv, ProbesFollowState, States
  <2> QED  BY <2>1, <2>2
<1>8. CASE Decrease2P(dp)
  BY <1>1, <1>2, <1>5, <1>8 DEF Decrease2P, PidInv, ProbesFollowState, States
<1>9. CASE Resample2P(dp, cte)
  <2>1. CASE Improved(cte)
    BY <1>1, <1>3, <1>4, <1>5, <1>9, <2>1 DEF Resample2P, ProbesFollowState, States
  <2>2. CASE ~Improved(cte)
    BY <1>1, <1>3, <1>4, <1>5, <1>9, <2>2 DEF Resample2P, ProbesFollowState, States
  <2> QED  BY <2>1, <2>2
<1> QED  BY <1>6, <1>7, <1>8, <1>9 DEF AutoTuneController

LEMMA PidInvStep == PidInv /\ [PidNext]_pidVars => PidInv'
<1> SUFFICES ASSUME PidInv, [PidNext]_pidVars PROVE PidInv'
  OBVIOUS
<1>1. /\ PidTypeOK /\ IntegralBounded /\ ProbesFollowState /\ TunedGainsStay
      /\ frames \in 0..MaxFrames /\ MaxFrames \in Nat
  BY SizeAssumption DEF PidInv, PidTypeOK
<1>2. /\ error \in [Gains -> Int] /\ K \in [Gains -> Int] /\ slider \in [Gains -> Int]
      /\ Gains = {1, 2, 3}
  BY <1>1 DEF PidTypeOK, Gains
<1>3. ASSUME NEW cte \in Errors, TunedFrame(cte) PROVE PidInv'
  <2> DEFINE dp == ErrorsAfter(cte)
  <2>1. cte \in Int /\ UpdateAverage(cte) /\ AutoTuneController(dp, Average)
    BY <1>3, ErrorsAssumption DEF TunedFrame
  <2>2. dp \in [Gains -> Int] /\ Abs(dp[2]) < WindupLimit
    BY <1>2, <2>1, ErrorsAfterBounds
  <2>3. /\ recent_errors' \in Seq(Int) /\ Len(recent_errors') <= MaxErrorsSize
        /\ sum_errors' \in Int /\ Average \in Int
    BY <1>1, <2>1, AverageType
  <2> HIDE DEF dp
  <2>4. /\ error' \in [Gains -> Int] /\ IntegralBounded'
        /\ K' \in [Gains -> Int] /\ best_error' \in Int
        /\ tune_state' \in States /\ K_index' \in {1, 2}
        /\ probes' \in Nat /\ ProbesFollowState'
    BY <2>1, <2>2, <2>3, TunerStep, PidInv
  <2>5. PICK slider_error \in SliderErrors : Finish(slider_error)
    BY <1>3 DEF TunedFrame
  <2>6. K'[1] \in Int /\ K'[2] \in Int /\ K'[3] \in Int
    BY <1>2, <2>4
  <2>7. slider' \in [Gains -> Int] /\ autotune_enabled' \in BOOLEAN
    <3>1. autotune_enabled' \in BOOLEAN
      BY <2>5 DEF Finish
    <3>2. Abs(K'[2]) \in Int
      BY <2>6 DEF Abs
    <3> QED  BY <1>2, <2>4, <2>5, <2>6, <3>1, <3>2 DEF Finish
  <2>8. TunedGainsStay'
    <3> SUFFICES ASSUME settled'
                 PROVE  /\ K'[1] = slider'[1] /\ K'[3] = slider'[3]
                        /\ Abs(K'[2]) = Abs(slider'[2])
      BY DEF TunedGainsStay
    <3>1. ~autotune_enabled'
      BY <1>3 DEF TunedFrame
    <3>2. slider' = [K' EXCEPT ![2] = IF use_abs THEN Abs(@) ELSE @]
      BY <2>5, <3>1 DEF Finish
    <3>3. /\ slider'[1] = K'[1] /\ slider'[3] = K'[3]
          /\ slider'[2] = IF use_abs THEN Abs(K'[2]) ELSE K'[2]
      BY <1>2, <2>4, <3>2
    <3>4. Abs(Abs(K'[2])) = Abs(K'[2])
      BY <2>6 DEF Abs
    <3> QED  BY <3>3, <3>4
  <2>9. /\ settled' \in BOOLEAN /\ use_abs' \in BOOLEAN /\ touched' \in BOOLEAN
    BY <1>1, <1>3 DEF TunedFrame, PidTypeOK
  <2>10. frames' \in 0..MaxFrames
    BY <1>1, <1>3 DEF TunedFrame
  <2> QED  BY <2>3, <2>4, <2>7, <2>8, <2>9, <2>10 DEF PidInv, PidTypeOK
<1>4. ASSUME NEW cte \in Errors, PlainFrame(cte) PROVE PidInv'
  <2>1. cte \in Int /\ UpdateAverage(cte) /\ error' = ErrorsAfter(cte)
    BY <1>4, ErrorsAssumption DEF PlainFrame
  <2>2. /\ error' \in [Gains -> Int] /\ Abs(error'[2]) < WindupLimit
    BY <1>2, <2>1, ErrorsAfterBounds
  <2>3. IntegralBounded'
    <3>1. error'[2] \in Int /\ WindupLimit \in Nat
      BY <1>2, <2>2, WindupAssumption
    <3> QED  BY <2>2, <3>1 DEF IntegralBounded, Abs
  <2>4. /\ recent_errors' \in Seq(Int) /\ Len(recent_errors') <= MaxErrorsSize
        /\ sum_errors' \in Int
    BY <1>1, <2>1, AverageType
  <2>5. frames' \in 0..MaxFrames
    BY <1>1, <1>4 DEF PlainFrame
  <2>6. K' = slider /\ slider' = slider
    BY <1>4 DEF PlainFrame, widgets
  <2>7. TunedGainsStay'
    BY <2>6 DEF TunedGainsStay
  <2> QED
    BY <1>1, <1>4, <2>2, <2>3, <2>4, <2>5, <2>6, <2>7
    DEF PlainFrame, PidInv, PidTypeOK, ProbesFollowState, tuner, widgets
<1>5. CASE PressAutotune
  BY <1>1, <1>5
  DEF PressAutotune, Touch, PidInv, PidTypeOK, IntegralBounded, ProbesFollowState,
      TunedGainsStay, tuner
<1>6. ASSUME NEW k \in Gains, NEW position \in Sliders, MoveSlider(k, position)
      PROVE  PidInv'
  <2>1. slider' \in [Gains -> Int] /\ settled' = FALSE
    BY <1>2, <1>6, SlidersAssumption DEF MoveSlider
  <2> QED
    BY <1>1, <1>6, <2>1
    DEF MoveSlider, Touch, PidInv, PidTypeOK, IntegralBounded, ProbesFollowState,
        TunedGainsStay, tuner
<1>7. CASE CheckPositive
  BY <1>1, <1>7
  DEF CheckPositive, Touch, PidInv, PidTypeOK, IntegralBounded, ProbesFollowState,
      TunedGainsStay, tuner
<1>8. CASE UNCHANGED pidVars
  BY <1>1, <1>8
  DEF pidVars, PidInv, PidTypeOK, IntegralBounded, ProbesFollowState,
      TunedGainsStay, tuner, widgets
<1> QED  BY <1>3, <1>4, <1>5, <1>6, <1>7, <1>8 DEF PidNext

-----------------------------------------------------------------------------
(* The invariant holds of every behaviour. *)
THEOREM PidInvariance == PidSpec => []PidInv
<1> QED  BY PidInitInv, PidInvStep, PTL DEF PidSpec

(* Every variable of the controller keeps its type: the tuner's index      *)
(* never leaves Kp and Ki, and the window of errors never outgrows its     *)
(* size.                                                                   *)
THEOREM PidTypeCorrect == PidSpec => []PidTypeOK
<1>1. PidInv => PidTypeOK
  BY DEF PidInv
<1> QED  BY <1>1, PidInvariance, PTL

(* Whatever the errors are, the integral never passes the windup limit by  *)
(* more than the tenth the tuner adds.                                     *)
THEOREM IntegralStaysBounded == PidSpec => []IntegralBounded
<1>1. PidInv => IntegralBounded
  BY DEF PidInv
<1> QED  BY <1>1, PidInvariance, PTL

(* No gain waits for more than four calls of the tuner.                    *)
THEOREM TunerTakesTurns == PidSpec => []TurnsEnd
<1>1. PidInv => TurnsEnd
  BY DEF PidInv, PidTypeOK, ProbesFollowState, TurnsEnd, States
<1> QED  BY <1>1, PidInvariance, PTL

(* What the tuner found stays in use until the user changes it.            *)
THEOREM TunedGainsKept == PidSpec => []TunedGainsStay
<1>1. PidInv => TunedGainsStay
  BY DEF PidInv
<1> QED  BY <1>1, PidInvariance, PTL

-----------------------------------------------------------------------------
(***************************************************************************)
(* Sums.  That the function Sums defines exists and what it does to a      *)
(* longer and to a shorter sequence is proved by induction.                *)
(***************************************************************************)
LEMMA SumsExist ==
    ASSUME NEW s \in Seq(Int)
    PROVE  \E f : f = [k \in 0..Len(s) |-> IF k = 0 THEN 0 ELSE f[k - 1] + s[k]]
<1> DEFINE n == Len(s)
           Partial(m, f) == f[0] = 0 /\ \A k \in 1..m : f[k] = f[k - 1] + s[k]
           T == {m \in 0..n : \E f \in [0..m -> Int] : Partial(m, f)}
<1>1. n \in Nat /\ \A k \in 1..n : s[k] \in Int
  BY LenProperties, ElementOfSeq
<1> HIDE DEF n
<1>2. 0 \in T
  <2> DEFINE f == [k \in 0..0 |-> 0]
  <2>1. f \in [0..0 -> Int] /\ Partial(0, f) /\ 0 \in 0..n
    BY <1>1
  <2> HIDE DEF f, Partial
  <2> QED  BY <2>1
<1>3. ASSUME NEW m \in 0..(n - 1), m \in T PROVE m + 1 \in T
  <2>1. PICK f \in [0..m -> Int] : Partial(m, f)
    BY <1>3
  <2> DEFINE g == [k \in 0..(m + 1) |-> IF k = m + 1 THEN f[m] + s[m + 1] ELSE f[k]]
  <2>2. m \in Nat /\ m + 1 \in 1..n /\ m + 1 \in 0..n /\ m \in 0..m /\ f[m] \in Int
    BY <1>1, <1>3, <2>1
  <2>3. g \in [0..(m + 1) -> Int]
    BY <1>1, <2>1, <2>2
  <2>4. \A k \in 0..m : k \in 0..(m + 1) /\ k # m + 1 /\ g[k] = f[k]
    BY <2>2
  <2>5. g[m + 1] = g[m] + s[m + 1]
    BY <2>2, <2>4
  <2>6. ASSUME NEW k \in 1..(m + 1) PROVE g[k] = g[k - 1] + s[k]
    <3> HIDE DEF g
    <3>1. CASE k = m + 1
      <4>1. k - 1 = m
        BY <2>2, <3>1
      <4> QED  BY <2>5, <3>1, <4>1
    <3>2. CASE k # m + 1
      <4>1. k \in 1..m /\ k \in 0..m /\ k - 1 \in 0..m
        BY <2>2, <3>2
      <4> QED  BY <2>1, <2>4, <4>1
    <3> QED  BY <3>1, <3>2
  <2>7. g[0] = 0
    <3>1. 0 \in 0..m
      BY <2>2
    <3> QED  BY <2>1, <2>4, <3>1
  <2> HIDE DEF g
  <2> QED  BY <2>2, <2>3, <2>6, <2>7
<1>4. n \in T
  <2> HIDE DEF T
  <2>1. \A k \in 0..n : k \in T
    BY <1>1, <1>2, <1>3, Induction
  <2> QED  BY <1>1, <2>1
<1>5. PICK f \in [0..n -> Int] : Partial(n, f)
  BY <1>4
<1>6. f = [k \in 0..n |-> IF k = 0 THEN 0 ELSE f[k - 1] + s[k]]
  BY <1>1, <1>5
<1> QED  BY <1>6 DEF n

LEMMA SumsRecursion ==
    ASSUME NEW s \in Seq(Int)
    PROVE  /\ Sums(s)[0] = 0
           /\ \A k \in 1..Len(s) : Sums(s)[k] = Sums(s)[k - 1] + s[k]
           /\ \A k \in 0..Len(s) : Sums(s)[k] \in Int
<1>1. Len(s) \in Nat /\ \A k \in 1..Len(s) : s[k] \in Int
  BY LenProperties, ElementOfSeq
<1> DEFINE f == Sums(s)
           n == Len(s)
<1>2. f = [k \in 0..n |-> IF k = 0 THEN 0 ELSE f[k - 1] + s[k]]
  BY SumsExist, Zenon DEF Sums
<1> HIDE DEF f, n
<1>3. n \in Nat
  BY <1>1 DEF n
<1>4. f[0] = 0 /\ \A k \in 1..n : f[k] = f[k - 1] + s[k]
  <2>1. \A k \in 0..n : f[k] = IF k = 0 THEN 0 ELSE f[k - 1] + s[k]
    BY <1>2
  <2>2. 0 \in 0..n /\ \A k \in 1..n : k \in 0..n /\ k # 0
    BY <1>3
  <2> QED  BY <2>1, <2>2
<1>5. \A k \in 0..n : f[k] \in Int
  <2> DEFINE T == {k \in 0..n : f[k] \in Int}
  <2>1. 0 \in T
    BY <1>3, <1>4
  <2>2. ASSUME NEW k \in 0..(n - 1), k \in T PROVE k + 1 \in T
    <3>1. k + 1 \in 1..n /\ (k + 1) - 1 = k /\ k + 1 \in 0..n
      BY <1>3
    <3> QED  BY <1>1, <1>4, <2>2, <3>1 DEF n
  <2> HIDE DEF T
  <2>3. \A k \in 0..n : k \in T
    BY <1>3, <2>1, <2>2, Induction
  <2> QED  BY <2>3 DEF T
<1> QED  BY <1>4, <1>5 DEF f, n

(* One number more at the end adds it to the whole sum. *)
LEMMA SumsAppend ==
    ASSUME NEW s \in Seq(Int), NEW e \in Int
    PROVE  Sums(Append(s, e))[Len(s) + 1] = Sums(s)[Len(s)] + e
<1> DEFINE n == Len(s)
           longer == Append(s, e)
           f == Sums(s)
           g == Sums(longer)
           T == {k \in 0..n : g[k] = f[k]}
<1>1. n \in Nat
  BY LenProperties
<1>2. /\ longer \in Seq(Int) /\ Len(longer) = n + 1 /\ longer[n + 1] = e
      /\ \A k \in 1..n : longer[k] = s[k]
  BY AppendProperties
<1> HIDE DEF n, longer
<1>3. f[0] = 0 /\ \A k \in 1..n : f[k] = f[k - 1] + s[k]
  BY SumsRecursion DEF n
<1>4. g[0] = 0 /\ \A k \in 1..(n + 1) : g[k] = g[k - 1] + longer[k]
  BY <1>2, SumsRecursion
<1> HIDE DEF f, g
<1>5. 0 \in T
  BY <1>1, <1>3, <1>4
<1>6. ASSUME NEW k \in 0..(n - 1), k \in T PROVE k + 1 \in T
  <2>1. /\ k + 1 \in 1..n /\ k + 1 \in 1..(n + 1) /\ k + 1 \in 0..n
        /\ (k + 1) - 1 = k
    BY <1>1
  <2> QED  BY <1>2, <1>3, <1>4, <1>6, <2>1
<1> HIDE DEF T
<1>7. n \in T
  <2>1. \A k \in 0..n : k \in T
    BY <1>1, <1>5, <1>6, Induction
  <2> QED  BY <1>1, <2>1
<1>8. n + 1 \in 1..(n + 1) /\ (n + 1) - 1 = n
  BY <1>1
<1> QED  BY <1>2, <1>4, <1>7, <1>8 DEF T, n, f, g, longer

(* Without its first number, a sequence has the sum without that number. *)
LEMMA SumsTail ==
    ASSUME NEW s \in Seq(Int), s # << >>
    PROVE  Sums(Tail(s))[Len(s) - 1] = Sums(s)[Len(s)] - Head(s)
<1> DEFINE n == Len(s) - 1
           f == Sums(s)
           g == Sums(Tail(s))
           T == {k \in 0..n : g[k] = f[k + 1] - Head(s)}
<1>1. Len(s) \in Nat \ {0}
  BY EmptySeq
<1>2. /\ Tail(s) \in Seq(Int) /\ Len(Tail(s)) = n /\ Head(s) = s[1] /\ Head(s) \in Int
      /\ \A k \in 1..n : Tail(s)[k] = s[k + 1]
  BY HeadTailProperties
<1>3. n \in Nat /\ Len(s) = n + 1
  BY <1>1
<1>4. /\ f[0] = 0 /\ (\A k \in 1..(n + 1) : f[k] = f[k - 1] + s[k])
      /\ \A k \in 0..(n + 1) : f[k] \in Int
  BY <1>3, SumsRecursion
<1>5. g[0] = 0 /\ \A k \in 1..n : g[k] = g[k - 1] + Tail(s)[k]
  BY <1>2, SumsRecursion
<1>6. \A k \in 1..(n + 1) : s[k] \in Int
  BY <1>3, ElementOfSeq
<1> HIDE DEF n, f, g
<1>7. 0 \in T
  <2>1. f[1] = f[0] + s[1]
    BY <1>3, <1>4
  <2>2. 0 \in 0..n /\ g[0] = (0 + s[1]) - s[1]
    BY <1>2, <1>3, <1>5
  <2> QED  BY <1>2, <1>4, <2>1, <2>2
<1>8. ASSUME NEW k \in 0..(n - 1), k \in T PROVE k + 1 \in T
  <2>1. /\ k + 1 \in 1..n /\ k + 1 \in 0..n /\ k + 2 \in 1..(n + 1) /\ k + 1 \in 0..(n + 1)
        /\ (k + 1) - 1 = k /\ (k + 2) - 1 = k + 1 /\ (k + 1) + 1 = k + 2
    BY <1>3
  <2>2. g[k + 1] = g[k] + s[k + 2]
    BY <1>2, <1>5, <2>1
  <2>3. f[k + 2] = f[k + 1] + s[k + 2]
    BY <1>4, <2>1
  <2>4. f[k + 1] \in Int /\ s[k + 2] \in Int /\ Head(s) \in Int
    BY <1>2, <1>4, <1>6, <2>1
  <2>5. g[k] = f[k + 1] - Head(s)
    BY <1>8
  <2>6. g[k + 1] = f[k + 2] - Head(s)
    BY <2>2, <2>3, <2>4, <2>5
  <2> QED  BY <2>1, <2>6
<1> HIDE DEF T
<1>9. n \in T
  <2>1. \A k \in 0..n : k \in T
    BY <1>3, <1>7, <1>8, Induction
  <2> QED  BY <1>3, <2>1
<1> QED  BY <1>3, <1>9 DEF T, f, g, n

(* The running sum follows the errors it is of. *)
LEMMA AverageStep ==
    ASSUME PidTypeOK, SumIsOfRecent, NEW cte \in Int, UpdateAverage(cte)
    PROVE  SumIsOfRecent'
<1> DEFINE longer == Append(recent_errors, cte)
           n == Len(recent_errors)
<1>1. /\ recent_errors \in Seq(Int) /\ n \in Nat /\ sum_errors \in Int
      /\ sum_errors = Sums(recent_errors)[n]
  BY LenProperties DEF PidTypeOK, SumIsOfRecent
<1>2. /\ longer \in Seq(Int) /\ Len(longer) = n + 1 /\ longer # << >>
      /\ Sums(longer)[n + 1] = sum_errors + cte
  BY <1>1, AppendProperties, SumsAppend
<1>3. /\ recent_errors' = IF Len(longer) > MaxErrorsSize THEN Tail(longer) ELSE longer
      /\ sum_errors' = sum_errors + cte
                       - (IF Len(longer) > MaxErrorsSize THEN Head(longer) ELSE 0)
  BY DEF UpdateAverage
<1> HIDE DEF longer, n
<1>4. CASE Len(longer) > MaxErrorsSize
  <2>1. Sums(Tail(longer))[Len(longer) - 1] = Sums(longer)[Len(longer)] - Head(longer)
    BY <1>2, SumsTail
  <2>2. Len(Tail(longer)) = Len(longer) - 1
    BY <1>2, HeadTailProperties
  <2>3. recent_errors' = Tail(longer) /\ sum_errors' = (sum_errors + cte) - Head(longer)
    <3>1. sum_errors \in Int /\ Head(longer) \in Int
      BY <1>1, <1>2, HeadTailProperties
    <3>2. (IF Len(longer) > MaxErrorsSize THEN Head(longer) ELSE 0) = Head(longer)
      BY <1>4
    <3> QED  BY <1>3, <1>4, <3>1, <3>2
  <2>4. Sums(Tail(longer))[Len(Tail(longer))] = (sum_errors + cte) - Head(longer)
    BY <1>2, <2>1, <2>2
  <2> QED  BY <2>3, <2>4 DEF SumIsOfRecent
<1>5. CASE ~(Len(longer) > MaxErrorsSize)
  <2>1. sum_errors' = sum_errors + cte /\ recent_errors' = longer
    BY <1>1, <1>3, <1>5
  <2> QED  BY <1>2, <2>1 DEF SumIsOfRecent
<1> QED  BY <1>4, <1>5

(* The running sum that the average is computed from never departs from    *)
(* the sum of the last errors, however many were added and taken off.      *)
THEOREM SumFollowsErrors == PidSpec => []SumIsOfRecent
<1>1. PidInit => SumIsOfRecent
  <2>1. << >> \in Seq(Int) /\ Len(<< >>) = 0
    BY EmptySeq
  <2> QED  BY <2>1, SumsRecursion DEF PidInit, SumIsOfRecent
<1>2. PidTypeOK /\ SumIsOfRecent /\ [PidNext]_pidVars => SumIsOfRecent'
  <2> SUFFICES ASSUME PidTypeOK, SumIsOfRecent, [PidNext]_pidVars PROVE SumIsOfRecent'
    OBVIOUS
  <2>1. ASSUME UNCHANGED <<recent_errors, sum_errors>> PROVE SumIsOfRecent'
    BY <2>1 DEF SumIsOfRecent
  <2>2. ASSUME NEW cte \in Errors, TunedFrame(cte) \/ PlainFrame(cte) PROVE SumIsOfRecent'
    BY <2>2, ErrorsAssumption, AverageStep DEF TunedFrame, PlainFrame
  <2>3. CASE PressAutotune \/ CheckPositive
    BY <2>1, <2>3 DEF PressAutotune, CheckPositive
  <2>4. ASSUME NEW k \in Gains, NEW position \in Sliders, MoveSlider(k, position)
        PROVE  SumIsOfRecent'
    BY <2>1, <2>4 DEF MoveSlider
  <2>5. CASE UNCHANGED pidVars
    BY <2>1, <2>5 DEF pidVars
  <2> QED  BY <2>2, <2>3, <2>4, <2>5 DEF PidNext
<1> QED  BY <1>1, <1>2, PidTypeCorrect, PTL DEF PidSpec
=============================================================================
