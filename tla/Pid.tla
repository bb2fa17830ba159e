-------------------------------- MODULE Pid --------------------------------
(***************************************************************************)
(* The PID controller of one plot window and its tuner (modules/PID.cpp,   *)
(* update_pid and widget_pid_config of modules/PlotWindow.cpp).  All of it *)
(* runs in the main thread, once a frame while the PID is enabled.         *)
(*                                                                         *)
(* The doubles of the program are integers here, in any unit; a product    *)
(* with 1.1 or 0.9 is cut off towards zero.                                *)
(***************************************************************************)
EXTENDS Integers, Sequences

CONSTANTS
    Errors,             \* input minus set point, as a frame may find it
    Sliders,            \* positions of the gain sliders
    SliderErrors,       \* positions of the slider "max average error"
    InitialGains,       \* the gains of the constructor: <<Kp, Ki, Kd>>
    BestError,          \* the initial best_error (999.9)
    WindupLimit,        \* Ki_WINDUP_LIMIT (40.0)
    MaxErrorsSize,      \* max_errors_size (5)
    MaxFrames           \* bound on the frames

Gains == 1..3           \* 1: Kp, 2: Ki, 3: Kd

ASSUME ErrorsAssumption == Errors \subseteq Int
ASSUME SlidersAssumption == Sliders \subseteq Int /\ SliderErrors \subseteq Int
ASSUME InitialAssumption == InitialGains \in [Gains -> Int] /\ BestError \in Int
ASSUME WindupAssumption ==
    WindupLimit \in Nat /\ InitialGains[2] < WindupLimit /\ -InitialGains[2] < WindupLimit
ASSUME SizeAssumption == MaxErrorsSize \in Nat \ {0} /\ MaxFrames \in Nat

VARIABLES
    error,              \* p_error, i_error and d_error
    K,                  \* Kp, Ki and Kd
    best_error,
    tune_state,         \* next_state and next_index are these two after
    K_index,            \* each call of the tuner
    slider,             \* slider_kp, slider_ki, slider_kd
    use_abs,
    autotune_enabled,
    recent_errors,
    sum_errors,
    touched,            \* has the user worked a widget in this frame?
    frames,             \* frames so far, for the bound
    probes,             \* tuner calls since it turned to another gain
    settled             \* has the tuner stopped by itself, and has nobody touched
                        \* a slider or the tuner since?

tuner == <<best_error, tune_state, K_index>>
widgets == <<slider, use_abs, autotune_enabled>>
pidVars == <<error, K, tuner, widgets, recent_errors, sum_errors,
             touched, frames, probes, settled>>

States == {"INCREASE_P", "RESAMPLE_P", "DECREASE_2P", "RESAMPLE_2P"}

Abs(x) == IF x < 0 THEN -x ELSE x
Tenths(x, n) == IF x < 0 THEN -((-x * n) \div 10) ELSE (x * n) \div 10
Average == sum_errors' \div Len(recent_errors')

(* PID::Init stores the gains as errors, too.                              *)
PidInit ==
    /\ K = InitialGains /\ error = InitialGains /\ slider = InitialGains
    /\ best_error = BestError
    /\ tune_state = "INCREASE_P" /\ K_index = 1
    /\ use_abs = TRUE /\ autotune_enabled = FALSE
    /\ recent_errors = << >> /\ sum_errors = 0
    /\ touched = FALSE /\ frames = 0 /\ probes = 0 /\ settled = FALSE

(* Mutant of UnderWindupLimit: the limit is compared with the old sum.     *)
OldSumUnderLimit(cte) == Abs(error[2]) < WindupLimit

UnderWindupLimit(cte) == Abs(error[2] + cte) < WindupLimit

(* PID::UpdateError: beyond the limit the integral starts again from 0.    *)
ErrorsAfter(cte) ==
    <<cte, IF UnderWindupLimit(cte) THEN error[2] + cte ELSE 0, cte - error[1]>>

(* Mutant of UpdateAverage: the oldest error is dropped, not subtracted.   *)
DropsWithoutSubtracting(cte) ==
    LET longer == Append(recent_errors, cte)
    IN  /\ recent_errors' = IF Len(longer) > MaxErrorsSize THEN Tail(longer) ELSE longer
        /\ sum_errors' = sum_errors + cte

UpdateAverage(cte) ==
    LET longer == Append(recent_errors, cte)
        full == Len(longer) > MaxErrorsSize
    IN  /\ recent_errors' = IF full THEN Tail(longer) ELSE longer
        /\ sum_errors' = sum_errors + cte - (IF full THEN Head(longer) ELSE 0)

(* Mutant of OtherGain: the turn passes to Kd as well.                     *)
NextGain == K_index + 1

(* ( next_index + 1 ) % 2: Kd has no turn.                                 *)
OtherGain == 3 - K_index

Improved(cte) == Abs(cte) < Abs(best_error)

(***************************************************************************)
(* The four states of the tuner.  dp are the errors that UpdateError has   *)
(* just stored; they are the step by which the current gain moves, and the *)
(* scaled step goes back among the errors.                                 *)
(***************************************************************************)
IncreaseP(dp) ==
    /\ tune_state = "INCREASE_P"
    /\ K' = [K EXCEPT ![K_index] = @ + dp[K_index]]
    /\ error' = dp
    /\ tune_state' = "RESAMPLE_P"
    /\ UNCHANGED <<K_index, best_error>>

ResampleP(dp, cte) ==
    /\ tune_state = "RESAMPLE_P"
    /\ IF Improved(cte)
          THEN /\ best_error' = cte
               /\ error' = [dp EXCEPT ![K_index] = Tenths(@, 11)]
               /\ tune_state' = "INCREASE_P"
               /\ K_index' = OtherGain
          ELSE /\ error' = dp
               /\ tune_state' = "DECREASE_2P"
               /\ UNCHANGED <<best_error, K_index>>
    /\ UNCHANGED K

Decrease2P(dp) ==
    /\ tune_state = "DECREASE_2P"
    /\ K' = [K EXCEPT ![K_index] = @ - 2 * dp[K_index]]
    /\ error' = dp
    /\ tune_state' = "RESAMPLE_2P"
    /\ UNCHANGED <<K_index, best_error>>

(* Mutant of Resample2P: the index moves on only after an improvement.     *)
KeepsGain(dp, cte) ==
    /\ tune_state = "RESAMPLE_2P"
    /\ IF Improved(cte)
          THEN /\ best_error' = cte
               /\ error' = [dp EXCEPT ![K_index] = Tenths(@, 11)]
               /\ K_index' = OtherGain
               /\ UNCHANGED K
          ELSE /\ K' = [K EXCEPT ![K_index] = @ + dp[K_index]]
               /\ error' = [dp EXCEPT ![K_index] = Tenths(@, 9)]
               /\ UNCHANGED <<best_error, K_index>>
    /\ tune_state' = "INCREASE_P"

Resample2P(dp, cte) ==
    /\ tune_state = "RESAMPLE_2P"
    /\ IF Improved(cte)
          THEN /\ best_error' = cte
               /\ error' = [dp EXCEPT ![K_index] = Tenths(@, 11)]
               /\ UNCHANGED K
          ELSE /\ K' = [K EXCEPT ![K_index] = @ + dp[K_index]]
               /\ error' = [dp EXCEPT ![K_index] = Tenths(@, 9)]
               /\ UNCHANGED best_error
    /\ tune_state' = "INCREASE_P"
    /\ K_index' = OtherGain

AutoTuneController(dp, cte) ==
    /\ IncreaseP(dp) \/ ResampleP(dp, cte) \/ Decrease2P(dp) \/ Resample2P(dp, cte)
    /\ probes' = IF K_index' = K_index THEN probes + 1 ELSE 0

(* Mutant of Finish: the sliders keep the positions they had.              *)
FinishOnly(slider_error) ==
    /\ autotune_enabled' = (slider_error <= Abs(Average))
    /\ UNCHANGED slider

(* The tuner stops when the average is small and leaves its gains in the   *)
(* sliders, from which the next frame takes them.                          *)
Finish(slider_error) ==
    /\ autotune_enabled' = (slider_error <= Abs(Average))
    /\ slider' = IF autotune_enabled' THEN slider
                 ELSE [K' EXCEPT ![2] = IF use_abs THEN Abs(@) ELSE @]

(* update_pid, with the tuner and without it.  Only the tuner reads the    *)
(* slider of the average error, which may be anywhere by then.             *)
TunedFrame(cte) ==
    /\ frames < MaxFrames
    /\ autotune_enabled
    /\ UpdateAverage(cte)
    /\ AutoTuneController(ErrorsAfter(cte), Average)
    /\ \E slider_error \in SliderErrors : Finish(slider_error)
    /\ settled' = ~autotune_enabled'
    /\ touched' = FALSE /\ frames' = frames + 1
    /\ UNCHANGED use_abs

PlainFrame(cte) ==
    /\ frames < MaxFrames
    /\ ~autotune_enabled
    /\ error' = ErrorsAfter(cte)
    /\ UpdateAverage(cte)
    /\ K' = slider
    /\ touched' = FALSE /\ frames' = frames + 1
    /\ UNCHANGED <<tuner, widgets, probes, settled>>

(* The widgets of widget_pid_config, before it calls update_pid: the user  *)
(* works one of them in a frame, or none.                                  *)
Touch == ~touched /\ touched' = TRUE

PressAutotune ==
    /\ Touch
    /\ autotune_enabled' = ~autotune_enabled
    /\ settled' = FALSE
    /\ UNCHANGED <<error, K, tuner, slider, use_abs, recent_errors, sum_errors, frames, probes>>

MoveSlider(k, position) ==
    /\ Touch
    /\ slider' = [slider EXCEPT ![k] = position]
    /\ settled' = FALSE
    /\ UNCHANGED <<error, K, tuner, use_abs, autotune_enabled,
                   recent_errors, sum_errors, frames, probes>>

CheckPositive ==
    /\ Touch
    /\ use_abs' = ~use_abs
    /\ UNCHANGED <<error, K, tuner, slider, autotune_enabled,
                   recent_errors, sum_errors, frames, probes, settled>>

PidNext ==
    \/ \E cte \in Errors : TunedFrame(cte) \/ PlainFrame(cte)
    \/ PressAutotune \/ CheckPositive
    \/ \E k \in Gains, position \in Sliders : MoveSlider(k, position)

PidSpec == PidInit /\ [][PidNext]_pidVars

-----------------------------------------------------------------------------
(***************************************************************************)
(* Properties.                                                             *)
(***************************************************************************)
PidTypeOK ==
    /\ error \in [Gains -> Int] /\ K \in [Gains -> Int] /\ slider \in [Gains -> Int]
    /\ best_error \in Int /\ tune_state \in States /\ K_index \in {1, 2}
    /\ use_abs \in BOOLEAN /\ autotune_enabled \in BOOLEAN
    /\ recent_errors \in Seq(Int) /\ Len(recent_errors) <= MaxErrorsSize
    /\ sum_errors \in Int
    /\ touched \in BOOLEAN /\ frames \in 0..MaxFrames
    /\ probes \in Nat /\ settled \in BOOLEAN

(* The integral stays below the windup limit, but for the tenth by which   *)
(* the tuner may have enlarged it since: the next frame takes that back.   *)
IntegralBounded == 10 * Abs(error[2]) < 11 * WindupLimit

(* Sums(s)[k] is the sum of the first k numbers of s.                      *)
Sums(s) ==
    LET upto[k \in 0..Len(s)] == IF k = 0 THEN 0 ELSE upto[k - 1] + s[k]
    IN  upto

(* The running sum is the sum of the errors it is said to be of, however   *)
(* often the oldest was replaced.                                          *)
SumIsOfRecent == sum_errors = Sums(recent_errors)[Len(recent_errors)]

(* The tuner turns to the other gain after four calls at most, whatever    *)
(* the errors are and however often it is switched off and on.             *)
TurnsEnd == probes <= 3

(* The gains the tuner found stay in use when it has stopped, until the    *)
(* user moves a slider or starts it again; only Ki may lose its sign.      *)
TunedGainsStay ==
    settled => /\ K[1] = slider[1] /\ K[3] = slider[3]
               /\ Abs(K[2]) = Abs(slider[2])
=============================================================================
