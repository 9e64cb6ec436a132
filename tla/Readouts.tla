------------------------------- MODULE Readouts -------------------------------
(***************************************************************************)
(* The UI's bounded readouts: the elevation chart, whose series halves     *)
(* itself when full, and the rate meter of a message type.  A sample is    *)
(* its number since the last Reset and its value.                          *)
(***************************************************************************)
EXTENDS Integers, SequencesExt

CONSTANTS Heights,          \* elevations
          PlotCap,          \* PLOT_POINT_CAP
          MaxSamples, MaxFramesIn, MaxNow

\* PlotSeries::new takes a capacity of less than two as two.
ASSUME ChartAssumption == Heights \subseteq Int /\ PlotCap \in Nat /\ PlotCap >= 2

VARIABLES
  recording, points, stride, skip, plot_min, plot_max, current,     \* ElevationChart
  window_start, window_count, rate_folds,     \* RateMeter; its average is of rate_folds
  samples,     \* ghost: the heights since Reset
  now, frames_in, first_at    \* the clock; ghost: frames counted, when the first

chart == <<recording, points, stride, skip, plot_min, plot_max, current>>
rate_meter == <<window_start, window_count, rate_folds>>
roVars == <<chart, rate_meter, samples, now, frames_in, first_at>>
-------------------------------------------------------------------------------
\* PlotSeries::push
\* retain: every other point, from the first
Halved(s) == [i \in 1 .. (Len(s) + 1) \div 2 |-> s[2 * i - 1]]
Lower(m, v)  == IF m = <<>> \/ v < m[1] THEN <<v>> ELSE m
Higher(m, v) == IF m = <<>> \/ v > m[1] THEN <<v>> ELSE m

\* fault: a skipped sample leaves the extremes alone
Extremes_Kept(v) == IF skip > 0 THEN UNCHANGED <<plot_min, plot_max>>
                    ELSE plot_min' = Lower(plot_min, v) /\ plot_max' = Higher(plot_max, v)
Extremes(v) == plot_min' = Lower(plot_min, v) /\ plot_max' = Higher(plot_max, v)

SkipOne == skip > 0 /\ skip' = skip - 1 /\ UNCHANGED <<points, stride>>
KeepOne(p) ==
  /\ skip = 0
  /\ IF Len(points) + 1 >= PlotCap
     THEN points' = Halved(Append(points, p)) /\ stride' = 2 * stride
     ELSE points' = Append(points, p) /\ UNCHANGED stride
  /\ skip' = stride' - 1

\* AppState::apply of a GGA with an altitude.
Sample == \E v \in Heights :
  /\ Len(samples) < MaxSamples
  /\ recording
  /\ samples' = Append(samples, v)
  /\ current' = <<v>> /\ Extremes(v)
  /\ SkipOne \/ KeepOne(<<Len(samples) + 1, v>>)
  /\ UNCHANGED <<recording, rate_meter, now, frames_in, first_at>>

\* Pause / Start
ToggleRecording == recording' = ~recording
                   /\ UNCHANGED <<points, stride, skip, plot_min, plot_max, current,
                                  rate_meter, samples, now, frames_in, first_at>>

\* Reset
ResetChart == /\ samples # <<>> /\ samples' = <<>>
              /\ points' = <<>> /\ stride' = 1 /\ skip' = 0
              /\ plot_min' = <<>> /\ plot_max' = <<>> /\ current' = <<>>
              /\ UNCHANGED <<recording, rate_meter, now, frames_in, first_at>>
-------------------------------------------------------------------------------
(* RateMeter; RATE_WINDOW is one unit of the clock *)

\* fault: a window starts with the next frame
Restart_Later == <<>>
Restart == <<now>>

\* fold_if_due, with n frames just counted
Fold(start, n) ==
  IF start = <<>> \/ now - start[1] < 1
  THEN window_start' = start /\ window_count' = n /\ UNCHANGED rate_folds
  ELSE /\ rate_folds' = Append(rate_folds, [count |-> n, elapsed |-> now - start[1]])
       /\ window_start' = Restart /\ window_count' = 0

OnFrames == \E n \in 1 .. 2 :
  /\ frames_in + n <= MaxFramesIn
  /\ frames_in' = frames_in + n
  /\ first_at' = IF first_at = <<>> THEN <<now>> ELSE first_at
  /\ Fold(IF window_start = <<>> THEN <<now>> ELSE window_start, window_count + n)
  /\ UNCHANGED <<chart, samples, now>>
\* AppState::tick, once a frame of the UI
MeterTick == /\ Fold(window_start, window_count)
             /\ UNCHANGED <<chart, samples, now, frames_in, first_at>>
MeterClock == /\ now < MaxNow /\ now' = now + 1
              /\ UNCHANGED <<chart, rate_meter, samples, frames_in, first_at>>

ReadoutsInit ==
  /\ recording = TRUE /\ points = <<>> /\ stride = 1 /\ skip = 0
  /\ plot_min = <<>> /\ plot_max = <<>> /\ current = <<>>
  /\ window_start = <<>> /\ window_count = 0 /\ rate_folds = <<>>
  /\ samples = <<>> /\ now = 0 /\ frames_in = 0 /\ first_at = <<>>
ReadoutsNext == \/ Sample \/ ToggleRecording \/ ResetChart
                \/ OnFrames \/ MeterTick \/ MeterClock
ReadoutsSpec == ReadoutsInit /\ [][ReadoutsNext]_roVars
-------------------------------------------------------------------------------
(* Properties *)

\* PlotSeries: "an arbitrarily long session stays <= cap points while the
\* visual shape survives".  The chart starts at the first sample, skips less
\* than two strides between points and to the present, and the extremes are
\* those of every sample.
PlotKeepsShape ==
  LET n == Len(samples)
      at(i) == points[i][1]
  IN /\ Len(points) < PlotCap
     /\ n > 0 => points # <<>> /\ at(1) = 1 /\ n - at(Len(points)) < 2 * stride
     /\ \A i \in DOMAIN points : points[i] = <<at(i), samples[at(i)]>>
     /\ \A i \in 1 .. Len(points) - 1 : at(i + 1) - at(i) \in stride .. 2 * stride - 1
     /\ n > 0 => /\ current = <<samples[n]>>
                 /\ plot_min = <<Min(ToSet(samples))>> /\ plot_max = <<Max(ToSet(samples))>>

Total(s) ==
  LET t[k \in 0 .. Len(s)] == IF k = 0 THEN 0 ELSE t[k - 1] + s[k]
  IN t[Len(s)]
Counts == [i \in DOMAIN rate_folds |-> rate_folds[i].count]
Times  == [i \in DOMAIN rate_folds |-> rate_folds[i].elapsed]

\* RateMeter: "bucketing makes the reading independent of how the TCP stream
\* batches frames".  Every frame is counted in one window, the windows leave no
\* time out and each is long enough to be a rate.
RateIsOfAllTime ==
  /\ Total(Counts) + window_count = frames_in
  /\ first_at # <<>> => /\ window_start # <<>>
                        /\ Total(Times) = window_start[1] - first_at[1]
  /\ \A i \in DOMAIN rate_folds : rate_folds[i].elapsed >= 1

\* The chart keeps its shape, and the rate is of all the frames and all the time.
ReadoutsTrue == PlotKeepsShape /\ RateIsOfAllTime
===============================================================================
