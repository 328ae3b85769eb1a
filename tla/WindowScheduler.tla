-------------------------- MODULE WindowScheduler --------------------------
(***************************************************************************)
(* WindowScheduler (crates/resonance-core/src/scheduling.rs): contiguous   *)
(* frames of one stream are accumulated and cut into windows of one        *)
(* length.  A push is a function from the scheduler's state to a result.   *)
(* push_batch is modelled for the one frame that push gives it.            *)
(***************************************************************************)
EXTENDS FrameBuilder

CONSTANTS
  WindowDuration,      (* target_window_duration, in the scaled nanoseconds *)
  MaxWindowsPerPush    (* max_windows_per_push                             *)

ASSUME SchedulerAssumption ==
  WindowDuration \in Nat \ {0} /\ MaxWindowsPerPush \in Nat \ {0}

TimestampTolerance == 1

-----------------------------------------------------------------------------
(* Arithmetic.                                                             *)

\* The nearest whole number of frames, computed in 128 bits; zero is refused.
WindowFrames(rate) ==
  (WindowDuration * rate + NanosPerSecond \div 2) \div NanosPerSecond

\* The time that so many frames take; None when the product leaves its word.
FrameOffset(frames, rate) ==
  IF Fits(frames * NanosPerSecond) THEN (frames * NanosPerSecond) \div rate ELSE None

\* The timestamp so many frames after another one; None on overflow.
Later(start, frames, rate) ==
  LET offset == FrameOffset(frames, rate)
  IN  IF offset # None /\ Fits(start.index + frames) /\ Fits(start.time + offset)
        THEN Timestamp(start.index + frames, start.time + offset)
        ELSE None

AdvanceTimestamp(start, count, rate) == Later(start, count, rate)
TimestampForFrameIndex(origin, index, rate) == Later(origin, index - origin.index, rate)

Apart(m, n) == IF m < n THEN n - m ELSE m - n

-----------------------------------------------------------------------------
(* The scheduler's state.                                                  *)

Cleared(scheduler) ==
  [scheduler EXCEPT !.rate = None, !.origin = None, !.expected = None,
                    !.buffer_start = None, !.samples = <<>>]

NewScheduler ==
  [active |-> None, invalid |-> None, rate |-> None, origin |-> None,
   expected |-> None, buffer_start |-> None, samples |-> <<>>]

Invalidated(scheduler, stream) ==
  [Cleared(scheduler) EXCEPT !.active = stream, !.invalid = stream]

\* Defect: the first push of a stream keeps what is buffered of another one.
Begun_KeepsSamples(scheduler, stream, frame) ==
  [scheduler EXCEPT !.active = stream, !.invalid = None, !.rate = frame.rate,
                    !.origin = frame.start]

\* The first push of a stream drops what is buffered of another one.
Begun(scheduler, stream, frame) ==
  [Cleared(scheduler) EXCEPT !.active = stream, !.invalid = None,
                             !.rate = frame.rate, !.origin = frame.start]

-----------------------------------------------------------------------------
(* A push.                                                                 *)

Continues(scheduler, stream) == scheduler.active = stream

Oversized(frame) ==
  Len(frame.samples) > WindowFrames(frame.rate) * MaxWindowsPerPush

\* Defect: no rounding is tolerated.
TimesDiffer_Exact(expected, start) == start.time # expected.time

\* Two sums of rounded offsets may differ in the last place.
TimesDiffer(expected, start) == Apart(start.time, expected.time) > TimestampTolerance

\* The first refusal that applies, in the order of push_batch, or "Ok".
PushOutcome(scheduler, stream, frame) ==
  LET expected == IF Continues(scheduler, stream) THEN scheduler.expected ELSE None
  IN  IF scheduler.invalid = stream THEN "StreamIdentityInvalidated"
      ELSE IF WindowFrames(frame.rate) = 0 THEN "WindowFrameCountOutOfRange"
      ELSE IF Continues(scheduler, stream) /\ scheduler.rate # frame.rate
        THEN "FormatChangedWithinStream"
      ELSE IF Oversized(frame) THEN "OversizedInput"
      ELSE IF expected # None /\ frame.start.index # expected.index
        THEN "FrameIndexDiscontinuity"
      ELSE IF expected # None /\ TimesDiffer(expected, frame.start)
        THEN "TimestampDiscontinuity"
      ELSE IF AdvanceTimestamp(frame.start, Len(frame.samples), frame.rate) = None
        THEN "TimestampOverflow"
      ELSE "Ok"

Invalidating == {"FormatChangedWithinStream", "FrameIndexDiscontinuity",
                 "TimestampDiscontinuity", "TimestampOverflow"}

Refused(scheduler, outcome) ==
  [outcome |-> outcome, windows |-> <<>>, scheduler |-> scheduler]

\* The windows that the buffered samples complete, in order, and the rest.  A
\* window's start after the first is computed from the origin of the stream;
\* when it overflows, the samples cut so far are gone with their windows, and
\* neither the buffer's start nor the expectation has moved.
Cut(scheduler, stream, start, samples, rate, expected) ==
  LET w == WindowFrames(rate)
      complete == Len(samples) \div w
      After(k) == SubSeq(samples, k * w + 1, Len(samples))
      StartOf(k) ==
        IF k = 0 THEN start
        ELSE TimestampForFrameIndex(scheduler.origin, start.index + k * w, rate)
      failing == {k \in 1 .. complete : After(k) # <<>> /\ StartOf(k) = None}
      moved == IF After(complete) = <<>> THEN None ELSE StartOf(complete)
  IN  IF failing = {}
      THEN [outcome |-> "Ok",
            windows |-> [k \in 1 .. complete |->
              [stream |-> stream, start |-> StartOf(k - 1),
               samples |-> SubSeq(samples, (k - 1) * w + 1, k * w)]],
            scheduler |-> [scheduler EXCEPT !.buffer_start = moved,
                                            !.samples = After(complete),
                                            !.expected = expected]]
      ELSE LET k == CHOOSE k \in failing : \A j \in failing : k <= j
           IN  Refused([scheduler EXCEPT !.buffer_start = StartOf(k - 1),
                                         !.samples = After(k)],
                       "CutOverflow")

Push(scheduler, stream, frame) ==
  LET outcome == PushOutcome(scheduler, stream, frame)
      begun   == IF Continues(scheduler, stream) THEN scheduler
                 ELSE Begun(scheduler, stream, frame)
      start   == IF begun.samples = <<>> THEN frame.start ELSE begun.buffer_start
  IN  CASE outcome = "Ok" ->
             Cut(begun, stream, start, begun.samples \o frame.samples, frame.rate,
                 AdvanceTimestamp(frame.start, Len(frame.samples), frame.rate))
        [] outcome \in Invalidating ->
             Refused(Invalidated(scheduler, stream), outcome)
        [] OTHER -> Refused(scheduler, outcome)
=============================================================================
