---------------------------- MODULE FrameBuilder ----------------------------
(***************************************************************************)
(* AudioFrameBuilder (crates/resonance-agent/src/capture.rs): native        *)
(* capture packets become waveform frames, numbered from zero and timed by *)
(* their number, or are refused as soon as continuity is in doubt.  A       *)
(* sample frame is the place it came from: its stream and its position.    *)
(***************************************************************************)
EXTENDS Integers, Sequences

CONSTANTS
  NanosPerSecond,   (* NANOS_PER_SECOND, scaled down                       *)
  WordMax,          (* largest u64, scaled down                            *)
  None

ASSUME WordAssumption == NanosPerSecond \in Nat \ {0} /\ WordMax \in Nat

-----------------------------------------------------------------------------
Fits(n) == n <= WordMax
Timestamp(index, time) == [index |-> index, time |-> time]

\* The samples of a packet or frame: count sample frames from a position on.
SampleFrames(stream, position, count) ==
  [i \in 1 .. count |-> [stream |-> stream, at |-> position + i - 1]]

Frame(start, rate, samples) == [start |-> start, rate |-> rate, samples |-> samples]

\* frame_time_ns computes in 128 bits.
FrameTime(index, rate) == (index * NanosPerSecond) \div rate

NewBuilder == [next_position |-> None, next_index |-> 0, previous_qpc |-> None]

\* Packets as the capture loop makes them.  An intact one has a payload of the
\* announced length without a non-finite sample.
Packets(counts, positions, times) ==
  [count : counts, position : positions, qpc : times, discontinuity : BOOLEAN,
   timestamp_error : BOOLEAN, intact : BOOLEAN]

QpcTick == 100

\* The outcome of push: the first refusal that applies, or "Ok".
BuildOutcome(builder, packet, rate) ==
  LET first == builder.next_position = None
  IN  IF packet.count = 0 THEN "EmptyPacket"
      ELSE IF packet.timestamp_error THEN "TimestampUnavailable"
      ELSE IF ~first /\ packet.discontinuity THEN "DataDiscontinuity"
      ELSE IF ~first /\ packet.position # builder.next_position
        THEN "DevicePositionDiscontinuity"
      ELSE IF builder.previous_qpc # None /\ packet.qpc < builder.previous_qpc
        THEN "NonMonotonicQpc"
      ELSE IF builder.previous_qpc # None
                /\ ~Fits((packet.qpc - builder.previous_qpc) * QpcTick)
        THEN "TimestampOverflow"
      ELSE IF ~packet.intact THEN "MalformedPayload"
      ELSE IF ~Fits(FrameTime(builder.next_index, rate)) THEN "TimestampOverflow"
      ELSE IF ~Fits(packet.position + packet.count) THEN "DevicePositionOverflow"
      ELSE IF ~Fits(builder.next_index + packet.count) THEN "FrameIndexOverflow"
      ELSE "Ok"

\* The builder after a push.  The position is stored before the frame index is
\* found to overflow.
Built(builder, packet, rate) ==
  LET outcome == BuildOutcome(builder, packet, rate)
      placed  == [builder EXCEPT !.next_position = packet.position + packet.count]
  IN  CASE outcome = "Ok" ->
             [placed EXCEPT !.next_index = @ + packet.count,
                            !.previous_qpc = packet.qpc]
        [] outcome = "FrameIndexOverflow" -> placed
        [] OTHER -> builder

\* The frame of a packet that is accepted.
BuiltFrame(builder, packet, rate, stream) ==
  Frame(Timestamp(builder.next_index, FrameTime(builder.next_index, rate)), rate,
        SampleFrames(stream, packet.position, packet.count))
=============================================================================
