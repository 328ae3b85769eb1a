---------------------------- MODULE WaveformPath ----------------------------
(***************************************************************************)
(* The way of the audio data: AudioFrameBuilder (agent, capture.rs), then  *)
(* the WindowScheduler of a session's SessionEncoder (agent, protocol.rs), *)
(* which numbers the windows.  A second feed calls the scheduler as any    *)
(* user of resonance-core may: with several streams, formats and gaps.     *)
(***************************************************************************)
EXTENDS WindowScheduler, SequencesExt

CONSTANTS
  Rates, Streams,     (* a device uses one rate, for one stream            *)
  FirstPositions,     (* where a device's position may start               *)
  PacketFrames,       (* lengths of packets and frames                     *)
  FrameLimit,         (* bound of the model on the frames of a stream      *)
  PushLimit           (* bound of the model on pushes of a library user    *)

ASSUME PathAssumption ==
  /\ Rates \subseteq Nat \ {0} /\ FirstPositions \subseteq Nat
  /\ PacketFrames \subseteq Nat /\ FrameLimit \in Nat /\ PushLimit \in Nat
  /\ Streams # {} /\ None \notin Streams \cup Nat \cup [index: Nat, time: Nat]

\* What a device's frames may be refused for.
Untimely == {"OversizedInput", "CutOverflow", "WindowFrameCountOutOfRange"}
ASSUME RefusalAssumption == None \notin Untimely

\* No packet is so long, and no stream so old, that its end cannot be timed: a
\* packet of hours, a stream of centuries.
ASSUME RangeAssumption ==
  \A count \in PacketFrames, r \in Rates :
    Fits(count * NanosPerSecond) /\ Fits(FrameTime(FrameLimit + count, r))

VARIABLES
  feed,        (* "Device" or "Library"                                    *)
  rate,        (* the rate of the device's stream                          *)
  builder,     (* AudioFrameBuilder                                        *)
  built,       (* outcome of the builder's last push                       *)
  scheduler,   (* WindowScheduler                                          *)
  outcome,     (* outcome of the scheduler's last push                     *)
  sequence,    (* SessionEncoder::sequence                                 *)
  pushes       (* pushes of the library user so far                        *)

\* History: the windows of the active stream, with their numbers, as the
\* session sends or the user gets them; the first refusal of a push; the streams
\* of which a window was lost to CutOverflow.
VARIABLES delivered, refusal, overflowed

vars == <<feed, rate, builder, built, scheduler, outcome, sequence, pushes,
          delivered, refusal, overflowed>>

DeviceStream == CHOOSE s \in Streams : TRUE

Init ==
  /\ feed \in {"Device", "Library"}
  /\ rate \in Rates
  /\ builder = NewBuilder /\ built = "Ok"
  /\ scheduler = NewScheduler /\ outcome = "Ok"
  /\ sequence = 0 /\ pushes = 0
  /\ delivered = <<>> /\ refusal = None /\ overflowed = {}

-----------------------------------------------------------------------------
\* encode: every window of a push takes the next number.  No session lives to
\* see 2^64 of them, nor a window above the protocol's size.
Encoded(windows) ==
  [k \in DOMAIN windows |-> [number |-> sequence + k - 1, window |-> windows[k]]]

\* What is known of the active stream after a push.
Records(stream, result, sent) ==
  /\ delivered' = IF Continues(scheduler, stream) THEN delivered \o sent
                  ELSE IF result.scheduler.active = stream THEN sent ELSE delivered
  /\ refusal' = IF refusal = None /\ result.outcome # "Ok" THEN result.outcome
                ELSE refusal
  /\ overflowed' = IF result.outcome = "CutOverflow" THEN overflowed \cup {stream}
                   ELSE overflowed

\* Where a packet may say it starts: after the one before it, or elsewhere.
Positions ==
  IF builder.next_position = None THEN FirstPositions
  ELSE {builder.next_position, builder.next_position + 1}

\* A capture packet: built, scheduled, encoded.
DevicePacket ==
  /\ feed = "Device" /\ built = "Ok" /\ builder.next_index <= FrameLimit
  /\ \E packet \in Packets(PacketFrames, Positions, {0, 1}) :
       LET frame  == BuiltFrame(builder, packet, rate, DeviceStream)
           result == Push(scheduler, DeviceStream, frame)
       IN  /\ built' = BuildOutcome(builder, packet, rate)
           /\ builder' = Built(builder, packet, rate)
           /\ IF built' = "Ok"
                THEN /\ scheduler' = result.scheduler
                     /\ outcome' = result.outcome
                     /\ sequence' = sequence + Len(result.windows)
                     /\ Records(DeviceStream, result, Encoded(result.windows))
                ELSE UNCHANGED <<scheduler, outcome, sequence, delivered, refusal,
                                 overflowed>>
  /\ UNCHANGED <<feed, rate, pushes>>

\* A frame from a library user: at the expected place, elsewhere, or again.
LibraryFrame ==
  /\ feed = "Library" /\ pushes < PushLimit
  /\ \E stream \in Streams, frame_rate \in Rates, count \in PacketFrames \ {0},
        drift \in 0 .. 2 :
     \E index \in 0 .. FrameLimit :
       /\ index \in {0} \cup (IF scheduler.expected = None THEN {}
                              ELSE {scheduler.expected.index, scheduler.expected.index + 1})
       /\ LET frame == Frame(Timestamp(index, FrameTime(index, frame_rate) + drift),
                             frame_rate, SampleFrames(stream, index, count))
              result == Push(scheduler, stream, frame)
          IN  /\ scheduler' = result.scheduler
              /\ outcome' = result.outcome
              /\ Records(stream, result, Encoded(result.windows))
  /\ pushes' = pushes + 1
  /\ UNCHANGED <<feed, rate, builder, built, sequence>>

Next == DevicePacket \/ LibraryFrame

Spec == Init /\ [][Next]_vars

-----------------------------------------------------------------------------
(* Properties.                                                             *)

SamplesOf(windows) ==
  FlattenSeq([k \in DOMAIN windows |-> windows[k].window.samples])

\* What has been delivered of the active stream and what is retained of it are
\* its frames since its beginning, each once, in order, and of no other stream;
\* every window has the full length and the frame index of its first sample.  Two
\* exceptions, both named in the README: a stream that lost windows to a timestamp
\* overflow, whose next window may be labelled wrongly; and time and number, which
\* are those of the window only while the device has had nothing refused.
WindowsAreExact ==
  LET samples == SamplesOf(delivered) \o scheduler.samples
      length == WindowFrames(scheduler.rate)
  IN  scheduler.active \notin overflowed /\ scheduler.expected # None =>
        /\ Len(samples) = scheduler.expected.index - scheduler.origin.index
        /\ Len(scheduler.samples) < length
        /\ \A i \in DOMAIN samples :
             samples[i] = [stream |-> scheduler.active,
                           at |-> samples[1].at + i - 1]
        /\ \A k \in DOMAIN delivered :
             LET window == delivered[k].window
             IN  /\ Len(window.samples) = length
                 /\ window.start.index
                      = scheduler.origin.index + window.samples[1].at - samples[1].at
                 /\ feed = "Device" /\ refusal = None =>
                      /\ window.start.time = FrameTime(window.start.index, rate)
                      /\ delivered[k].number = k - 1

\* The frames that the builder accepts are accepted by the scheduler: its sums of
\* rounded times stay within the tolerance, whatever the packets' lengths.  The
\* first refusal is of a packet too long, or of a stream so long that the
\* scheduler's 64-bit product overflows, where the builder's does not.
DeviceFramesAreAccepted ==
  feed = "Device" =>
    /\ refusal \in Untimely \cup {None}
    /\ refusal = "CutOverflow" => ~Fits(builder.next_index * NanosPerSecond)
=============================================================================
